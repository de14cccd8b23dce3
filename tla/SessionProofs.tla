--------------------------- MODULE SessionProofs ---------------------------
(***************************************************************************)
(* What every statement on the token tables preserves, for every value of  *)
(* the constants, and the handlers that only open, check or end sessions.  *)
(* The relations below are what a handler can rely on while the statements *)
(* of other requests run between its own.                                  *)
(***************************************************************************)
EXTENDS Revocation, DirectLogin, BearerGate, TLAPS

\* Zenon proves the leaves that cite no other prover.
USE Zenon

\* A code that was issued keeps its binding and is never usable again once it was
\* used, revoked or deleted.
CodesStep ==
    \A k \in Codes :
        /\ codes[k] # NoRow => codes'[k] # NoRow
        /\ codes[k] = Purged => codes'[k] = Purged
        /\ IsCode(k) /\ codes'[k] # Purged =>
              /\ codes'[k].client = codes[k].client
              /\ codes'[k].user = codes[k].user
              /\ codes'[k].uri = codes[k].uri
              /\ codes'[k].expires = codes[k].expires
              /\ codes[k].used => codes'[k].used
              /\ codes[k].revoked => codes'[k].revoked

\* A stored access token keeps its owner and its expiry, stays revoked once it is,
\* and is only deleted after it has expired.
AccessStep ==
    \A a \in AccessIds :
        /\ access[a] # NoRow => access'[a] # NoRow
        /\ access[a] = Purged => access'[a] = Purged
        /\ IsAccess(a) /\ access'[a] = Purged => access[a].expires < now
        /\ IsAccess(a) /\ access'[a] # Purged =>
              /\ access'[a].user = access[a].user
              /\ access'[a].expires = access[a].expires
              /\ access[a].revoked => access'[a].revoked

\* A refresh token row is never deleted, keeps its lineage, and stays revoked once
\* it is.
RefreshStep ==
    \A r \in RefreshIds :
        IsRefresh(r) =>
            /\ refresh'[r] # NoRow
            /\ refresh'[r].family = refresh[r].family
            /\ refresh'[r].client = refresh[r].client
            /\ refresh'[r].user = refresh[r].user
            /\ refresh'[r].prev = refresh[r].prev
            /\ refresh[r].revoked => refresh'[r].revoked

\* A signed token never changes.
JwtStep == \A a \in AccessIds : jwt[a] # NoRow => jwt'[a] = jwt[a]

\* What any step of any component does to the tables.
StoreStep ==
    /\ CodesStep
    /\ AccessStep
    /\ RefreshStep
    /\ JwtStep
    /\ now' \in Nat /\ now <= now'
    /\ held \subseteq held'

\* Every token that a caller holds exists.
HeldKnown ==
    /\ \A r \in held \cap RefreshIds : refresh[r] # NoRow
    /\ \A a \in held \cap AccessIds : jwt[a] # NoRow

\* A refresh token inserted by anyone but RotateRefreshToken starts a family.
RootsOnly ==
    \A r \in RefreshIds :
        ~IsRefresh(r) /\ refresh'[r] # NoRow =>
            refresh'[r].prev = None /\ refresh'[r].family = r

CodesType == codes \in [Codes -> CodeRow \cup {NoRow, Purged}]
AccessType == access \in [AccessIds -> AccessRow \cup {NoRow, Purged}]
RefreshType == refresh \in [RefreshIds -> RefreshRow \cup {NoRow}]
JwtType == jwt \in [AccessIds -> Claims \cup {NoRow}]

---------------------------------------------------------------------------
(* authorization_codes                                                     *)

\* CreateAuthorizationCode fills a free slot and touches no other code.
LEMMA CreateAuthorizationCodeStep ==
    ASSUME CodesType, NEW k \in Codes, NEW row \in CodeRow,
           CreateAuthorizationCode(k, row)
    PROVE  CodesType' /\ CodesStep
  BY StoreAssumption, RowAssumption
  DEF CodesType, CodesStep, CreateAuthorizationCode, IsCode

\* MarkAuthorizationCodeUsed only sets the mark.
LEMMA MarkAuthorizationCodeUsedStep ==
    ASSUME CodesType, NEW k \in Codes, IsCode(k), MarkAuthorizationCodeUsed(k)
    PROVE  CodesType' /\ CodesStep /\ codes'[k] # Purged /\ codes'[k].used
  <1> DEFINE q == [codes[k] EXCEPT !.used = TRUE]
  <1>1. codes[k] \in CodeRow
    BY DEF CodesType, IsCode
  <1>2. /\ q \in CodeRow
        /\ q.client = codes[k].client /\ q.user = codes[k].user
        /\ q.uri = codes[k].uri /\ q.expires = codes[k].expires
        /\ q.used /\ q.revoked = codes[k].revoked
    BY <1>1 DEF CodeRow
  <1>3. codes' = [codes EXCEPT ![k] = q]
    BY DEF MarkAuthorizationCodeUsed
  <1> HIDE DEF q
  <1>4. CodesType'
    BY <1>2, <1>3 DEF CodesType
  <1>5. codes'[k] = q /\ q \notin {NoRow, Purged}
    BY <1>2, <1>3, RowAssumption DEF CodesType
  <1>6. CodesStep
    BY <1>2, <1>3, <1>5 DEF CodesType, CodesStep, IsCode
  <1> QED BY <1>2, <1>4, <1>5, <1>6

\* RevokeAuthorizationCode only sets the flag.
LEMMA RevokeAuthorizationCodeStep ==
    ASSUME CodesType, NEW k \in Codes, IsCode(k), RevokeAuthorizationCode(k)
    PROVE  CodesType' /\ CodesStep
  <1> DEFINE q == [codes[k] EXCEPT !.revoked = TRUE]
  <1>1. codes[k] \in CodeRow
    BY DEF CodesType, IsCode
  <1>2. /\ q \in CodeRow
        /\ q.client = codes[k].client /\ q.user = codes[k].user
        /\ q.uri = codes[k].uri /\ q.expires = codes[k].expires
        /\ q.revoked /\ q.used = codes[k].used
    BY <1>1 DEF CodeRow
  <1>3. codes' = [codes EXCEPT ![k] = q]
    BY DEF RevokeAuthorizationCode
  <1> HIDE DEF q
  <1>4. CodesType'
    BY <1>2, <1>3 DEF CodesType
  <1>5. codes'[k] = q /\ q \notin {NoRow, Purged}
    BY <1>2, <1>3, RowAssumption DEF CodesType
  <1>6. CodesStep
    BY <1>2, <1>3, <1>5 DEF CodesType, CodesStep, IsCode
  <1> QED BY <1>2, <1>4, <1>5, <1>6

\* DeleteExpiredAuthorizationCodes removes whole rows.
LEMMA DeleteExpiredAuthorizationCodesStep ==
    ASSUME CodesType, DeleteExpiredAuthorizationCodes
    PROVE  CodesType' /\ CodesStep
  BY StoreAssumption, RowAssumption
  DEF CodesType, CodesStep, DeleteExpiredAuthorizationCodes, IsCode

---------------------------------------------------------------------------
(* access_tokens                                                           *)

\* CreateAccessToken fills a free slot and touches no other token.
LEMMA CreateAccessTokenStep ==
    ASSUME AccessType, NEW a \in AccessIds, NEW row \in AccessRow,
           CreateAccessToken(a, row)
    PROVE  AccessType' /\ AccessStep
  BY StoreAssumption, RowAssumption
  DEF AccessType, AccessStep, CreateAccessToken, IsAccess

\* RevokeAccessToken only sets the flag, and sets it if there is a row.
LEMMA RevokeAccessTokenStep ==
    ASSUME AccessType, NEW a \in AccessIds, RevokeAccessToken(a)
    PROVE  AccessType' /\ AccessStep
  <1> DEFINE Q(b) == [access[b] EXCEPT !.revoked = TRUE]
  <1>1. ASSUME NEW b \in AccessIds, IsAccess(b)
        PROVE  /\ Q(b) \in AccessRow /\ Q(b) \notin {NoRow, Purged}
               /\ Q(b).user = access[b].user /\ Q(b).expires = access[b].expires
               /\ Q(b).revoked
    <2>1. access[b] \in AccessRow
      BY <1>1 DEF AccessType, IsAccess
    <2>2. Q(b) \in AccessRow
      BY <2>1 DEF AccessRow
    <2>3. Q(b).user = access[b].user /\ Q(b).expires = access[b].expires /\ Q(b).revoked
      BY <2>1 DEF AccessRow
    <2> QED BY <2>2, <2>3, RowAssumption
  <1>2. \A b \in AccessIds :
           \/ access'[b] = access[b]
           \/ IsAccess(b) /\ access'[b] = Q(b)
    BY DEF RevokeAccessToken, AccessType
  <1>3. DOMAIN access' = AccessIds /\ access' = [b \in AccessIds |-> access'[b]]
    BY DEF RevokeAccessToken, AccessType
  <1> HIDE DEF Q
  <1>4. AccessType'
    BY <1>1, <1>2, <1>3, ZenonT(30) DEF AccessType
  <1>5. AccessStep
    BY <1>1, <1>2 DEF AccessStep, IsAccess
  <1> QED BY <1>4, <1>5

\* RevokeAccessTokensByUser only sets flags.
LEMMA RevokeAccessTokensByUserStep ==
    ASSUME AccessType, NEW u, RevokeAccessTokensByUser(u)
    PROVE  AccessType' /\ AccessStep
  <1> DEFINE Q(b) == [access[b] EXCEPT !.revoked = TRUE]
  <1>1. ASSUME NEW b \in AccessIds, IsAccess(b)
        PROVE  /\ Q(b) \in AccessRow /\ Q(b) \notin {NoRow, Purged}
               /\ Q(b).user = access[b].user /\ Q(b).expires = access[b].expires
               /\ Q(b).revoked
    <2>1. access[b] \in AccessRow
      BY <1>1 DEF AccessType, IsAccess
    <2>2. Q(b) \in AccessRow
      BY <2>1 DEF AccessRow
    <2>3. Q(b).user = access[b].user /\ Q(b).expires = access[b].expires /\ Q(b).revoked
      BY <2>1 DEF AccessRow
    <2> QED BY <2>2, <2>3, RowAssumption
  <1>2. \A b \in AccessIds :
           \/ access'[b] = access[b]
           \/ IsAccess(b) /\ access'[b] = Q(b)
    BY DEF RevokeAccessTokensByUser, AccessType
  <1>3. DOMAIN access' = AccessIds /\ access' = [b \in AccessIds |-> access'[b]]
    BY DEF RevokeAccessTokensByUser, AccessType
  <1> HIDE DEF Q
  <1>4. AccessType'
    BY <1>1, <1>2, <1>3, ZenonT(30) DEF AccessType
  <1>5. AccessStep
    BY <1>1, <1>2 DEF AccessStep, IsAccess
  <1> QED BY <1>4, <1>5

\* DeleteExpiredAccessTokens removes expired rows and clears the links to them.
LEMMA DeleteExpiredAccessTokensStep ==
    ASSUME AccessType, RefreshType, DeleteExpiredAccessTokens
    PROVE  AccessType' /\ AccessStep /\ RefreshType' /\ RefreshStep
  <1> DEFINE Expired == {a \in AccessIds : IsAccess(a) /\ access[a].expires < now}
  <1>1. AccessType' /\ AccessStep
    BY StoreAssumption, RowAssumption
    DEF AccessType, AccessStep, DeleteExpiredAccessTokens, IsAccess
  <1>2. refresh' = [r \in RefreshIds |->
                      IF IsRefresh(r) /\ refresh[r].access \in Expired
                      THEN [refresh[r] EXCEPT !.access = None] ELSE refresh[r]]
    BY DEF DeleteExpiredAccessTokens
  <1> HIDE DEF Expired
  <1>3. RefreshType' /\ RefreshStep
    BY <1>2, StoreAssumption, RowAssumption, SMT
    DEF RefreshType, RefreshStep, RefreshRow, IsRefresh
  <1> QED BY <1>1, <1>3

(* refresh_tokens                                                          *)

\* CreateRefreshToken fills a free slot and touches no other token.
LEMMA CreateRefreshTokenStep ==
    ASSUME RefreshType, NEW r \in RefreshIds, NEW row \in RefreshRow,
           CreateRefreshToken(r, row)
    PROVE  RefreshType' /\ RefreshStep
  BY StoreAssumption, RowAssumption
  DEF RefreshType, RefreshStep, CreateRefreshToken, IsRefresh

\* new is row, revoked.
RevokedRow(row, new) ==
    /\ new \in RefreshRow /\ new # NoRow
    /\ new.family = row.family /\ new.client = row.client /\ new.user = row.user
    /\ new.prev = row.prev
    /\ new.revoked

\* What the UPDATE statements on refresh_tokens write into a row.
LEMMA RevokeRow ==
    ASSUME NEW row \in RefreshRow, NEW reason \in RevokeReasons
    PROVE  RevokedRow(row, [row EXCEPT !.revoked = TRUE, !.reason = reason])
  <1> DEFINE q == [row EXCEPT !.revoked = TRUE, !.reason = reason]
  <1>1. q \in RefreshRow
    BY DEF RefreshRow
  <1>2. /\ q.family = row.family /\ q.client = row.client /\ q.user = row.user
        /\ q.prev = row.prev /\ q.revoked
    BY DEF RefreshRow
  <1> QED BY <1>1, <1>2, RowAssumption DEF RevokedRow

\* MarkRefreshTokenUsed writes one of the reasons.
LEMMA UsedReason == "used" \in RevokeReasons
  BY DEF RevokeReasons

\* MarkRefreshTokenUsed revokes the row.
LEMMA MarkRefreshTokenUsedStep ==
    ASSUME RefreshType, NEW r \in RefreshIds, IsRefresh(r), MarkRefreshTokenUsed(r)
    PROVE  RefreshType' /\ RefreshStep /\ refresh'[r].revoked
  <1> DEFINE Q(t) == [refresh[t] EXCEPT !.revoked = TRUE, !.reason = "used"]
  <1>1. ASSUME NEW t \in RefreshIds, IsRefresh(t)
        PROVE  RevokedRow(refresh[t], Q(t))
    <2>1. refresh[t] \in RefreshRow
      BY <1>1 DEF RefreshType, IsRefresh
    <2> QED BY <2>1, RevokeRow, UsedReason
  <1>2. \A t \in RefreshIds :
           \/ refresh'[t] = refresh[t]
           \/ IsRefresh(t) /\ refresh'[t] = Q(t)
    BY DEF MarkRefreshTokenUsed, RefreshType
  <1>3. refresh' = [t \in RefreshIds |-> refresh'[t]]
    BY DEF MarkRefreshTokenUsed, RefreshType
  <1> HIDE DEF Q
  <1>4. RefreshType'
    BY <1>1, <1>2, <1>3 DEF RefreshType, RevokedRow
  <1>5. RefreshStep
    BY <1>1, <1>2, ZenonT(30) DEF RefreshStep, RevokedRow, IsRefresh
  <1>6. refresh'[r] = Q(r)
    BY DEF MarkRefreshTokenUsed, RefreshType, Q
  <1>7. refresh'[r].revoked
    BY <1>1, <1>6 DEF RevokedRow
  <1> QED BY <1>4, <1>5, <1>7

\* RevokeRefreshToken revokes the row.
LEMMA RevokeRefreshTokenStep ==
    ASSUME RefreshType, NEW r \in RefreshIds, IsRefresh(r),
           NEW reason \in RevokeReasons, RevokeRefreshToken(r, reason)
    PROVE  RefreshType' /\ RefreshStep
  <1> DEFINE Q(t) == [refresh[t] EXCEPT !.revoked = TRUE, !.reason = reason]
  <1>1. ASSUME NEW t \in RefreshIds, IsRefresh(t)
        PROVE  RevokedRow(refresh[t], Q(t))
    <2>1. refresh[t] \in RefreshRow
      BY <1>1 DEF RefreshType, IsRefresh
    <2> QED BY <2>1, RevokeRow
  <1>2. \A t \in RefreshIds :
           \/ refresh'[t] = refresh[t]
           \/ IsRefresh(t) /\ refresh'[t] = Q(t)
    BY DEF RevokeRefreshToken, RefreshType
  <1>3. refresh' = [t \in RefreshIds |-> refresh'[t]]
    BY DEF RevokeRefreshToken, RefreshType
  <1> HIDE DEF Q
  <1>4. RefreshType'
    BY <1>1, <1>2, <1>3 DEF RefreshType, RevokedRow
  <1>5. RefreshStep
    BY <1>1, <1>2, ZenonT(30) DEF RefreshStep, RevokedRow, IsRefresh
  <1> QED BY <1>4, <1>5

\* RevokeRefreshTokenFamily only revokes rows.
LEMMA RevokeRefreshTokenFamilyStep ==
    ASSUME RefreshType, NEW f, NEW reason \in RevokeReasons,
           RevokeRefreshTokenFamily(f, reason)
    PROVE  RefreshType' /\ RefreshStep
  <1> DEFINE Q(t) == [refresh[t] EXCEPT !.revoked = TRUE, !.reason = reason]
  <1>1. ASSUME NEW t \in RefreshIds, IsRefresh(t)
        PROVE  RevokedRow(refresh[t], Q(t))
    <2>1. refresh[t] \in RefreshRow
      BY <1>1 DEF RefreshType, IsRefresh
    <2> QED BY <2>1, RevokeRow
  <1>2. \A t \in RefreshIds :
           \/ refresh'[t] = refresh[t]
           \/ IsRefresh(t) /\ refresh'[t] = Q(t)
    BY DEF RevokeRefreshTokenFamily, RefreshType
  <1>3. refresh' = [t \in RefreshIds |-> refresh'[t]]
    BY DEF RevokeRefreshTokenFamily, RefreshType
  <1> HIDE DEF Q
  <1>4. RefreshType'
    BY <1>1, <1>2, <1>3 DEF RefreshType, RevokedRow
  <1>5. RefreshStep
    BY <1>1, <1>2 DEF RefreshStep, RevokedRow, IsRefresh
  <1> QED BY <1>4, <1>5

\* RevokeRefreshTokensByUser only revokes rows.
LEMMA RevokeRefreshTokensByUserStep ==
    ASSUME RefreshType, NEW u, NEW reason \in RevokeReasons,
           RevokeRefreshTokensByUser(u, reason)
    PROVE  RefreshType' /\ RefreshStep
  <1> DEFINE Q(t) == [refresh[t] EXCEPT !.revoked = TRUE, !.reason = reason]
  <1>1. ASSUME NEW t \in RefreshIds, IsRefresh(t)
        PROVE  RevokedRow(refresh[t], Q(t))
    <2>1. refresh[t] \in RefreshRow
      BY <1>1 DEF RefreshType, IsRefresh
    <2> QED BY <2>1, RevokeRow
  <1>2. \A t \in RefreshIds :
           \/ refresh'[t] = refresh[t]
           \/ IsRefresh(t) /\ refresh'[t] = Q(t)
    BY DEF RevokeRefreshTokensByUser, RefreshType, Live
  <1>3. refresh' = [t \in RefreshIds |-> refresh'[t]]
    BY DEF RevokeRefreshTokensByUser, RefreshType
  <1> HIDE DEF Q
  <1>4. RefreshType'
    BY <1>1, <1>2, <1>3 DEF RefreshType, RevokedRow
  <1>5. RefreshStep
    BY <1>1, <1>2 DEF RefreshStep, RevokedRow, IsRefresh
  <1> QED BY <1>4, <1>5

(* Tokens                                                                  *)

\* GenerateAccessToken signs a token that did not exist.
LEMMA GenerateAccessTokenStep ==
    ASSUME JwtType, now \in Nat, NEW a \in AccessIds, NEW u \in Users,
           GenerateAccessToken(a, u)
    PROVE  JwtType' /\ JwtStep /\ jwt'[a] # NoRow /\ jwt'[a].user = u
  BY StoreAssumption, RowAssumption, SMT
  DEF JwtType, JwtStep, Claims, GenerateAccessToken

\* A statement that does not touch a table.
LEMMA StutterStep ==
    /\ UNCHANGED codes => CodesStep
    /\ UNCHANGED access => AccessStep
    /\ UNCHANGED refresh => RefreshStep
    /\ UNCHANGED jwt => JwtStep
  BY DEF CodesStep, AccessStep, RefreshStep, JwtStep, IsCode, IsAccess, IsRefresh

\* Held tokens go on existing.
LEMMA HeldKept ==
    ASSUME HeldKnown, StoreStep, UNCHANGED held
    PROVE  HeldKnown'
  BY DEF HeldKnown, StoreStep, RefreshStep, JwtStep, IsRefresh

\* Every token that a request carries exists.
RevKnown ==
    \A w \in Revokers :
        rev[w].pc # "idle" /\ rev[w].tok \in RefreshIds => refresh[rev[w].tok] # NoRow

LoginKnown ==
    \A w \in Logins : login[w].pc \in LoginHolding => jwt[login[w].acc] # NoRow

---------------------------------------------------------------------------
(* Revocation                                                              *)

\* The steps of everyone else keep what the requests know.
LEMMA RevKept ==
    ASSUME RevTypeOK, RevKnown, StoreStep, UNCHANGED revVars
    PROVE  RevTypeOK' /\ RevKnown'
  BY DEF RevTypeOK, RevKnown, revVars, StoreStep, RefreshStep, IsRefresh

\* A statement that inserts no refresh token.
LEMMA NoRoots ==
    ASSUME UNCHANGED refresh
    PROVE  RootsOnly
  BY DEF RootsOnly, IsRefresh

\* Every action of a revocation.
LEMMA RevStep ==
    ASSUME StoreTypeOK, RevTypeOK, RevKnown, HeldKnown, RevNext
    PROVE  StoreTypeOK' /\ RevTypeOK' /\ RevKnown' /\ HeldKnown' /\ StoreStep /\ RootsOnly
  <1> USE DEF StoreTypeOK, CodesType, AccessType, RefreshType, JwtType
  <1> DEFINE Goal == /\ StoreTypeOK' /\ RevTypeOK' /\ RevKnown' /\ HeldKnown'
                     /\ StoreStep /\ RootsOnly
             Tables == StoreTypeOK' /\ StoreStep /\ RootsOnly
  <1>0. UNCHANGED storeVars => Tables /\ HeldKnown'
    BY StutterStep, NoRoots, SMT DEF storeVars, StoreStep, HeldKnown
  <1>1. ASSUME NEW w \in Revokers, NEW q \in RevRequest, rev' = [rev EXCEPT ![w] = q],
               q.pc \in {"revokeRefresh", "logRefresh"} => q.tok \in RefreshIds,
               q.pc \in {"revokeAccess", "logAccess"} => q.acc \in AccessIds,
               q.tok \in RefreshIds => refresh[q.tok] # NoRow,
               reported' \subseteq RefreshIds \X AccessIds, StoreStep
        PROVE  RevTypeOK' /\ RevKnown'
    BY <1>1 DEF RevTypeOK, RevKnown, StoreStep, RefreshStep, IsRefresh
  <1>2. ASSUME NEW w \in Revokers, rev' = [rev EXCEPT ![w] = RevIdle],
               reported' \subseteq RefreshIds \X AccessIds, StoreStep
        PROVE  RevTypeOK' /\ RevKnown'
    BY <1>2 DEF RevTypeOK, RevKnown, RevIdle, StoreStep, RefreshStep, IsRefresh
  <1>3. ASSUME NEW w \in Revokers, rev[w].pc # "idle"
        PROVE  /\ rev[w] \in RevRequest
               /\ rev[w].tok \in RefreshIds => refresh[rev[w].tok] # NoRow
               /\ rev[w].tok \in RefreshIds => refresh[rev[w].tok].access \in AccessIds \cup {None}
    BY <1>3, RowAssumption, SMT DEF RevTypeOK, RevIdle, RevKnown, RefreshRow
  <1>4. ASSUME NEW w \in Revokers, NEW t \in held, NEW hinted \in BOOLEAN,
               RevBegin(w, t, hinted)
        PROVE  Goal
    <2> DEFINE q == [pc |-> IF hinted THEN "access" ELSE "refresh",
                     tok |-> t, acc |-> IF t \in AccessIds THEN t ELSE None]
    <2>1. q \in RevRequest /\ q.pc \in {"access", "refresh"} /\ q.tok = t
      BY DEF RevRequest
    <2>2. rev' = [rev EXCEPT ![w] = q]
      BY <1>4 DEF RevBegin
    <2> HIDE DEF q
    <2>3. t \in RefreshIds => refresh[t] # NoRow
      BY DEF HeldKnown
    <2>4. RevTypeOK' /\ RevKnown'
      BY <1>0, <1>1, <1>4, <2>1, <2>2, <2>3 DEF RevBegin, RevTypeOK
    <2> QED BY <1>0, <1>4, <2>4 DEF RevBegin
  <1>5. ASSUME NEW w \in Revokers, RevLookupRefresh(w)
        PROVE  Goal
    <2>1. /\ rev[w] \in RevRequest
          /\ rev[w].tok \in RefreshIds => refresh[rev[w].tok] # NoRow
          /\ rev[w].tok \in RefreshIds => refresh[rev[w].tok].access \in AccessIds \cup {None}
      BY <1>3, <1>5 DEF RevLookupRefresh
    <2>2. Tables /\ HeldKnown'
      BY <1>0, <1>5 DEF RevLookupRefresh
    <2>3. reported' \subseteq RefreshIds \X AccessIds
      BY <1>5, <2>1, SMT DEF RevLookupRefresh, RevReport, RevTypeOK
    <2>4. CASE rev' = [rev EXCEPT ![w].pc = "access"]
      <3> DEFINE q == [rev[w] EXCEPT !.pc = "access"]
      <3>1. q \in RevRequest /\ q.pc = "access" /\ q.tok = rev[w].tok
        BY <2>1 DEF RevRequest
      <3>2. rev' = [rev EXCEPT ![w] = q]
        BY <2>4 DEF RevTypeOK
      <3> HIDE DEF q
      <3> QED BY <1>1, <2>1, <2>2, <2>3, <3>1, <3>2
    <2>5. CASE /\ rev[w].tok \in RefreshIds
               /\ rev' = [rev EXCEPT ![w].pc = "revokeRefresh",
                                     ![w].acc = refresh[rev[w].tok].access]
      <3> DEFINE q == [rev[w] EXCEPT !.pc = "revokeRefresh",
                                     !.acc = refresh[rev[w].tok].access]
      <3>1. q \in RevRequest /\ q.pc = "revokeRefresh" /\ q.tok = rev[w].tok
        BY <2>1, <2>5 DEF RevRequest
      <3>2. rev' = [rev EXCEPT ![w] = q]
        BY <2>5 DEF RevTypeOK
      <3> HIDE DEF q
      <3> QED BY <1>1, <2>1, <2>2, <2>3, <2>5, <3>1, <3>2, ZenonT(30)
    <2>6. CASE rev' = [rev EXCEPT ![w] = RevIdle]
      BY <1>2, <2>2, <2>3, <2>6
    <2> QED BY <1>5, <2>4, <2>5, <2>6 DEF RevLookupRefresh
  <1>6. ASSUME NEW w \in Revokers, RevRevokeRefresh(w)
        PROVE  Goal
    <2>1. rev[w] \in RevRequest /\ rev[w].tok \in RefreshIds /\ refresh[rev[w].tok] # NoRow
      BY <1>3, <1>6 DEF RevRevokeRefresh, RevTypeOK
    <2> DEFINE q == [rev[w] EXCEPT !.pc = "logRefresh"]
    <2>2. q \in RevRequest /\ q.pc = "logRefresh" /\ q.tok = rev[w].tok
      BY <2>1 DEF RevRequest
    <2>3. rev' = [rev EXCEPT ![w] = q]
      BY <1>6 DEF RevRevokeRefresh, RevTypeOK
    <2> HIDE DEF q
    <2>4. RefreshType' /\ RefreshStep
      BY <1>6, <2>1, RevokeRefreshTokenStep DEF RevRevokeRefresh, IsRefresh, RevokeReasons
    <2>5. RootsOnly
      BY <1>6, <2>1 DEF RevRevokeRefresh, RevokeRefreshToken, RootsOnly, IsRefresh
    <2>6. Tables /\ HeldKnown'
      BY <1>6, <2>4, <2>5, StutterStep, HeldKept, SMT DEF RevRevokeRefresh, StoreStep
    <2>7. reported' \subseteq RefreshIds \X AccessIds
      BY <1>6 DEF RevRevokeRefresh, RevTypeOK
    <2>8. /\ q.pc \notin {"revokeAccess", "logAccess"}
          /\ q.tok \in RefreshIds /\ refresh[q.tok] # NoRow
      BY <2>1, <2>2
    <2> QED BY <1>1, <2>2, <2>3, <2>6, <2>7, <2>8
  <1>7. ASSUME NEW w \in Revokers, RevLogRefresh(w)
        PROVE  Goal
    <2>1. rev[w] \in RevRequest /\ rev[w].tok \in RefreshIds /\ refresh[rev[w].tok] # NoRow
      BY <1>3, <1>7 DEF RevLogRefresh, RevTypeOK
    <2> DEFINE q == [rev[w] EXCEPT !.pc = "access"]
    <2>2. q \in RevRequest /\ q.pc = "access" /\ q.tok = rev[w].tok
      BY <2>1 DEF RevRequest
    <2>3. rev' = [rev EXCEPT ![w] = q]
      BY <1>7 DEF RevLogRefresh, RevTypeOK
    <2> HIDE DEF q
    <2>4. audit' \subseteq AuditRow
      BY <1>7, <2>1, SMT DEF RevLogRefresh, LogEvent, AuditRow
    <2>5. Tables /\ HeldKnown'
      BY <1>7, <2>4, StutterStep, NoRoots, HeldKept, SMT DEF RevLogRefresh, StoreStep
    <2>7. reported' \subseteq RefreshIds \X AccessIds
      BY <1>7 DEF RevLogRefresh, RevTypeOK
    <2>8. /\ q.pc \notin {"revokeAccess", "logAccess"}
          /\ q.tok \in RefreshIds /\ refresh[q.tok] # NoRow
      BY <2>1, <2>2
    <2> QED BY <1>1, <2>2, <2>3, <2>5, <2>7, <2>8
  <1>8. ASSUME NEW w \in Revokers, RevLookupAccess(w)
        PROVE  Goal
    <2>1. /\ rev[w] \in RevRequest /\ rev[w].acc \in AccessIds \cup {None}
          /\ rev[w].tok \in RefreshIds => refresh[rev[w].tok] # NoRow
      BY <1>3, <1>8 DEF RevLookupAccess, RevRequest
    <2>2. Tables /\ HeldKnown'
      BY <1>0, <1>8 DEF RevLookupAccess
    <2>3. reported' \subseteq RefreshIds \X AccessIds
      BY <1>8, <2>1, SMT DEF RevLookupAccess, RevReport, RevTypeOK
    <2>4. CASE rev[w].acc # None /\ rev' = [rev EXCEPT ![w].pc = "revokeAccess"]
      <3> DEFINE q == [rev[w] EXCEPT !.pc = "revokeAccess"]
      <3>1. q \in RevRequest /\ q.pc = "revokeAccess" /\ q.tok = rev[w].tok
            /\ q.acc = rev[w].acc
        BY <2>1 DEF RevRequest
      <3>2. rev' = [rev EXCEPT ![w] = q]
        BY <2>4 DEF RevTypeOK
      <3> HIDE DEF q
      <3> QED BY <1>1, <2>1, <2>2, <2>3, <2>4, <3>1, <3>2
    <2>5. CASE rev' = [rev EXCEPT ![w] = RevIdle]
      BY <1>2, <2>2, <2>3, <2>5
    <2> QED BY <1>8, <2>4, <2>5 DEF RevLookupAccess
  <1>9. ASSUME NEW w \in Revokers, RevRevokeAccess(w)
        PROVE  Goal
    <2>1. /\ rev[w] \in RevRequest /\ rev[w].acc \in AccessIds
          /\ rev[w].tok \in RefreshIds => refresh[rev[w].tok] # NoRow
      BY <1>3, <1>9 DEF RevRevokeAccess, RevTypeOK
    <2>2. AccessType' /\ AccessStep
      BY <1>9, <2>1, RevokeAccessTokenStep, StutterStep DEF RevRevokeAccess
    <2>3. Tables /\ HeldKnown'
      BY <1>9, <2>2, StutterStep, NoRoots, HeldKept, SMT DEF RevRevokeAccess, StoreStep
    <2>4. reported' \subseteq RefreshIds \X AccessIds
      BY <1>9, <2>1, SMT DEF RevRevokeAccess, RevReport, RevTypeOK
    <2>5. CASE rev' = [rev EXCEPT ![w].pc = "logAccess"]
      <3> DEFINE q == [rev[w] EXCEPT !.pc = "logAccess"]
      <3>1. q \in RevRequest /\ q.pc = "logAccess" /\ q.tok = rev[w].tok
            /\ q.acc = rev[w].acc
        BY <2>1 DEF RevRequest
      <3>2. rev' = [rev EXCEPT ![w] = q]
        BY <2>5 DEF RevTypeOK
      <3> HIDE DEF q
      <3> QED BY <1>1, <2>1, <2>3, <2>4, <3>1, <3>2
    <2>6. CASE rev' = [rev EXCEPT ![w] = RevIdle]
      BY <1>2, <2>3, <2>4, <2>6
    <2> QED BY <1>9, <2>5, <2>6 DEF RevRevokeAccess
  <1>10. ASSUME NEW w \in Revokers, RevLogAccess(w)
         PROVE  Goal
    <2>1. rev[w] \in RevRequest /\ rev[w].acc \in AccessIds
      BY <1>3, <1>10 DEF RevLogAccess, RevTypeOK
    <2>2. audit' \subseteq AuditRow
      BY <1>10, <2>1, SMT DEF RevLogAccess, LogEvent, AuditRow
    <2>3. Tables /\ HeldKnown'
      BY <1>10, <2>2, StutterStep, NoRoots, HeldKept, SMT DEF RevLogAccess, StoreStep
    <2>4. reported' \subseteq RefreshIds \X AccessIds
      BY <1>10, <2>1, SMT DEF RevLogAccess, RevReport, RevTypeOK
    <2> QED BY <1>2, <1>10, <2>3, <2>4 DEF RevLogAccess
  <1>11. ASSUME NEW w \in Revokers, RevFail(w)
         PROVE  Goal
    BY <1>0, <1>2, <1>11 DEF RevFail, RevTypeOK
  <1> QED
    BY <1>4, <1>5, <1>6, <1>7, <1>8, <1>9, <1>10, <1>11, SMT DEF RevNext

\* Every operation of an administrator or of maintenance.
LEMMA AdminStep ==
    ASSUME StoreTypeOK, HeldKnown, AdminNext
    PROVE  StoreTypeOK' /\ HeldKnown' /\ StoreStep /\ RootsOnly
  <1> USE DEF StoreTypeOK, CodesType, AccessType, RefreshType, JwtType
  <1> DEFINE Goal == StoreTypeOK' /\ HeldKnown' /\ StoreStep /\ RootsOnly
  <1>1. ASSUME NEW k \in Codes, AdminRevokeAuthorizationCode(k)
        PROVE  Goal
    BY <1>1, RevokeAuthorizationCodeStep, StutterStep, NoRoots, HeldKept, SMT
    DEF AdminRevokeAuthorizationCode, StoreStep
  <1>2. ASSUME NEW a \in AccessIds, AdminRevokeAccessToken(a)
        PROVE  Goal
    BY <1>2, RevokeAccessTokenStep, StutterStep, NoRoots, HeldKept, SMT
    DEF AdminRevokeAccessToken, StoreStep
  <1>3. ASSUME NEW u \in Users, AdminRevokeUserSessions(u)
        PROVE  Goal
    <2>1. RefreshType' /\ RefreshStep
      BY <1>3, RevokeRefreshTokensByUserStep DEF AdminRevokeUserSessions, RevokeReasons
    <2>2. RootsOnly
      BY <1>3
      DEF AdminRevokeUserSessions, RevokeRefreshTokensByUser, RootsOnly, Live, IsRefresh
    <2>3. audit' \subseteq AuditRow
      BY <1>3, SMT DEF AdminRevokeUserSessions, LogEvent, AuditRow
    <2> QED BY <1>3, <2>1, <2>2, <2>3, StutterStep, HeldKept, SMT
        DEF AdminRevokeUserSessions, StoreStep
  <1>4. ASSUME NEW c \in Clients, DeleteClient(c) \/ UpdateClient(c)
        PROVE  Goal
    <2>1. clients' \in [Clients -> ClientRow]
      BY <1>4, ZenonT(30) DEF DeleteClient, UpdateClient, ClientRow
    <2> QED BY <1>4, <2>1, StutterStep, NoRoots, HeldKept, SMT
        DEF DeleteClient, UpdateClient, StoreStep
  <1>5. ASSUME CleanupExpiredCodes
        PROVE  Goal
    BY <1>5, DeleteExpiredAuthorizationCodesStep, StutterStep, NoRoots, HeldKept, SMT
    DEF CleanupExpiredCodes, StoreStep
  <1>6. ASSUME CleanupExpiredTokens
        PROVE  Goal
    <2>1. AccessType' /\ AccessStep /\ RefreshType' /\ RefreshStep
      BY <1>6, DeleteExpiredAccessTokensStep DEF CleanupExpiredTokens
    <2>2. RootsOnly
      BY <1>6 DEF CleanupExpiredTokens, DeleteExpiredAccessTokens, RootsOnly, IsRefresh
    <2> QED BY <1>6, <2>1, <2>2, StutterStep, HeldKept, SMT DEF CleanupExpiredTokens, StoreStep
  <1> QED BY <1>1, <1>2, <1>3, <1>4, <1>5, <1>6 DEF AdminNext

---------------------------------------------------------------------------
(* The direct login                                                        *)

\* The steps of everyone else keep what the requests know.
LEMMA LoginKept ==
    ASSUME LoginTypeOK, LoginKnown, StoreStep, UNCHANGED loginVars
    PROVE  LoginTypeOK' /\ LoginKnown'
  <1>1. LoginTypeOK'
    BY DEF LoginTypeOK, loginVars
  <1>2. LoginKnown'
    BY SMT DEF LoginTypeOK, LoginKnown, LoginIdle, LoginSigning, LoginSigned, LoginHolding,
               StoreStep, JwtStep, loginVars
  <1> QED BY <1>1, <1>2

\* Where a request is says which fields it has.
LEMMA LoginShape ==
    ASSUME LoginTypeOK, NEW w \in Logins
    PROVE  /\ login[w].pc \in LoginHolding =>
                 login[w] \in LoginSigned /\ login[w].acc \in AccessIds /\ login[w].user \in Users
           /\ login[w].pc \in {"sign", "endRefresh", "logChange", "renew"} =>
                 login[w] \in LoginSigning /\ login[w].user \in Users
  BY SMT DEF LoginTypeOK, LoginIdle, LoginSigning, LoginSigned, LoginHolding

\* Every action of a login.
LEMMA LoginStep ==
    ASSUME StoreTypeOK, LoginTypeOK, LoginKnown, HeldKnown, LoginNext
    PROVE  /\ StoreTypeOK' /\ LoginTypeOK' /\ LoginKnown' /\ HeldKnown'
           /\ StoreStep /\ RootsOnly
  <1> USE DEF StoreTypeOK, CodesType, AccessType, RefreshType, JwtType
  <1> DEFINE Goal == /\ StoreTypeOK' /\ LoginTypeOK' /\ LoginKnown' /\ HeldKnown'
                     /\ StoreStep /\ RootsOnly
             Tables == StoreTypeOK' /\ StoreStep /\ RootsOnly
             Pairs == AccessIds \X AccessIds
  <1>0. UNCHANGED storeVars => Tables /\ HeldKnown'
    BY StutterStep, NoRoots, SMT DEF storeVars, StoreStep, HeldKnown
  <1>1. ASSUME NEW w \in Logins, login[w].pc \in LoginHolding
        PROVE  login[w] \in LoginSigned /\ jwt[login[w].acc] # NoRow
    BY <1>1, LoginShape DEF LoginKnown
  <1>2. ASSUME NEW w \in Logins, NEW q \in LoginSigned, login' = [login EXCEPT ![w] = q],
               jwt'[q.acc] # NoRow, StoreStep, beside' \subseteq Pairs
        PROVE  LoginTypeOK' /\ LoginKnown'
    <2>1. LoginTypeOK'
      BY <1>2 DEF LoginTypeOK
    <2>2. ASSUME NEW v \in Logins, v # w, login[v].pc \in LoginHolding
          PROVE  jwt'[login[v].acc] # NoRow
      BY <1>1, <1>2, <2>2 DEF LoginSigned, StoreStep, JwtStep
    <2> QED BY <1>2, <2>1, <2>2 DEF LoginKnown, LoginTypeOK
  <1>3. ASSUME NEW w \in Logins, NEW q \in {LoginIdle} \cup LoginSigning,
               login' = [login EXCEPT ![w] = q], StoreStep, UNCHANGED beside
        PROVE  LoginTypeOK' /\ LoginKnown'
    <2>1. LoginTypeOK'
      BY <1>3 DEF LoginTypeOK
    <2>2. ASSUME NEW v \in Logins, v # w, login[v].pc \in LoginHolding
          PROVE  jwt'[login[v].acc] # NoRow
      BY <1>1, <1>3, <2>2 DEF LoginSigned, StoreStep, JwtStep
    <2>3. q.pc \notin LoginHolding
      BY <1>3, SMT DEF LoginIdle, LoginSigning, LoginHolding
    <2> QED BY <1>3, <2>1, <2>2, <2>3 DEF LoginKnown, LoginTypeOK
  <1>4. ASSUME NEW w \in Logins, NEW u \in Users, LoginVerified(w, u) \/ PasswordChanged(w, u)
        PROVE  Goal
    <2>1. /\ [pc |-> "sign", user |-> u] \in LoginSigning
          /\ [pc |-> "endRefresh", user |-> u] \in LoginSigning
      BY DEF LoginSigning
    <2> QED BY <1>0, <1>3, <1>4, <2>1 DEF LoginVerified, PasswordChanged
  <1>5. ASSUME NEW w \in Logins, NEW label \in {"logChange", "renew"},
               login[w].pc \in {"endRefresh", "logChange"},
               login' = [login EXCEPT ![w].pc = label], StoreStep, UNCHANGED beside
        PROVE  LoginTypeOK' /\ LoginKnown'
    <2> DEFINE q == [login[w] EXCEPT !.pc = label]
    <2>1. q \in LoginSigning
      BY <1>5, LoginShape DEF LoginSigning
    <2>2. login' = [login EXCEPT ![w] = q]
      BY <1>5 DEF LoginTypeOK
    <2> HIDE DEF q
    <2> QED BY <1>3, <1>5, <2>1, <2>2
  <1>6. ASSUME NEW w \in Logins, ChangeRevokeRefreshTokens(w)
        PROVE  Goal
    <2>1. RefreshType' /\ RefreshStep
      BY <1>6, RevokeRefreshTokensByUserStep, StutterStep
      DEF ChangeRevokeRefreshTokens, RevokeReasons
    <2>2. RootsOnly
      BY <1>6, NoRoots
      DEF ChangeRevokeRefreshTokens, RevokeRefreshTokensByUser, RootsOnly, Live, IsRefresh
    <2>3. Tables /\ HeldKnown'
      BY <1>6, <2>1, <2>2, StutterStep, HeldKept, SMT DEF ChangeRevokeRefreshTokens, StoreStep
    <2> QED BY <1>5, <1>6, <2>3 DEF ChangeRevokeRefreshTokens
  <1>7. ASSUME NEW w \in Logins, ChangeLog(w)
        PROVE  Goal
    <2>1. login[w].user \in Users
      BY <1>7, LoginShape DEF ChangeLog
    <2>2. audit' \subseteq AuditRow
      BY <1>7, <2>1, SMT DEF ChangeLog, AuditRow
    <2>3. Tables /\ HeldKnown'
      BY <1>7, <2>2, StutterStep, NoRoots, HeldKept, SMT DEF ChangeLog, StoreStep
    <2> QED BY <1>5, <1>7, <2>3 DEF ChangeLog
  <1>8. ASSUME NEW w \in Logins, NEW a \in AccessIds, LoginGenerate(w, a)
        PROVE  Goal
    <2>1. login[w] \in LoginSigning /\ login[w].user \in Users
      BY <1>8, LoginShape DEF LoginGenerate
    <2> DEFINE q == [pc |-> IF login[w].pc = "sign" THEN "revokeAll" ELSE "open",
                     user |-> login[w].user, acc |-> a]
    <2>2. q \in LoginSigned /\ q.acc = a
      BY <2>1 DEF LoginSigned, LoginHolding
    <2>3. login' = [login EXCEPT ![w] = q]
      BY <1>8 DEF LoginGenerate
    <2> HIDE DEF q
    <2>4. JwtType' /\ JwtStep /\ jwt'[a] # NoRow
      BY <1>8, <2>1, GenerateAccessTokenStep DEF LoginGenerate
    <2>5. Tables /\ HeldKnown'
      BY <1>8, <2>4, StutterStep, NoRoots, HeldKept, SMT DEF LoginGenerate, StoreStep
    <2>6. beside' \subseteq Pairs
      BY <1>8 DEF LoginGenerate, LoginTypeOK
    <2> QED BY <1>2, <2>2, <2>3, <2>4, <2>5, <2>6
  <1>9. ASSUME NEW w \in Logins, NEW label \in {"store", "respond"},
               login[w] \in LoginSigned, jwt[login[w].acc] # NoRow,
               login' = [login EXCEPT ![w].pc = label], UNCHANGED jwt, StoreStep,
               beside' \subseteq Pairs
        PROVE  LoginTypeOK' /\ LoginKnown'
    <2> DEFINE q == [login[w] EXCEPT !.pc = label]
    <2>1. q \in LoginSigned /\ q.acc = login[w].acc
      BY <1>9 DEF LoginSigned, LoginHolding
    <2>2. login' = [login EXCEPT ![w] = q]
      BY <1>9 DEF LoginTypeOK
    <2> HIDE DEF q
    <2> QED BY <1>2, <1>9, <2>1, <2>2
  <1>10. ASSUME NEW w \in Logins, LoginRevokeAll(w)
         PROVE  Goal
    <2>1. Tables /\ HeldKnown'
      BY <1>10, RevokeAccessTokensByUserStep, StutterStep, NoRoots, HeldKept, SMT
      DEF LoginRevokeAll, StoreStep
    <2> QED BY <1>1, <1>9, <1>10, <2>1 DEF LoginRevokeAll, LoginHolding, LoginTypeOK
  <1>11. ASSUME NEW w \in Logins, StoreDirectLoginToken(w)
         PROVE  Goal
    <2>1. login[w] \in LoginSigned /\ jwt[login[w].acc] # NoRow
      BY <1>1, <1>11 DEF StoreDirectLoginToken, LoginHolding
    <2>2. PICK e \in RowExpiry(login[w].acc) :
             CreateAccessToken(login[w].acc,
                 [client |-> None, user |-> login[w].user,
                  expires |-> e, revoked |-> FALSE])
      BY <1>11 DEF StoreDirectLoginToken
    <2>3. e \in Nat
      BY <2>1, StoreAssumption, RowAssumption, SMT DEF RowExpiry, Claims, LoginSigned
    <2>4. AccessType' /\ AccessStep
      BY <2>1, <2>2, <2>3, CreateAccessTokenStep DEF AccessRow, LoginSigned
    <2>5. Tables /\ HeldKnown'
      BY <1>11, <2>4, StutterStep, NoRoots, HeldKept, SMT DEF StoreDirectLoginToken, StoreStep
    <2>6. beside' \subseteq Pairs
      BY <1>11, <2>1 DEF StoreDirectLoginToken, LoginTypeOK, LoginSigned, Spared
    <2> QED BY <1>9, <1>11, <2>1, <2>5, <2>6 DEF StoreDirectLoginToken
  <1>12. ASSUME NEW w \in Logins, LoginRespond(w)
         PROVE  Goal
    <2>1. login[w].acc \in AccessIds /\ jwt[login[w].acc] # NoRow
      BY <1>1, <1>12 DEF LoginRespond, LoginSigned, LoginHolding
    <2>2. Tables /\ HeldKnown'
      BY <1>12, <2>1, StutterStep, NoRoots, StoreAssumption, SMT DEF LoginRespond, HeldKnown, StoreStep
    <2> QED BY <1>3, <1>12, <2>2 DEF LoginRespond
  <1>13. ASSUME NEW w \in Logins, LoginFail(w)
         PROVE  Goal
    BY <1>0, <1>3, <1>13 DEF LoginFail
  <1> QED BY <1>4, <1>6, <1>7, <1>8, <1>10, <1>11, <1>12, <1>13 DEF LoginNext

---------------------------------------------------------------------------
(* The bearer gate                                                         *)

\* Every action of an authenticated request.
LEMMA GateStep ==
    ASSUME StoreTypeOK, GateTypeOK, HeldKnown, GateNext
    PROVE  StoreTypeOK' /\ GateTypeOK' /\ HeldKnown' /\ StoreStep /\ RootsOnly
  <1> USE DEF StoreTypeOK, CodesType, AccessType, RefreshType, JwtType
  <1> DEFINE Goal == StoreTypeOK' /\ GateTypeOK' /\ HeldKnown' /\ StoreStep /\ RootsOnly
             Tables == StoreTypeOK' /\ HeldKnown' /\ StoreStep /\ RootsOnly
  <1>0. UNCHANGED storeVars => Tables
    BY StutterStep, NoRoots, SMT DEF storeVars, StoreStep, HeldKnown
  <1>1. ASSUME NEW w \in Bearers, gate[w].pc # "idle"
        PROVE  gate[w] \in GateRequest /\ gate[w].tok \in AccessIds
    BY <1>1, SMT DEF GateTypeOK, GateIdle, GateRequest
  <1>2. ASSUME NEW w \in Bearers, NEW a \in AccessIds, GateValidate(w, a)
        PROVE  Goal
    <2>1. [pc |-> "revoked", tok |-> a, dead |-> Spent(a)] \in GateRequest
      BY DEF GateRequest, Spent
    <2> QED BY <1>0, <1>2, <2>1 DEF GateValidate, GateTypeOK
  <1>3. ASSUME NEW w \in Bearers, GateCheckRevoked(w)
        PROVE  Goal
    <2>1. [gate[w] EXCEPT !.pc = "admitted"] \in GateRequest
      BY <1>1, <1>3 DEF GateCheckRevoked, GateRequest
    <2> QED BY <1>0, <1>3, <2>1 DEF GateCheckRevoked, GateTypeOK
  <1>4. ASSUME NEW w \in Bearers, GateServe(w) \/ GateFail(w)
        PROVE  Goal
    BY <1>0, <1>4 DEF GateServe, GateFail, GateTypeOK
  <1>5. ASSUME NEW w \in Bearers, LogoutRevokeToken(w)
        PROVE  Goal
    <2>1. gate[w] \in GateRequest /\ gate[w].tok \in AccessIds
      BY <1>1, <1>5 DEF LogoutRevokeToken
    <2>2. AccessType' /\ AccessStep
      BY <1>5, <2>1, RevokeAccessTokenStep, StutterStep DEF LogoutRevokeToken
    <2>3. Tables
      BY <1>5, <2>2, StutterStep, NoRoots, HeldKept, SMT DEF LogoutRevokeToken, StoreStep
    <2>4. [gate[w] EXCEPT !.pc = "logoutRefresh"] \in GateRequest
      BY <2>1 DEF GateRequest
    <2> QED BY <1>5, <2>3, <2>4 DEF LogoutRevokeToken, GateTypeOK
  <1>6. ASSUME NEW w \in Bearers, LogoutRevokeRefreshTokens(w)
        PROVE  Goal
    <2>1. RefreshType' /\ RefreshStep
      BY <1>6, RevokeRefreshTokensByUserStep, StutterStep
      DEF LogoutRevokeRefreshTokens, RevokeReasons
    <2>2. RootsOnly
      BY <1>6, NoRoots
      DEF LogoutRevokeRefreshTokens, RevokeRefreshTokensByUser, RootsOnly, Live, IsRefresh
    <2>3. Tables
      BY <1>6, <2>1, <2>2, StutterStep, HeldKept, SMT DEF LogoutRevokeRefreshTokens, StoreStep
    <2> QED BY <1>6, <2>3 DEF LogoutRevokeRefreshTokens, GateTypeOK
  <1> QED BY <1>2, <1>3, <1>4, <1>5, <1>6 DEF GateNext

---------------------------------------------------------------------------
(* The access_tokens rows and the tokens in callers' hands                 *)

\* A row names the user of its token and does not expire before it; so a row that
\* the clean-up has deleted belongs to a token that has expired.
RowsMatch ==
    \A a \in AccessIds :
        /\ IsAccess(a) => /\ jwt[a] # NoRow
                          /\ access[a].user = jwt[a].user
                          /\ jwt[a].exp <= access[a].expires
        /\ access[a] = Purged => jwt[a] # NoRow /\ jwt[a].exp < now

HeldStored == \A a \in held \cap AccessIds : access[a] # NoRow

\* A step that inserts no row.
LEMMA RowsKept ==
    ASSUME StoreTypeOK, StoreTypeOK', StoreStep, RowsMatch,
           \A a \in AccessIds : access[a] = NoRow => access'[a] = NoRow
    PROVE  RowsMatch'
  <1> SUFFICES ASSUME NEW a \in AccessIds
               PROVE  /\ IsAccess(a)' => /\ jwt'[a] # NoRow
                                         /\ access'[a].user = jwt'[a].user
                                         /\ jwt'[a].exp <= access'[a].expires
                      /\ access'[a] = Purged => jwt'[a] # NoRow /\ jwt'[a].exp < now'
    BY DEF RowsMatch
  <1>1. CASE IsAccess(a)
    <2>1. jwt[a] \in Claims /\ access[a] \in AccessRow /\ jwt'[a] = jwt[a]
      BY <1>1 DEF RowsMatch, StoreTypeOK, IsAccess, StoreStep, JwtStep
    <2> QED BY <1>1, <2>1, SMT DEF RowsMatch, StoreTypeOK, StoreStep, AccessStep, IsAccess,
                              Claims, AccessRow
  <1>2. CASE access[a] = Purged
    <2>1. jwt[a] \in Claims /\ jwt'[a] = jwt[a] /\ access'[a] = Purged
      BY <1>2, ZenonT(30) DEF RowsMatch, StoreTypeOK, StoreStep, JwtStep, AccessStep
    <2> QED BY <1>2, <2>1, SMT DEF RowsMatch, StoreTypeOK, StoreStep, IsAccess, Claims
  <1>3. CASE access[a] = NoRow
    BY <1>3, StoreAssumption DEF IsAccess
  <1> QED BY <1>1, <1>2, <1>3 DEF IsAccess

\* An INSERT of the row of a token that was signed for the same user.
LEMMA RowInserted ==
    ASSUME StoreTypeOK, RowsMatch, NEW b \in AccessIds, NEW row \in AccessRow,
           jwt[b] # NoRow, row.user = jwt[b].user, row.expires \in RowExpiry(b),
           CreateAccessToken(b, row), UNCHANGED <<now, jwt>>
    PROVE  RowsMatch'
  <1>1. jwt[b].exp <= row.expires
    BY SMT DEF RowExpiry, StoreTypeOK, Claims
  <1>2. row # Purged
    BY RowAssumption
  <1> QED BY <1>1, <1>2 DEF CreateAccessToken, RowsMatch, StoreTypeOK, IsAccess

\* What a request remembers stays true while the tables change.
LEMMA RecordKept ==
    ASSUME StoreTypeOK, StoreStep, NEW a \in AccessIds
    PROVE  /\ jwt[a] # NoRow => jwt'[a] # NoRow /\ jwt'[a].user = jwt[a].user
           /\ access[a] # NoRow => access'[a] # NoRow
  BY DEF StoreStep, JwtStep, AccessStep

\* Callers' tokens keep their rows.
LEMMA HeldStoredKept ==
    ASSUME StoreTypeOK, StoreStep, HeldStored, UNCHANGED held
    PROVE  HeldStored'
  BY RecordKept DEF HeldStored

LoginRecorded ==
    \A w \in Logins :
        /\ login[w].pc \in LoginHolding \ {"respond"} => jwt[login[w].acc].user = login[w].user
        /\ login[w].pc = "respond" => access[login[w].acc] # NoRow

\* The same for direct logins.
LEMMA LoginRecordedKept ==
    ASSUME StoreTypeOK, LoginTypeOK, LoginKnown, StoreStep, LoginRecorded, UNCHANGED login
    PROVE  LoginRecorded'
  BY LoginShape, RecordKept DEF LoginKnown, LoginRecorded, LoginHolding

\* The direct login.
LEMMA LoginRecords ==
    ASSUME StoreTypeOK, LoginTypeOK, LoginKnown,
           StoreTypeOK', LoginTypeOK', LoginKnown', StoreStep, RowsMatch, LoginRecorded,
           HeldStored, LoginNext
    PROVE  RowsMatch' /\ LoginRecorded' /\ HeldStored'
  <1> DEFINE Goal == RowsMatch' /\ LoginRecorded' /\ HeldStored'
  <1>1. (\A a \in AccessIds : access[a] = NoRow => access'[a] = NoRow) => RowsMatch'
    BY RowsKept
  <1>2. UNCHANGED held => HeldStored'
    BY HeldStoredKept
  <1>3. ASSUME NEW w \in Logins, \A v \in Logins \ {w} : login'[v] = login[v],
               login'[w].pc \in LoginHolding \ {"respond"} =>
                  jwt'[login'[w].acc].user = login'[w].user,
               login'[w].pc = "respond" => access'[login'[w].acc] # NoRow
        PROVE  LoginRecorded'
    <2>1. ASSUME NEW v \in Logins, v # w, login'[v] = login[v]
          PROVE  /\ login[v].pc \in LoginHolding \ {"respond"} =>
                       jwt'[login[v].acc].user = login[v].user
                 /\ login[v].pc = "respond" => access'[login[v].acc] # NoRow
      BY <2>1, LoginShape, RecordKept DEF LoginKnown, LoginRecorded, LoginHolding
    <2> QED BY <1>3, <2>1 DEF LoginRecorded
  <1>4. ASSUME NEW w \in Logins,
               \/ \E u \in Users : LoginVerified(w, u) \/ PasswordChanged(w, u)
               \/ ChangeRevokeRefreshTokens(w)
               \/ ChangeLog(w)
               \/ LoginFail(w)
        PROVE  Goal
    <2>1. /\ UNCHANGED <<access, held>>
          /\ \A v \in Logins \ {w} : login'[v] = login[v]
      BY <1>4 DEF LoginVerified, PasswordChanged, ChangeRevokeRefreshTokens, ChangeLog, LoginFail,
                  storeVars, LoginTypeOK
    <2>2. login'[w].pc \notin LoginHolding
      BY <1>4, LoginShape, SMT
      DEF LoginVerified, PasswordChanged, ChangeRevokeRefreshTokens, ChangeLog, LoginFail,
          LoginIdle, LoginSigning, LoginHolding, LoginTypeOK
    <2> QED BY <1>1, <1>2, <1>3, <2>1, <2>2 DEF LoginHolding
  <1>6. ASSUME NEW w \in Logins, NEW a \in AccessIds, LoginGenerate(w, a)
        PROVE  Goal
    <2>1. /\ \A v \in Logins \ {w} : login'[v] = login[v]
          /\ login'[w].pc # "respond" /\ login'[w].acc = a /\ login'[w].user = login[w].user
      BY <1>6 DEF LoginGenerate, LoginTypeOK
    <2>2. jwt'[a].user = login[w].user
      BY <1>6 DEF LoginGenerate, GenerateAccessToken, StoreTypeOK
    <2>3. LoginRecorded'
      BY <1>3, <2>1, <2>2
    <2> QED BY <1>1, <1>2, <1>6, <2>3 DEF LoginGenerate
  <1>7. ASSUME NEW w \in Logins, LoginRevokeAll(w)
        PROVE  Goal
    <2>1. /\ \A v \in Logins \ {w} : login'[v] = login[v]
          /\ login'[w].pc = "store" /\ login'[w].acc = login[w].acc
          /\ login'[w].user = login[w].user
      BY <1>7, LoginShape DEF LoginRevokeAll, LoginTypeOK, LoginSigned, LoginHolding
    <2>2. jwt'[login[w].acc].user = login[w].user
      BY <1>7 DEF LoginRevokeAll, LoginRecorded, LoginHolding
    <2>3. LoginRecorded'
      BY <1>3, <2>1, <2>2
    <2>4. \A a \in AccessIds : access[a] = NoRow => access'[a] = NoRow
      BY <1>7 DEF LoginRevokeAll, RevokeAccessTokensByUser, IsAccess
    <2> QED BY <1>1, <1>2, <1>7, <2>3, <2>4 DEF LoginRevokeAll
  <1>8. ASSUME NEW w \in Logins, StoreDirectLoginToken(w)
        PROVE  Goal
    <2>1. login[w] \in LoginSigned /\ login[w].acc \in AccessIds /\ jwt[login[w].acc] \in Claims
      BY <1>8, LoginShape DEF StoreDirectLoginToken, LoginHolding, LoginKnown, StoreTypeOK
    <2>2. PICK e \in RowExpiry(login[w].acc) :
             CreateAccessToken(login[w].acc, [client |-> None, user |-> login[w].user,
                                              expires |-> e, revoked |-> FALSE])
      BY <1>8 DEF StoreDirectLoginToken
    <2> DEFINE row == [client |-> None, user |-> login[w].user, expires |-> e, revoked |-> FALSE]
    <2>3. row \in AccessRow
      <3>1. e \in Nat
        BY <2>1, StoreAssumption, SMT DEF RowExpiry, Claims, StoreTypeOK
      <3> QED BY <2>1, <3>1 DEF LoginSigned, AccessRow
    <2>4. /\ row.user = jwt[login[w].acc].user /\ row.expires \in RowExpiry(login[w].acc)
          /\ CreateAccessToken(login[w].acc, row) /\ UNCHANGED <<now, jwt, held>>
          /\ jwt[login[w].acc] # NoRow
      BY <1>8, <2>2 DEF StoreDirectLoginToken, LoginRecorded, LoginKnown, LoginHolding
    <2> HIDE DEF row
    <2>5. RowsMatch'
      BY <2>1, <2>3, <2>4, RowInserted
    <2>6. access'[login[w].acc] # NoRow
      BY <2>1, <2>3, <2>4, RowAssumption DEF CreateAccessToken, StoreTypeOK
    <2>7. /\ \A v \in Logins \ {w} : login'[v] = login[v]
          /\ login'[w].pc = "respond" /\ login'[w].acc = login[w].acc
      BY <1>8, <2>1 DEF StoreDirectLoginToken, LoginTypeOK, LoginSigned
    <2>8. LoginRecorded'
      BY <1>3, <2>6, <2>7
    <2> QED BY <1>2, <2>4, <2>5, <2>8
  <1>9. ASSUME NEW w \in Logins, LoginRespond(w)
        PROVE  Goal
    <2>1. access[login[w].acc] # NoRow
      BY <1>9 DEF LoginRespond, LoginRecorded
    <2>2. HeldStored'
      BY <1>9, <2>1 DEF LoginRespond, HeldStored
    <2>3. login'[w].pc \notin LoginHolding /\ \A v \in Logins \ {w} : login'[v] = login[v]
      BY <1>9 DEF LoginRespond, LoginTypeOK, LoginIdle, LoginHolding
    <2> QED BY <1>1, <1>3, <1>9, <2>2, <2>3 DEF LoginRespond, LoginHolding
  <1> QED BY <1>4, <1>6, <1>7, <1>8, <1>9 DEF LoginNext

---------------------------------------------------------------------------
(* AuthMiddleware                                                          *)

\* The inductive form of NoLateAdmission.
GateSafeAt(w) ==
    /\ gate[w].pc = "revoked" /\ gate[w].dead => Spent(gate[w].tok)
    /\ gate[w].pc = "admitted" /\ gate[w].dead =>
          jwt[gate[w].tok] # NoRow /\ jwt[gate[w].tok].exp < now

GateSafe == \A w \in Bearers : GateSafeAt(w)

\* A spent token stays spent, and an expired one stays expired.
LEMMA SpentStays ==
    ASSUME StoreTypeOK, StoreTypeOK', StoreStep, NEW a \in AccessIds
    PROVE  /\ Spent(a) => Spent(a)'
           /\ jwt[a] # NoRow /\ jwt[a].exp < now => jwt'[a] # NoRow /\ jwt'[a].exp < now'
  <1>1. Spent(a) => Spent(a)'
    BY DEF Spent, IsAccess, StoreStep, AccessStep
  <1>2. ASSUME jwt[a] # NoRow, jwt[a].exp < now
        PROVE  jwt'[a] # NoRow /\ jwt'[a].exp < now'
    BY <1>2, SMT DEF StoreTypeOK, StoreStep, JwtStep, Claims
  <1> QED BY <1>1, <1>2

\* Requests that do not move.
LEMMA GateSafeKept ==
    ASSUME StoreTypeOK, GateTypeOK,
           StoreTypeOK', GateTypeOK', StoreStep, GateSafe, NEW w \in Bearers, gate'[w] = gate[w]
    PROVE  GateSafeAt(w)'
  <1>1. gate[w].pc \in {"revoked", "admitted"} => gate[w].tok \in AccessIds
    BY SMT DEF GateTypeOK, GateIdle, GateRequest
  <1>2. gate[w].pc = "revoked" /\ gate[w].dead => Spent(gate[w].tok)'
    BY <1>1, SpentStays DEF GateSafe, GateSafeAt
  <1>3. gate[w].pc = "admitted" /\ gate[w].dead =>
           jwt'[gate[w].tok] # NoRow /\ jwt'[gate[w].tok].exp < now'
    BY <1>1, SpentStays DEF GateSafe, GateSafeAt
  <1> QED BY <1>2, <1>3 DEF GateSafeAt, Spent, IsAccess

\* AuthMiddleware admits a token that was spent when the request came in only if the
\* clean-up has deleted its row, and that happens after the token has expired.
LEMMA GateSafeStep ==
    ASSUME StoreTypeOK, GateTypeOK,
           StoreTypeOK', GateTypeOK', StoreStep, RowsMatch, GateSafe, GateNext \/ UNCHANGED gate
    PROVE  GateSafe'
  <1>1. CASE UNCHANGED gate
    BY <1>1, GateSafeKept DEF GateSafe
  <1>2. ASSUME NEW w \in Bearers, \A v \in Bearers \ {w} : gate'[v] = gate[v], GateSafeAt(w)'
        PROVE  GateSafe'
    BY <1>2, GateSafeKept DEF GateSafe
  <1>3. ASSUME NEW w \in Bearers, NEW a \in AccessIds, GateValidate(w, a)
        PROVE  GateSafe'
    <2>1. /\ \A v \in Bearers \ {w} : gate'[v] = gate[v]
          /\ gate'[w] = [pc |-> "revoked", tok |-> a, dead |-> Spent(a)]
      BY <1>3 DEF GateValidate, GateTypeOK
    <2>2. Spent(a) => Spent(a)'
      BY SpentStays
    <2>3. GateSafeAt(w)'
      <3>1. gate'[w].pc = "revoked" /\ gate'[w].tok = a
        BY <2>1, SMT
      <3>2. gate'[w].dead => Spent(a)
        <4>1. gate'[w].dead = Spent(a)
          BY <2>1, SMT
        <4> QED BY <4>1
      <3> QED BY <2>2, <3>1, <3>2 DEF GateSafeAt, Spent, IsAccess
    <2> QED BY <1>2, <2>1, <2>3
  <1>4. ASSUME NEW w \in Bearers, GateCheckRevoked(w)
        PROVE  GateSafe'
    <2>1. gate[w] \in GateRequest /\ gate[w].tok \in AccessIds
      BY <1>4, SMT DEF GateCheckRevoked, GateTypeOK, GateIdle, GateRequest
    <2>2. CASE IsTokenRevoked(gate[w].tok)
      BY <1>2, <1>4, <2>2 DEF GateCheckRevoked, GateTypeOK, GateIdle, GateSafeAt
    <2>3. CASE ~IsTokenRevoked(gate[w].tok)
      <3>1. /\ \A v \in Bearers \ {w} : gate'[v] = gate[v]
            /\ gate'[w].pc = "admitted" /\ gate'[w].tok = gate[w].tok
            /\ gate'[w].dead = gate[w].dead
        BY <1>4, <2>1, <2>3 DEF GateCheckRevoked, GateTypeOK, GateRequest
      <3>2. gate[w].dead => jwt[gate[w].tok] # NoRow /\ jwt[gate[w].tok].exp < now
        BY <1>4, <2>1, <2>3 DEF GateCheckRevoked, GateSafe, GateSafeAt, Spent,
                                   IsTokenRevoked, RowsMatch
      <3>3. UNCHANGED <<jwt, now>>
        BY <1>4 DEF GateCheckRevoked, storeVars
      <3> QED BY <1>2, <3>1, <3>2, <3>3 DEF GateSafeAt
    <2> QED BY <2>2, <2>3
  <1>5. ASSUME NEW w \in Bearers, LogoutRevokeToken(w)
        PROVE  GateSafe'
    <2>1. gate[w] \in GateRequest
      BY <1>5, SMT DEF LogoutRevokeToken, GateTypeOK, GateIdle
    <2> QED BY <1>2, <1>5, <2>1 DEF LogoutRevokeToken, GateTypeOK, GateRequest, GateSafeAt
  <1>6. ASSUME NEW w \in Bearers, GateServe(w) \/ LogoutRevokeRefreshTokens(w) \/ GateFail(w)
        PROVE  GateSafe'
    BY <1>2, <1>6, SMT DEF GateServe, LogoutRevokeRefreshTokens, GateFail, GateTypeOK, GateIdle,
                      GateSafeAt
  <1> QED BY <1>1, <1>3, <1>4, <1>5, <1>6 DEF GateNext

---------------------------------------------------------------------------
(* The audit log of RevokeAnyToken                                         *)

\* The inductive form of RevocationAuditTruthful.
EventTrue(e) ==
    /\ e.event = "refresh_token_revoked" =>
          e.subject \in RefreshIds /\ IsRefresh(e.subject) /\ refresh[e.subject].revoked
    /\ e.event = "access_token_revoked" => e.subject \in AccessIds /\ Spent(e.subject)
    /\ e.event = "refresh_token_family_revoked" =>
          \E r \in RefreshIds : /\ IsRefresh(r) /\ refresh[r].revoked
                                /\ refresh[r].family = e.subject

RevSafeAt(w) ==
    /\ rev[w].pc = "logRefresh" => refresh[rev[w].tok].revoked
    /\ rev[w].pc = "revokeAccess" => access[rev[w].acc] # NoRow
    /\ rev[w].pc = "logAccess" => Spent(rev[w].acc)

AuditSafe ==
    /\ \A w \in Revokers : RevSafeAt(w)
    /\ \A e \in audit : EventTrue(e)

\* What a step writes is true.
NewEventsTrue == \A e \in audit' \ audit : EventTrue(e)'

\* LogEvent adds its event or nothing.
LEMMA Logs ==
    ASSUME NEW event, NEW subject, LogEvent(event, subject)
    PROVE  \A e \in audit' \ audit : e.event = event /\ e.subject = subject
  BY SMT DEF LogEvent

\* What was logged stays true.
LEMMA EventStays ==
    ASSUME StoreTypeOK, StoreTypeOK', StoreStep, NEW e, EventTrue(e)
    PROVE  EventTrue(e)'
  <1>1. e.event = "refresh_token_revoked" =>
           e.subject \in RefreshIds /\ IsRefresh(e.subject)' /\ refresh'[e.subject].revoked
    BY DEF EventTrue, StoreStep, RefreshStep, IsRefresh
  <1>2. e.event = "access_token_revoked" => e.subject \in AccessIds /\ Spent(e.subject)'
    BY SpentStays DEF EventTrue
  <1>3. e.event = "refresh_token_family_revoked" =>
           \E r \in RefreshIds : /\ IsRefresh(r)' /\ refresh'[r].revoked
                                 /\ refresh'[r].family = e.subject
    BY DEF EventTrue, StoreStep, RefreshStep, IsRefresh
  <1> QED BY <1>1, <1>2, <1>3 DEF EventTrue

\* Requests that do not move.
LEMMA RevSafeKept ==
    ASSUME StoreTypeOK, RevTypeOK, RevKnown,
           StoreTypeOK', RevTypeOK', RevKnown', StoreStep, NEW w \in Revokers, RevSafeAt(w), rev'[w] = rev[w]
    PROVE  RevSafeAt(w)'
  <1>1. rev[w].pc = "logRefresh" => refresh'[rev[w].tok].revoked
    BY DEF RevSafeAt, RevTypeOK, RevKnown, StoreStep, RefreshStep, IsRefresh
  <1>2. rev[w].pc = "revokeAccess" => access'[rev[w].acc] # NoRow
    BY DEF RevSafeAt, RevTypeOK, StoreStep, AccessStep
  <1>3. rev[w].pc = "logAccess" => Spent(rev[w].acc)'
    BY SpentStays DEF RevSafeAt, RevTypeOK
  <1> QED BY <1>1, <1>2, <1>3 DEF RevSafeAt, Spent, IsAccess

\* The steps of everyone else.
LEMMA AuditSafeKept ==
    ASSUME StoreTypeOK, RevTypeOK, RevKnown,
           StoreTypeOK', RevTypeOK', RevKnown', StoreStep, AuditSafe, UNCHANGED rev, NewEventsTrue
    PROVE  AuditSafe'
  <1>1. \A w \in Revokers : RevSafeAt(w)'
    BY RevSafeKept DEF AuditSafe
  <1>2. ASSUME NEW e \in audit'
        PROVE  EventTrue(e)'
    <2>1. CASE e \in audit
      BY <2>1, EventStays DEF AuditSafe
    <2>2. CASE e \notin audit
      BY <2>2 DEF NewEventsTrue
    <2> QED BY <2>1, <2>2
  <1> QED BY <1>1, <1>2 DEF AuditSafe

\* RevokeAnyToken logs a revocation after its statement.
LEMMA RevLogs ==
    ASSUME StoreTypeOK, RevTypeOK, RevKnown,
           StoreTypeOK', RevTypeOK', RevKnown', StoreStep, AuditSafe, RevNext
    PROVE  AuditSafe'
  <1>1. ASSUME NEW w \in Revokers, \A v \in Revokers \ {w} : rev'[v] = rev[v],
               RevSafeAt(w)', \A e \in audit' \ audit : EventTrue(e)'
        PROVE  AuditSafe'
    <2>1. \A v \in Revokers : RevSafeAt(v)'
      BY <1>1, RevSafeKept DEF AuditSafe
    <2>2. \A e \in audit' : EventTrue(e)'
      BY <1>1, EventStays DEF AuditSafe
    <2> QED BY <2>1, <2>2 DEF AuditSafe
  <1>2. ASSUME NEW w \in Revokers, \A v \in Revokers \ {w} : rev'[v] = rev[v],
               rev'[w].pc \in {"idle", "refresh", "revokeRefresh", "access"}, UNCHANGED audit
        PROVE  AuditSafe'
    BY <1>1, <1>2 DEF RevSafeAt
  <1>3. ASSUME NEW w \in Revokers, rev[w].pc # "idle"
        PROVE  rev[w] \in RevRequest
    BY <1>3, SMT DEF RevTypeOK, RevIdle
  <1>4. ASSUME NEW w \in Revokers, NEW t \in held, NEW hinted \in BOOLEAN, RevBegin(w, t, hinted)
        PROVE  AuditSafe'
    BY <1>2, <1>4 DEF RevBegin, RevTypeOK, storeVars
  <1>5. ASSUME NEW w \in Revokers, RevLookupRefresh(w)
        PROVE  AuditSafe'
    <2>1. rev[w] \in RevRequest
      BY <1>3, <1>5 DEF RevLookupRefresh
    <2> QED BY <1>2, <1>5, <2>1, SMT DEF RevLookupRefresh, RevTypeOK, RevRequest, RevIdle, storeVars
  <1>6. ASSUME NEW w \in Revokers, RevRevokeRefresh(w)
        PROVE  AuditSafe'
    <2>1. rev[w] \in RevRequest /\ rev[w].tok \in RefreshIds
      BY <1>3, <1>6 DEF RevRevokeRefresh, RevTypeOK
    <2>2. /\ \A v \in Revokers \ {w} : rev'[v] = rev[v]
          /\ rev'[w].pc = "logRefresh" /\ rev'[w].tok = rev[w].tok /\ UNCHANGED audit
      BY <1>6, <2>1 DEF RevRevokeRefresh, RevTypeOK, RevRequest
    <2>3. refresh'[rev[w].tok].revoked
      <3>1. refresh[rev[w].tok] \in RefreshRow
        BY <1>6, <2>1 DEF RevRevokeRefresh, StoreTypeOK, RevKnown
      <3>2. refresh'[rev[w].tok] =
               [refresh[rev[w].tok] EXCEPT !.revoked = TRUE, !.reason = "client_revoked"]
        BY <1>6, <2>1 DEF RevRevokeRefresh, RevokeRefreshToken, StoreTypeOK
      <3> QED BY <3>1, <3>2 DEF RefreshRow
    <2> QED BY <1>1, <2>2, <2>3 DEF RevSafeAt
  <1>7. ASSUME NEW w \in Revokers, RevLogRefresh(w)
        PROVE  AuditSafe'
    <2>1. rev[w] \in RevRequest /\ rev[w].tok \in RefreshIds
      BY <1>3, <1>7 DEF RevLogRefresh, RevTypeOK
    <2>2. /\ \A v \in Revokers \ {w} : rev'[v] = rev[v]
          /\ rev'[w].pc = "access"
      BY <1>7, <2>1 DEF RevLogRefresh, RevTypeOK, RevRequest
    <2>3. refresh'[rev[w].tok].revoked /\ refresh'[rev[w].tok] # NoRow
      BY <1>7 DEF RevLogRefresh, AuditSafe, RevSafeAt, RevKnown, RevTypeOK
    <2>4. \A e \in audit' \ audit :
             e.event = "refresh_token_revoked" /\ e.subject = rev[w].tok
      BY <1>7, Logs DEF RevLogRefresh
    <2>5. \A e \in audit' \ audit : EventTrue(e)'
      BY <2>1, <2>3, <2>4 DEF EventTrue, IsRefresh
    <2> QED BY <1>1, <2>2, <2>5 DEF RevSafeAt
  <1>8. ASSUME NEW w \in Revokers, RevLookupAccess(w)
        PROVE  AuditSafe'
    <2>1. rev[w] \in RevRequest
      BY <1>3, <1>8 DEF RevLookupAccess
    <2> DEFINE a == rev[w].acc
    <2>2. CASE a # None /\ IsAccess(a) /\ ~access[a].revoked
      <3>1. /\ \A v \in Revokers \ {w} : rev'[v] = rev[v]
            /\ rev'[w].pc = "revokeAccess" /\ rev'[w].acc = a /\ UNCHANGED <<audit, access>>
        BY <1>8, <2>1, <2>2, SMT DEF RevLookupAccess, RevTypeOK, RevRequest, storeVars
      <3> QED BY <1>1, <2>2, <3>1 DEF RevSafeAt, IsAccess
    <2>3. CASE ~(a # None /\ IsAccess(a) /\ ~access[a].revoked)
      BY <1>2, <1>8, <2>3, SMT DEF RevLookupAccess, RevTypeOK, RevIdle, storeVars
    <2> QED BY <2>2, <2>3
  <1>9. ASSUME NEW w \in Revokers, RevRevokeAccess(w)
        PROVE  AuditSafe'
    <2>1. rev[w] \in RevRequest /\ rev[w].acc \in AccessIds
      BY <1>3, <1>9 DEF RevRevokeAccess, RevTypeOK
    <2>2. CASE rev' = [rev EXCEPT ![w] = RevIdle]
      BY <1>2, <1>9, <2>2 DEF RevRevokeAccess, RevTypeOK, RevIdle
    <2>3. CASE RevokeAccessToken(rev[w].acc) /\ rev' = [rev EXCEPT ![w].pc = "logAccess"]
      <3>1. /\ \A v \in Revokers \ {w} : rev'[v] = rev[v]
            /\ rev'[w].pc = "logAccess" /\ rev'[w].acc = rev[w].acc /\ UNCHANGED audit
        BY <1>9, <2>1, <2>3 DEF RevRevokeAccess, RevTypeOK, RevRequest
      <3>2. access[rev[w].acc] # NoRow
        BY <1>9 DEF RevRevokeAccess, AuditSafe, RevSafeAt
      <3>3. access'[rev[w].acc] = Purged \/
               (access'[rev[w].acc] \notin {NoRow, Purged} /\ access'[rev[w].acc].revoked)
        <4>1. CASE access[rev[w].acc] = Purged
          BY <2>1, <2>3, <4>1 DEF RevokeAccessToken, IsAccess, StoreTypeOK
        <4>2. CASE access[rev[w].acc] # Purged
          <5>1. access[rev[w].acc] \in AccessRow
            BY <2>1, <3>2, <4>2 DEF StoreTypeOK
          <5>2. access'[rev[w].acc] = [access[rev[w].acc] EXCEPT !.revoked = TRUE]
            BY <2>1, <2>3, <3>2, <4>2 DEF RevokeAccessToken, IsAccess, StoreTypeOK
          <5>3. access'[rev[w].acc] \in AccessRow /\ access'[rev[w].acc].revoked
            BY <5>1, <5>2 DEF AccessRow
          <5> QED BY <5>3, RowAssumption
        <4> QED BY <4>1, <4>2
      <3>4. RevSafeAt(w)'
        BY <3>1, <3>3 DEF RevSafeAt, Spent, IsAccess
      <3> QED BY <1>1, <3>1, <3>4
    <2> QED BY <1>9, <2>2, <2>3 DEF RevRevokeAccess
  <1>10. ASSUME NEW w \in Revokers, RevLogAccess(w)
         PROVE  AuditSafe'
    <2>1. rev[w].acc \in AccessIds
      BY <1>10 DEF RevLogAccess, RevTypeOK
    <2>2. /\ \A v \in Revokers \ {w} : rev'[v] = rev[v]
          /\ rev'[w].pc = "idle"
      BY <1>10 DEF RevLogAccess, RevTypeOK, RevIdle
    <2>3. \A a \in AccessIds : a = rev[w].acc => Spent(a)'
      <3>1. Spent(rev[w].acc)
        BY <1>10 DEF RevLogAccess, AuditSafe, RevSafeAt
      <3> QED BY <3>1, SpentStays
    <2>4. \A e \in audit' \ audit :
             e.event = "access_token_revoked" /\ e.subject = rev[w].acc
      BY <1>10, Logs DEF RevLogAccess
    <2>5. \A e \in audit' \ audit : EventTrue(e)'
      BY <2>1, <2>3, <2>4 DEF EventTrue
    <2> QED BY <1>1, <2>2, <2>5 DEF RevSafeAt
  <1>11. ASSUME NEW w \in Revokers, RevFail(w)
         PROVE  AuditSafe'
    BY <1>2, <1>11 DEF RevFail, RevTypeOK, RevIdle, storeVars
  <1> QED BY <1>4, <1>5, <1>6, <1>7, <1>8, <1>9, <1>10, <1>11 DEF RevNext

---------------------------------------------------------------------------
(* SingleSession                                                           *)

\* A step that opens no session.
NoNewSession == \A u \in Users : Sessions(u)' \subseteq Sessions(u)

\* The inductive form of SingleSession: between its revocation and its insert, a
\* login only finds sessions that were opened beside its own.
LoginFirst ==
    /\ SingleSession
    /\ \A w \in Logins : login[w].pc = "store" =>
          \A y \in Sessions(login[w].user) : <<y, login[w].acc>> \in beside

\* A statement that deletes or revokes rows, or inserts one that belongs to a
\* client, opens no session.
LEMMA OpensNone ==
    ASSUME StoreTypeOK,
           \A a \in AccessIds : \/ access'[a] = access[a]
                                \/ access'[a] = Purged
                                \/ IsAccess(a) /\ access'[a] = [access[a] EXCEPT !.revoked = TRUE]
                                \/ access'[a].client # None
    PROVE  NoNewSession
  <1> SUFFICES ASSUME NEW u \in Users, NEW a \in Sessions(u)'
               PROVE  a \in Sessions(u)
    BY DEF NoNewSession
  <1>1. /\ a \in AccessIds /\ access'[a] \notin {NoRow, Purged} /\ ~access'[a].revoked
        /\ access'[a].client = None /\ access'[a].user = u
    BY DEF Sessions, IsAccess
  <1>2. ASSUME IsAccess(a), access'[a] = [access[a] EXCEPT !.revoked = TRUE]
        PROVE  FALSE
    <2>1. access[a] \in AccessRow
      BY <1>1, <1>2 DEF StoreTypeOK, IsAccess
    <2>2. [access[a] EXCEPT !.revoked = TRUE].revoked
      BY <2>1 DEF AccessRow
    <2> QED BY <1>1, <1>2, <2>2
  <1>3. access'[a] = access[a]
    BY <1>1, <1>2
  <1> QED BY <1>1, <1>3 DEF Sessions, IsAccess

\* RevokeAccessToken opens no session.
LEMMA RevokeOpensNone ==
    ASSUME StoreTypeOK, NEW a \in AccessIds, RevokeAccessToken(a)
    PROVE  NoNewSession
  <1>1. \A b \in AccessIds : \/ access'[b] = access[b]
                             \/ IsAccess(b) /\ access'[b] = [access[b] EXCEPT !.revoked = TRUE]
    BY DEF RevokeAccessToken, StoreTypeOK
  <1> QED BY <1>1, OpensNone

\* Nor does a step that leaves the table alone.
LEMMA UnchangedOpensNone ==
    ASSUME StoreTypeOK, UNCHANGED access
    PROVE  NoNewSession
  BY OpensNone

\* Revocation, the bearer gate and the administrator open no session.
LEMMA OthersOpenNone ==
    ASSUME StoreTypeOK, RevTypeOK, GateTypeOK, RevNext \/ GateNext \/ AdminNext
    PROVE  NoNewSession
  <1>1. ASSUME NEW w \in Revokers, RevRevokeAccess(w)
        PROVE  NoNewSession
    <2>1. rev[w].acc \in AccessIds
      BY <1>1 DEF RevRevokeAccess, RevTypeOK, RevIdle
    <2> QED BY <1>1, <2>1, RevokeOpensNone, UnchangedOpensNone DEF RevRevokeAccess
  <1>2. CASE RevNext
    BY <1>1, <1>2, UnchangedOpensNone
    DEF RevNext, RevBegin, RevLookupRefresh, RevRevokeRefresh, RevLogRefresh, RevLookupAccess,
        RevLogAccess, RevFail, storeVars
  <1>3. ASSUME NEW w \in Bearers, LogoutRevokeToken(w)
        PROVE  NoNewSession
    <2>1. gate[w].tok \in AccessIds
      BY <1>3, SMT DEF LogoutRevokeToken, GateTypeOK, GateIdle, GateRequest
    <2> QED BY <1>3, <2>1, RevokeOpensNone, UnchangedOpensNone DEF LogoutRevokeToken
  <1>4. CASE GateNext
    BY <1>3, <1>4, UnchangedOpensNone
    DEF GateNext, GateValidate, GateCheckRevoked, GateServe, LogoutRevokeRefreshTokens,
        GateFail, storeVars
  <1>5. ASSUME CleanupExpiredTokens
        PROVE  NoNewSession
    <2>1. \A a \in AccessIds : access'[a] = access[a] \/ access'[a] = Purged
      BY <1>5 DEF CleanupExpiredTokens, DeleteExpiredAccessTokens
    <2> QED BY <2>1, OpensNone
  <1>6. CASE AdminNext
    BY <1>5, <1>6, RevokeOpensNone, UnchangedOpensNone
    DEF AdminNext, AdminRevokeAuthorizationCode, AdminRevokeAccessToken,
        AdminRevokeUserSessions, DeleteClient, UpdateClient, CleanupExpiredCodes
  <1> QED BY <1>2, <1>4, <1>6

\* The steps of everyone else.
LEMMA LoginFirstKept ==
    ASSUME LoginTypeOK, LoginFirst, NoNewSession, UNCHANGED loginVars
    PROVE  LoginFirst'
  <1>1. SingleSession'
    BY DEF LoginFirst, SingleSession, NoNewSession, loginVars
  <1>2. ASSUME NEW w \in Logins, login[w].pc = "store", NEW y \in Sessions(login[w].user)'
        PROVE  <<y, login[w].acc>> \in beside
    <2>1. login[w].user \in Users
      BY <1>2, LoginShape DEF LoginHolding
    <2>2. y \in Sessions(login[w].user)
      BY <1>2, <2>1 DEF NoNewSession, Sessions, loginVars
    <2> QED BY <1>2, <2>2 DEF LoginFirst
  <1> QED BY <1>1, <1>2 DEF LoginFirst, Sessions, loginVars

\* The actions of a login.
LEMMA LoginFirstStep ==
    ASSUME StoreTypeOK, LoginTypeOK, LoginFirst, LoginNext
    PROVE  LoginFirst'
  <1>1. ASSUME NEW w \in Logins, NoNewSession, \A v \in Logins \ {w} : login'[v] = login[v],
               UNCHANGED beside,
               login'[w].pc = "store" => Sessions(login[w].user)' = {}
        PROVE  LoginFirst'
    <2>1. SingleSession'
      BY <1>1 DEF LoginFirst, SingleSession, NoNewSession
    <2>2. ASSUME NEW v \in Logins, v # w, login[v].pc = "store",
                 NEW u, u = login[v].user, NEW y \in Sessions(u)'
          PROVE  <<y, login[v].acc>> \in beside
      BY <1>1, <2>2, LoginShape DEF LoginFirst, NoNewSession, LoginHolding
    <2> QED BY <1>1, <2>1, <2>2 DEF LoginFirst, Sessions
  <1>2. ASSUME NEW w \in Logins,
               \/ \E u \in Users : LoginVerified(w, u) \/ PasswordChanged(w, u)
               \/ ChangeRevokeRefreshTokens(w)
               \/ ChangeLog(w)
               \/ \E a \in AccessIds : LoginGenerate(w, a)
               \/ LoginRespond(w)
               \/ LoginFail(w)
        PROVE  LoginFirst'
    <2>1. UNCHANGED <<access, beside>> /\ (\A v \in Logins \ {w} : login'[v] = login[v])
      BY <1>2 DEF LoginVerified, PasswordChanged, ChangeRevokeRefreshTokens, ChangeLog,
                  LoginGenerate, LoginRespond, LoginFail, storeVars, LoginTypeOK
    <2>2. login'[w].pc # "store"
      BY <1>2, LoginShape, SMT
      DEF LoginVerified, PasswordChanged, ChangeRevokeRefreshTokens, ChangeLog, LoginGenerate,
          LoginRespond, LoginFail, LoginTypeOK, LoginIdle, LoginSigning
    <2> QED BY <1>1, <2>1, <2>2, UnchangedOpensNone
  <1>3. ASSUME NEW w \in Logins, LoginRevokeAll(w)
        PROVE  LoginFirst'
    <2>1. /\ login[w] \in LoginSigned /\ login[w].user \in Users
          /\ \A v \in Logins \ {w} : login'[v] = login[v]
      BY <1>3, LoginShape DEF LoginRevokeAll, LoginTypeOK, LoginHolding
    <2>2. login'[w].user = login[w].user /\ UNCHANGED beside
      BY <1>3, <2>1 DEF LoginRevokeAll, LoginTypeOK, LoginSigned
    <2>3. \A a \in AccessIds :
             IF IsAccess(a) /\ access[a].user = login[w].user
             THEN access'[a] = [access[a] EXCEPT !.revoked = TRUE]
             ELSE access'[a] = access[a]
      BY <1>3 DEF LoginRevokeAll, RevokeAccessTokensByUser
    <2>4. NoNewSession
      BY <2>3, OpensNone
    <2>5. ASSUME NEW a \in AccessIds, access'[a] \notin {NoRow, Purged}, ~access'[a].revoked,
                 access'[a].user = login[w].user
          PROVE  FALSE
      <3>1. CASE IsAccess(a) /\ access[a].user = login[w].user
        <4>1. access[a] \in AccessRow
          BY <3>1 DEF StoreTypeOK, IsAccess
        <4>2. [access[a] EXCEPT !.revoked = TRUE].revoked
          BY <4>1 DEF AccessRow
        <4> QED BY <2>3, <2>5, <3>1, <4>2
      <3>2. CASE ~(IsAccess(a) /\ access[a].user = login[w].user)
        BY <2>3, <2>5, <3>2 DEF IsAccess
      <3> QED BY <3>1, <3>2
    <2>6. Sessions(login[w].user)' = {}
      BY <2>2, <2>5 DEF Sessions, IsAccess
    <2> QED BY <1>1, <2>1, <2>2, <2>4, <2>6
  <1>4. ASSUME NEW w \in Logins, StoreDirectLoginToken(w)
        PROVE  LoginFirst'
    <2> DEFINE n == login[w].acc
               m == login[w].user
    <2>1. /\ login[w] \in LoginSigned /\ n \in AccessIds /\ m \in Users
          /\ \A v \in Logins \ {w} : login'[v] = login[v]
      BY <1>4, LoginShape DEF StoreDirectLoginToken, LoginTypeOK, LoginHolding
    <2>2. login'[w].pc = "respond"
      BY <1>4, <2>1 DEF StoreDirectLoginToken, LoginTypeOK, LoginSigned
    <2>3. /\ access'[n].user = m
          /\ \A a \in AccessIds : a # n => access'[a] = access[a]
      <3>1. PICK e \in RowExpiry(n) :
               CreateAccessToken(n, [client |-> None, user |-> m,
                                     expires |-> e, revoked |-> FALSE])
        BY <1>4 DEF StoreDirectLoginToken
      <3> QED BY <2>1, <3>1 DEF CreateAccessToken, StoreTypeOK
    <2>4. beside' = beside \cup {n} \X Spared(w) /\ beside \subseteq beside'
      BY <1>4 DEF StoreDirectLoginToken
    <2>5. ASSUME NEW u \in Users, NEW a \in Sessions(u)'
          PROVE  (a = n /\ u = m) \/ (a # n /\ a \in Sessions(u))
      <3>1. a \in AccessIds /\ access'[a].user = u
        BY <2>5 DEF Sessions
      <3>2. a # n => a \in Sessions(u)
        BY <2>3, <2>5, <3>1 DEF Sessions, IsAccess
      <3> QED BY <2>3, <3>1, <3>2
    <2>6. ASSUME NEW y \in Sessions(m)
          PROVE  <<y, n>> \in beside' \/ <<n, y>> \in beside'
      <3>1. CASE login[w].pc = "store"
        BY <2>4, <2>6, <3>1 DEF LoginFirst
      <3>2. CASE login[w].pc = "open"
        <4>1. y \in Spared(w)
          BY <2>6, <3>2 DEF Spared, Sessions
        <4> QED BY <2>4, <4>1
      <3> QED BY <1>4, <3>1, <3>2 DEF StoreDirectLoginToken
    <2>7. SingleSession'
      <3> SUFFICES ASSUME NEW u \in Users, NEW a \in Sessions(u)', NEW b \in Sessions(u)'
                   PROVE  a = b \/ <<a, b>> \in beside' \/ <<b, a>> \in beside'
        BY DEF SingleSession
      <3>1. CASE a = n \/ b = n
        BY <2>5, <2>6, <3>1
      <3>2. CASE a # n /\ b # n
        BY <2>4, <2>5, <3>2 DEF LoginFirst, SingleSession
      <3> QED BY <3>1, <3>2
    <2>8. ASSUME NEW v \in Logins, login'[v].pc = "store", NEW u, u = login'[v].user,
                 NEW y \in Sessions(u)'
          PROVE  <<y, login'[v].acc>> \in beside'
      <3>1. v # w /\ login'[v] = login[v] /\ u \in Users /\ login[v].acc \in AccessIds
        BY <2>1, <2>2, <2>8, LoginShape DEF LoginHolding
      <3>2. CASE y = n /\ u = m
        <4>1. login[v].acc \in Spared(w)
          BY <2>8, <3>1, <3>2 DEF Spared
        <4> QED BY <2>4, <3>1, <3>2, <4>1
      <3>3. CASE y \in Sessions(u)
        BY <2>4, <2>8, <3>1, <3>3 DEF LoginFirst
      <3> QED BY <2>5, <2>8, <3>1, <3>2, <3>3
    <2> QED BY <2>7, <2>8 DEF LoginFirst
  <1> QED BY <1>2, <1>3, <1>4 DEF LoginNext
=============================================================================
