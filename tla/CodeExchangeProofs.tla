------------------------ MODULE CodeExchangeProofs ------------------------
(***************************************************************************)
(* The code grant by itself: its actions keep the types, do to the tables  *)
(* only what StoreStep allows, and keep ExSafe, the inductive form of      *)
(* NoLateRedemption and BurnBeforeMint.  The steps of everyone else matter *)
(* only as StoreSteps.                                                     *)
(***************************************************************************)
EXTENDS CodeExchange, SessionProofs

\* Zenon proves the leaves that cite no other prover.
USE Zenon

\* Every token that a request carries exists.
ExKnown ==
    \A w \in Exchangers :
        /\ ex[w].pc \in {"store", "refresh", "log", "respond"} => jwt[ex[w].acc] # NoRow
        /\ ex[w].pc \in {"mark", "sign", "store", "refresh"} => ex[w].ref = None
        /\ ex[w].pc \in {"log", "respond"} /\ ex[w].ref # None => refresh[ex[w].ref] # NoRow

---------------------------------------------------------------------------

\* Where a request is says which fields it has.
LEMMA ExShape ==
    ASSUME ExTypeOK, NEW w \in Exchangers
    PROVE  /\ ex[w].pc = "idle" => ex[w] = ExIdle
           /\ ex[w].pc = "code" => ex[w] \in ExChecking
           /\ ex[w].pc \in ExAccepted => ex[w] \in ExGranting
  BY SMT DEF ExTypeOK, ExIdle, ExChecking, ExGranting, ExAccepted

\* A request that moves on to a well-formed state.
LEMMA ExMove ==
    ASSUME ExTypeOK, NEW w \in Exchangers, NEW q \in ExGranting,
           q.pc \in {"store", "refresh", "log", "respond"} => q.acc \in AccessIds,
           q.pc = "log" => q.ref \in RefreshIds,
           ex' = [ex EXCEPT ![w] = q], grants' \subseteq Codes \X AccessIds
    PROVE  ExTypeOK'
  BY DEF ExTypeOK

\* A request that ends.
LEMMA ExEnd ==
    ASSUME ExTypeOK, NEW w \in Exchangers, ex' = [ex EXCEPT ![w] = ExIdle],
           UNCHANGED grants
    PROVE  ExTypeOK'
  BY DEF ExTypeOK, ExIdle

\* What a request knows stays true while others work on the tables.
LEMMA ExKept ==
    ASSUME ExTypeOK, ExKnown, StoreStep, UNCHANGED exVars
    PROVE  ExTypeOK' /\ ExKnown'
  <1>1. ExTypeOK'
    BY DEF ExTypeOK, exVars
  <1>2. ASSUME NEW w \in Exchangers, ex[w].pc \in ExAccepted
        PROVE  /\ ex[w].acc \in AccessIds /\ jwt[ex[w].acc] # NoRow =>
                     jwt'[ex[w].acc] # NoRow
               /\ ex[w].ref # None /\ refresh[ex[w].ref] # NoRow =>
                     refresh'[ex[w].ref] # NoRow
    BY <1>2, ExShape DEF ExGranting, StoreStep, JwtStep, RefreshStep, IsRefresh
  <1>3. ExKnown'
    BY <1>2 DEF ExTypeOK, ExKnown, exVars, ExAccepted
  <1> QED BY <1>1, <1>3

\* Every action of CodeExchange keeps the types and what is known, and does to the
\* tables only what StoreStep allows.
LEMMA ExStep ==
    ASSUME StoreTypeOK, ExTypeOK, ExKnown, HeldKnown, ExNext
    PROVE  StoreTypeOK' /\ ExTypeOK' /\ ExKnown' /\ HeldKnown' /\ StoreStep
  <1> USE DEF StoreTypeOK, CodesType, AccessType, RefreshType, JwtType
  <1> DEFINE Goal == StoreTypeOK' /\ ExTypeOK' /\ ExKnown' /\ HeldKnown' /\ StoreStep
  <1>1. ASSUME NEW k \in Codes, NEW c \in Clients, NEW u \in Users, NEW uri \in Uris,
               NEW off \in BOOLEAN, IssueCode(k, c, u, uri, off)
        PROVE  Goal
    <2>1. CodesType' /\ CodesStep
      <3>1. [client |-> c, user |-> u, uri |-> uri, offline |-> off,
             expires |-> now + CodeTTL, used |-> FALSE, revoked |-> FALSE] \in CodeRow
        BY StoreAssumption, SMT DEF CodeRow
      <3> QED BY <1>1, <3>1, CreateAuthorizationCodeStep DEF IssueCode
    <2> QED BY <1>1, <2>1, StutterStep, SMT
        DEF IssueCode, exVars, ExTypeOK, ExKnown, HeldKnown, StoreStep
  <1>2. ASSUME NEW w \in Exchangers, NEW k \in Codes, NEW c \in Clients, NEW uri \in Uris,
               ExGetClient(w, k, c, uri)
        PROVE  Goal
    <2> DEFINE q == [pc |-> "code", code |-> k, client |-> c, uri |-> uri,
                     allow |-> clients[c].allowRefresh, dead |-> ~Redeemable(k, c, uri)]
    <2>1. q \in ExChecking /\ q.pc = "code"
      BY DEF ExChecking, ClientRow
    <2> HIDE DEF q
    <2>2. ex' = [ex EXCEPT ![w] = q]
      BY <1>2 DEF ExGetClient, q
    <2>3. ExTypeOK' /\ ExKnown'
      BY <1>2, <2>1, <2>2, SMT DEF ExGetClient, storeVars, ExTypeOK, ExKnown
    <2> QED BY <1>2, <2>3, StutterStep, SMT DEF ExGetClient, storeVars, HeldKnown, StoreStep
  <1>3. ASSUME NEW w \in Exchangers, ExGetAuthorizationCode(w)
        PROVE  Goal
    <2> DEFINE k == ex[w].code
               q == [pc |-> "mark", code |-> k, client |-> ex[w].client,
                     uri |-> ex[w].uri, allow |-> ex[w].allow, dead |-> ex[w].dead,
                     user |-> codes[k].user, offline |-> codes[k].offline,
                     acc |-> None, ref |-> None]
    <2>1. ex[w] \in ExChecking
      BY <1>3, ExShape DEF ExGetAuthorizationCode, ExCheckCode
    <2>2. CASE Redeemable(k, ex[w].client, ex[w].uri)
      <3>1. q \in ExGranting /\ q.pc = "mark" /\ q.ref = None
        BY <2>1, <2>2 DEF ExChecking, ExGranting, ExAccepted, Redeemable, IsCode, CodeRow
      <3> HIDE DEF q
      <3>2. ex' = [ex EXCEPT ![w] = q]
        BY <1>3, <2>2 DEF ExGetAuthorizationCode, ExCheckCode, q
      <3>3. ExTypeOK' /\ ExKnown'
        BY <1>3, <3>1, <3>2, ExMove
        DEF ExGetAuthorizationCode, ExCheckCode, storeVars, ExTypeOK, ExKnown
      <3> QED BY <1>3, <3>3, StutterStep, SMT
          DEF ExGetAuthorizationCode, ExCheckCode, storeVars, HeldKnown, StoreStep
    <2>3. CASE ~Redeemable(k, ex[w].client, ex[w].uri)
      BY <1>3, <2>3, StutterStep, ExEnd, SMT
      DEF ExGetAuthorizationCode, ExCheckCode, storeVars, ExTypeOK, ExIdle, ExKnown,
          HeldKnown, StoreStep
    <2> QED BY <2>2, <2>3
  <1>4. ASSUME NEW w \in Exchangers, ExMarkUsed(w)
        PROVE  Goal
    <2>1. ex[w] \in ExGranting
      BY <1>4, ExShape DEF ExMarkUsed, ExAccepted
    <2>2. CASE IsCode(ex[w].code)
      <3> DEFINE q == [ex[w] EXCEPT !.pc = "sign"]
      <3>1. q \in ExGranting /\ q.pc = "sign" /\ q.ref = ex[w].ref /\ ex[w].code \in Codes
        BY <2>1 DEF ExGranting, ExAccepted
      <3> HIDE DEF q
      <3>2. ex' = [ex EXCEPT ![w] = q]
        BY <1>4, <2>2 DEF ExMarkUsed, q
      <3>3. CodesType' /\ CodesStep
        BY <1>4, <2>2, <3>1, MarkAuthorizationCodeUsedStep DEF ExMarkUsed
      <3>4. ExTypeOK' /\ ExKnown'
        BY <1>4, <3>1, <3>2, ExMove DEF ExMarkUsed, ExTypeOK, ExKnown
      <3> QED BY <1>4, <3>3, <3>4, StutterStep, SMT DEF ExMarkUsed, HeldKnown, StoreStep
    <2>3. CASE ~IsCode(ex[w].code)
      BY <1>4, <2>3, StutterStep, ExEnd, SMT
      DEF ExMarkUsed, ExTypeOK, ExIdle, ExKnown, HeldKnown, StoreStep
    <2> QED BY <2>2, <2>3
  <1>5. ASSUME NEW w \in Exchangers, NEW a \in AccessIds, ExGenerate(w, a)
        PROVE  Goal
    <2>1. ex[w] \in ExGranting
      BY <1>5, ExShape DEF ExGenerate, ExAccepted
    <2> DEFINE q == [ex[w] EXCEPT !.pc = "store", !.acc = a]
    <2>2. q \in ExGranting /\ q.pc = "store" /\ q.acc = a /\ ex[w].user \in Users
      BY <2>1 DEF ExGranting, ExAccepted
    <2>3. ex' = [ex EXCEPT ![w] = q]
      BY <1>5 DEF ExGenerate, ExTypeOK
    <2> HIDE DEF q
    <2>4. JwtType' /\ JwtStep /\ jwt'[a] # NoRow
      BY <1>5, <2>2, GenerateAccessTokenStep DEF ExGenerate
    <2>5. ExTypeOK'
      BY <1>5, <2>2, <2>3, ExMove DEF ExGenerate, ExTypeOK
    <2>6. ExKnown' /\ HeldKnown'
      BY <1>5, <2>2, <2>3, <2>4, SMT DEF ExGenerate, ExTypeOK, ExKnown, HeldKnown, JwtStep
    <2> QED BY <1>5, <2>4, <2>5, <2>6, StutterStep, SMT DEF ExGenerate, StoreStep
  <1>6. ASSUME NEW w \in Exchangers, ExCreateAccessToken(w)
        PROVE  Goal
    <2>1. ex[w] \in ExGranting /\ ex[w].acc \in AccessIds
      BY <1>6, ExShape DEF ExCreateAccessToken, ExAccepted, ExTypeOK
    <2>2. PICK e \in RowExpiry(ex[w].acc) :
             CreateAccessToken(ex[w].acc,
                 [client |-> ex[w].client, user |-> ex[w].user,
                  expires |-> e, revoked |-> FALSE])
      BY <1>6 DEF ExCreateAccessToken
    <2>3. e \in Nat
      BY <1>6, <2>1, StoreAssumption, RowAssumption, SMT
      DEF ExCreateAccessToken, ExKnown, RowExpiry, Claims
    <2>4. AccessType' /\ AccessStep
      BY <2>1, <2>2, <2>3, CreateAccessTokenStep DEF AccessRow, ExGranting
    <2> DEFINE q == [ex[w] EXCEPT !.pc = IF ex[w].allow /\ ex[w].offline
                                        THEN "refresh" ELSE "respond"]
    <2>5. /\ q \in ExGranting /\ q.pc \in {"refresh", "respond"}
          /\ q.acc = ex[w].acc /\ q.ref = ex[w].ref /\ q.code = ex[w].code
      BY <2>1 DEF ExGranting, ExAccepted
    <2>6. ex' = [ex EXCEPT ![w] = q]
      BY <1>6 DEF ExCreateAccessToken, ExTypeOK
    <2> HIDE DEF q
    <2>7. grants' \subseteq Codes \X AccessIds
      BY <1>6, <2>1, SMT DEF ExCreateAccessToken, ExTypeOK, ExGranting
    <2>8. ExTypeOK'
      BY <2>1, <2>5, <2>6, <2>7, ExMove
    <2>9. ex[w].ref = None
      BY <1>6 DEF ExCreateAccessToken, ExKnown
    <2>10. ExKnown'
      BY <1>6, <2>1, <2>5, <2>6, <2>9, SMT DEF ExCreateAccessToken, ExTypeOK, ExKnown
    <2> QED BY <1>6, <2>4, <2>8, <2>10, StutterStep, SMT DEF ExCreateAccessToken, HeldKnown, StoreStep
  <1>7. ASSUME NEW w \in Exchangers, NEW r \in RefreshIds, ExCreateRefreshToken(w, r)
        PROVE  Goal
    <2>1. ex[w] \in ExGranting /\ ex[w].acc \in AccessIds
      BY <1>7, ExShape DEF ExCreateRefreshToken, ExAccepted, ExTypeOK
    <2>2. CASE IsAccess(ex[w].acc)
      <3> DEFINE q == [ex[w] EXCEPT !.pc = "log", !.ref = r]
                 row == [family |-> r, client |-> ex[w].client, user |-> ex[w].user,
                         access |-> ex[w].acc, prev |-> None, expires |-> now + RefreshTTL,
                         revoked |-> FALSE, reason |-> None]
      <3>1. row \in RefreshRow
        BY <2>1, StoreAssumption, SMT DEF RefreshRow, ExGranting
      <3>2. q \in ExGranting /\ q.pc = "log" /\ q.ref = r /\ q.acc = ex[w].acc
        BY <2>1 DEF ExGranting, ExAccepted
      <3>3. ex' = [ex EXCEPT ![w] = q] /\ CreateRefreshToken(r, row)
        BY <1>7, <2>2 DEF ExCreateRefreshToken, ExTypeOK
      <3> HIDE DEF q, row
      <3>4. RefreshType' /\ RefreshStep
        BY <3>1, <3>3, CreateRefreshTokenStep
      <3>5. refresh'[r] # NoRow
        BY <3>1, <3>3, RowAssumption DEF CreateRefreshToken
      <3>6. ExTypeOK'
        BY <1>7, <2>1, <3>2, <3>3, ExMove DEF ExCreateRefreshToken, ExTypeOK
      <3>7. ExKnown'
        <4> SUFFICES ASSUME NEW v \in Exchangers
                     PROVE  /\ ex'[v].pc \in {"store", "refresh", "log", "respond"} =>
                                 jwt'[ex'[v].acc] # NoRow
                            /\ ex'[v].pc \in {"mark", "sign", "store", "refresh"} =>
                                 ex'[v].ref = None
                            /\ ex'[v].pc \in {"log", "respond"} /\ ex'[v].ref # None =>
                                 refresh'[ex'[v].ref] # NoRow
          BY DEF ExKnown
        <4>1. CASE v = w
          BY <1>7, <3>2, <3>3, <3>5, <4>1 DEF ExCreateRefreshToken, ExTypeOK, ExKnown
        <4>2. CASE v # w /\ ex[v].pc \in ExAccepted
          BY <1>7, <3>3, <3>4, <4>2, ExShape
          DEF ExCreateRefreshToken, ExTypeOK, ExGranting, ExKnown, RefreshStep, IsRefresh
        <4>3. CASE v # w /\ ex[v].pc \notin ExAccepted
          BY <3>3, <4>3 DEF ExTypeOK, ExAccepted
        <4> QED BY <4>1, <4>2, <4>3
      <3>8. HeldKnown'
        BY <1>7, <3>4 DEF ExCreateRefreshToken, HeldKnown, RefreshStep, IsRefresh
      <3> QED BY <1>7, <3>4, <3>6, <3>7, <3>8, StutterStep, SMT DEF ExCreateRefreshToken, StoreStep
    <2>3. CASE ~IsAccess(ex[w].acc)
      BY <1>7, <2>3, StutterStep, ExEnd, SMT
      DEF ExCreateRefreshToken, ExTypeOK, ExIdle, ExKnown, HeldKnown, StoreStep
    <2> QED BY <2>2, <2>3
  <1>8. ASSUME NEW w \in Exchangers, ExLogIssued(w)
        PROVE  Goal
    <2>1. ex[w] \in ExGranting /\ ex[w].acc \in AccessIds /\ ex[w].ref \in RefreshIds
      BY <1>8, ExShape DEF ExLogIssued, ExAccepted, ExTypeOK
    <2> DEFINE q == [ex[w] EXCEPT !.pc = "respond"]
    <2>2. q \in ExGranting /\ q.pc = "respond" /\ q.ref = ex[w].ref /\ q.acc = ex[w].acc
      BY <2>1 DEF ExGranting, ExAccepted
    <2>3. ex' = [ex EXCEPT ![w] = q]
      BY <1>8 DEF ExLogIssued, ExTypeOK
    <2> HIDE DEF q
    <2>4. ExTypeOK' /\ ExKnown'
      BY <1>8, <2>1, <2>2, <2>3, ExMove, SMT DEF ExLogIssued, ExTypeOK, ExKnown
    <2>5. audit' \subseteq AuditRow
      BY <1>8, <2>1, SMT DEF ExLogIssued, LogEvent, AuditRow
    <2> QED BY <1>8, <2>4, <2>5, StutterStep, SMT DEF ExLogIssued, HeldKnown, StoreStep
  <1>9. ASSUME NEW w \in Exchangers, ExRespond(w)
        PROVE  Goal
    <2>1. ex[w] \in ExGranting /\ ex[w].acc \in AccessIds
      BY <1>9, ExShape DEF ExRespond, ExAccepted, ExTypeOK
    <2>2. ExTypeOK' /\ ExKnown'
      BY <1>9, ExEnd DEF ExRespond, ExTypeOK, ExIdle, ExKnown
    <2>3. held' \subseteq AccessIds \cup RefreshIds /\ HeldKnown'
      BY <1>9, <2>1, StoreAssumption, SMT DEF ExRespond, HeldKnown, ExKnown, ExGranting
    <2> QED BY <1>9, <2>2, <2>3, StutterStep, SMT DEF ExRespond, StoreStep
  <1>10. ASSUME NEW w \in Exchangers, ExFail(w)
         PROVE  Goal
    <2>1. ExTypeOK' /\ ExKnown'
      BY <1>10, ExEnd DEF ExFail, storeVars, ExTypeOK, ExKnown, ExIdle
    <2> QED BY <1>10, <2>1, StutterStep, SMT DEF ExFail, storeVars, HeldKnown, StoreStep
  <1> QED
    BY <1>1, <1>2, <1>3, <1>4, <1>5, <1>6, <1>7, <1>8, <1>9, <1>10 DEF ExNext

\* The refresh token of a code grant starts a family.
LEMMA ExRoots ==
    ASSUME StoreTypeOK, ExNext
    PROVE  RootsOnly
  <1>1. UNCHANGED refresh => RootsOnly
    BY DEF RootsOnly, IsRefresh
  <1>2. ASSUME NEW w \in Exchangers, NEW r \in RefreshIds, ExCreateRefreshToken(w, r)
        PROVE  RootsOnly
    BY <1>1, <1>2, SMT DEF ExCreateRefreshToken, CreateRefreshToken, RootsOnly, StoreTypeOK, IsRefresh
  <1> QED
    BY <1>1, <1>2
    DEF ExNext, IssueCode, ExGetClient, ExGetAuthorizationCode, ExCheckCode, ExMarkUsed,
        ExGenerate, ExCreateAccessToken, ExLogIssued, ExRespond, ExFail, storeVars

---------------------------------------------------------------------------
(* NoLateRedemption and BurnBeforeMint                                     *)

\* The code was used, or was deleted since.
Burned(k) == codes[k] = Purged \/ (IsCode(k) /\ codes[k].used)

\* The inductive form: a code that could not be redeemed when the request came in
\* still cannot when its row is read, and is burned from the mark on.
ExSafeAt(w) ==
    /\ ex[w].pc = "code" =>
          /\ codes[ex[w].code] # NoRow
          /\ ex[w].dead => ~Redeemable(ex[w].code, ex[w].client, ex[w].uri)
    /\ ex[w].pc \in ExAccepted => ~ex[w].dead
    /\ ex[w].pc \in ExMarked => Burned(ex[w].code)

ExSafe ==
    /\ \A w \in Exchangers : ExSafeAt(w)
    /\ \A g \in grants : Burned(g[1])

\* A code that was issued and cannot be redeemed never can be again, by the same
\* client at the same redirect URI; a burned code stays burned.
LEMMA CodeDecays ==
    ASSUME StoreTypeOK, StoreTypeOK', StoreStep, NEW k \in Codes
    PROVE  /\ codes[k] # NoRow => codes'[k] # NoRow
           /\ \A c \in Clients, uri \in Uris :
                 codes[k] # NoRow /\ ~Redeemable(k, c, uri) => ~Redeemable(k, c, uri)'
           /\ Burned(k) => Burned(k)'
  BY StoreAssumption, RowAssumption, SMT
  DEF StoreTypeOK, StoreStep, CodesStep, CodeRow, Redeemable, Burned, IsCode

\* A request that does not move keeps its part of ExSafe.
LEMMA ExSafeAtKept ==
    ASSUME StoreTypeOK, StoreTypeOK', ExTypeOK, StoreStep,
           NEW w \in Exchangers, ExSafeAt(w), ex'[w] = ex[w]
    PROVE  ExSafeAt(w)'
  <1>1. CASE ex[w].pc = "code"
    BY <1>1, CodeDecays, ExShape DEF ExChecking, ExSafeAt, ExAccepted, ExMarked
  <1>2. CASE ex[w].pc \in ExAccepted
    BY <1>2, CodeDecays, ExShape DEF ExGranting, ExSafeAt, ExAccepted, ExMarked
  <1>3. CASE ex[w].pc # "code" /\ ex[w].pc \notin ExAccepted
    BY <1>3 DEF ExSafeAt, ExMarked
  <1> QED BY <1>1, <1>2, <1>3

\* What was granted stays burned.
LEMMA GrantsKept ==
    ASSUME StoreTypeOK, StoreTypeOK', ExTypeOK, StoreStep, ExSafe
    PROVE  \A g \in grants : Burned(g[1])'
  BY CodeDecays DEF ExTypeOK, ExSafe

\* The steps of everyone else keep ExSafe.
LEMMA ExSafeKept ==
    ASSUME StoreTypeOK, StoreTypeOK', ExTypeOK, ExSafe, StoreStep, UNCHANGED exVars
    PROVE  ExSafe'
  BY ExSafeAtKept, GrantsKept DEF ExSafe, exVars

\* The actions of the code grant keep ExSafe.
LEMMA ExSafeStep ==
    ASSUME StoreTypeOK, StoreTypeOK', ExTypeOK, ExSafe, StoreStep, ExNext
    PROVE  ExSafe'
  <1>1. ASSUME NEW k \in Codes, NEW c \in Clients, NEW u \in Users, NEW uri \in Uris,
               NEW off \in BOOLEAN, IssueCode(k, c, u, uri, off)
        PROVE  ExSafe'
    BY <1>1, ExSafeKept DEF IssueCode
  <1>2. ASSUME NEW w \in Exchangers, ExSafeAt(w)', UNCHANGED grants,
               \A v \in Exchangers \ {w} : ex'[v] = ex[v]
        PROVE  ExSafe'
    BY <1>2, ExSafeAtKept, GrantsKept DEF ExSafe
  <1>3. ASSUME NEW w \in Exchangers, NEW k \in Codes, NEW c \in Clients, NEW uri \in Uris,
               ExGetClient(w, k, c, uri)
        PROVE  ExSafe'
    <2>1. ExSafeAt(w)'
      BY <1>3 DEF ExGetClient, storeVars, ExTypeOK, ExSafeAt, Redeemable, IsCode,
                  ExAccepted, ExMarked
    <2> QED BY <1>2, <1>3, <2>1 DEF ExGetClient, ExTypeOK
  <1>4. ASSUME NEW w \in Exchangers, ExGetAuthorizationCode(w)
        PROVE  ExSafe'
    <2>1. ExSafeAt(w)'
      BY <1>4, SMT DEF ExGetAuthorizationCode, ExCheckCode, storeVars, ExTypeOK, ExSafe,
                  ExSafeAt, ExIdle, ExAccepted, ExMarked
    <2> QED BY <1>2, <1>4, <2>1 DEF ExGetAuthorizationCode, ExCheckCode, ExTypeOK
  <1>5. ASSUME NEW w \in Exchangers, ExMarkUsed(w)
        PROVE  ExSafe'
    <2>1. ex[w] \in ExGranting /\ ~ex[w].dead
      BY <1>5, ExShape DEF ExMarkUsed, ExSafe, ExSafeAt, ExAccepted
    <2>2. CASE IsCode(ex[w].code)
      <3>1. codes'[ex[w].code] # Purged /\ codes'[ex[w].code] # NoRow
            /\ codes'[ex[w].code].used
        BY <1>5, <2>1, <2>2, MarkAuthorizationCodeUsedStep
        DEF ExMarkUsed, ExGranting, StoreTypeOK, CodesType, CodesStep, IsCode
      <3>2. ex'[w].pc = "sign" /\ ex'[w].code = ex[w].code /\ ex'[w].dead = ex[w].dead
        BY <1>5, <2>1, <2>2, ZenonT(30) DEF ExMarkUsed, ExTypeOK, ExGranting
      <3>3. ExSafeAt(w)'
        BY <2>1, <3>1, <3>2 DEF ExSafeAt, Burned, IsCode
      <3> QED BY <1>2, <1>5, <2>2, <3>3 DEF ExMarkUsed, ExTypeOK
    <2>3. CASE ~IsCode(ex[w].code)
      <3>1. ExSafeAt(w)'
        BY <1>5, <2>3, SMT DEF ExMarkUsed, ExTypeOK, ExSafeAt, ExIdle, ExAccepted, ExMarked
      <3> QED BY <1>2, <1>5, <2>3, <3>1 DEF ExMarkUsed, ExTypeOK
    <2> QED BY <2>2, <2>3
  <1>6. ASSUME NEW w \in Exchangers, ex[w].pc \in ExMarked, ex'[w].pc \in ExMarked,
               ex'[w].code = ex[w].code, ex'[w].dead = ex[w].dead
        PROVE  ExSafeAt(w)'
    <2>1. ex[w].code \in Codes /\ Burned(ex[w].code) /\ ~ex[w].dead
      BY <1>6, ExShape DEF ExSafe, ExSafeAt, ExMarked, ExGranting
    <2>2. Burned(ex[w].code)'
      BY <1>6, <2>1, CodeDecays DEF Burned, IsCode
    <2> QED BY <1>6, <2>1, <2>2 DEF ExSafeAt, ExMarked, ExAccepted, Burned, IsCode
  <1>7. ASSUME NEW w \in Exchangers, ex'[w] = ExIdle
        PROVE  ExSafeAt(w)'
    BY <1>7, SMT DEF ExSafeAt, ExIdle, ExAccepted, ExMarked
  <1>8. ASSUME NEW w \in Exchangers, NEW a \in AccessIds, ExGenerate(w, a)
        PROVE  ExSafe'
    <2>1. ex[w] \in ExGranting
      BY <1>8, ExShape DEF ExGenerate, ExAccepted
    <2>2. ExSafeAt(w)'
      BY <1>6, <1>8, <2>1 DEF ExGenerate, ExTypeOK, ExGranting, ExMarked, ExAccepted
    <2> QED BY <1>2, <1>8, <2>2 DEF ExGenerate, ExTypeOK
  <1>9. ASSUME NEW w \in Exchangers, ExCreateAccessToken(w)
        PROVE  ExSafe'
    <2>1. ex[w] \in ExGranting /\ Burned(ex[w].code)
      BY <1>9, ExShape DEF ExCreateAccessToken, ExAccepted, ExMarked, ExSafe, ExSafeAt
    <2>2. ex'[w].pc \in {"refresh", "respond"} /\ ex'[w].code = ex[w].code
          /\ ex'[w].dead = ex[w].dead
      BY <1>9, <2>1 DEF ExCreateAccessToken, ExTypeOK, ExGranting
    <2>3. ExSafeAt(w)'
      BY <1>6, <1>9, <2>2 DEF ExCreateAccessToken, ExMarked, ExAccepted
    <2>4. \A v \in Exchangers : ExSafeAt(v)'
      BY <1>9, <2>3, ExSafeAtKept DEF ExSafe, ExCreateAccessToken, ExTypeOK
    <2>5. codes' = codes
      BY <1>9 DEF ExCreateAccessToken
    <2>6. \A g \in grants' : Burned(g[1])'
      BY <1>9, <2>1, <2>5, SMT DEF ExCreateAccessToken, ExSafe, Burned, IsCode
    <2> QED BY <2>4, <2>6 DEF ExSafe
  <1>10. ASSUME NEW w \in Exchangers, NEW r \in RefreshIds, ExCreateRefreshToken(w, r)
         PROVE  ExSafe'
    <2>1. ex[w] \in ExGranting
      BY <1>10, ExShape DEF ExCreateRefreshToken, ExAccepted
    <2>2. CASE IsAccess(ex[w].acc)
      <3>1. ex'[w].pc = "log" /\ ex'[w].code = ex[w].code /\ ex'[w].dead = ex[w].dead
        BY <1>10, <2>1, <2>2, SMT DEF ExCreateRefreshToken, ExTypeOK, ExGranting
      <3>2. ExSafeAt(w)'
        BY <1>6, <1>10, <3>1 DEF ExCreateRefreshToken, ExMarked, ExAccepted
      <3> QED BY <1>2, <1>10, <2>2, <3>2 DEF ExCreateRefreshToken, ExTypeOK
    <2>3. CASE ~IsAccess(ex[w].acc)
      BY <1>2, <1>7, <1>10, <2>3 DEF ExCreateRefreshToken, ExTypeOK
    <2> QED BY <2>2, <2>3
  <1>11. ASSUME NEW w \in Exchangers, ExLogIssued(w)
         PROVE  ExSafe'
    <2>1. ex[w] \in ExGranting
      BY <1>11, ExShape DEF ExLogIssued, ExAccepted
    <2>2. ex'[w].pc = "respond" /\ ex'[w].code = ex[w].code /\ ex'[w].dead = ex[w].dead
      BY <1>11, <2>1 DEF ExLogIssued, ExTypeOK, ExGranting
    <2>3. ExSafeAt(w)'
      BY <1>6, <1>11, <2>2 DEF ExLogIssued, ExMarked, ExAccepted
    <2> QED BY <1>2, <1>11, <2>3 DEF ExLogIssued, ExTypeOK
  <1>12. ASSUME NEW w \in Exchangers, ExRespond(w) \/ ExFail(w)
         PROVE  ExSafe'
    BY <1>2, <1>7, <1>12 DEF ExRespond, ExFail, ExTypeOK
  <1> QED
    BY <1>1, <1>3, <1>4, <1>5, <1>8, <1>9, <1>10, <1>11, <1>12 DEF ExNext

---------------------------------------------------------------------------
(* The rows of the tokens it signs                                         *)

\* A request stores the token that it signed for its user before it goes on.
ExRecorded ==
    \A w \in Exchangers :
        /\ ex[w].pc = "store" => jwt[ex[w].acc].user = ex[w].user
        /\ ex[w].pc \in {"refresh", "log", "respond"} => access[ex[w].acc] # NoRow

\* The steps of everyone else.
LEMMA ExRecordedKept ==
    ASSUME StoreTypeOK, ExTypeOK, ExKnown, StoreStep, ExRecorded, UNCHANGED ex
    PROVE  ExRecorded'
  BY RecordKept DEF ExTypeOK, ExKnown, ExRecorded

\* The code grant.
LEMMA ExRecords ==
    ASSUME StoreTypeOK, ExTypeOK, ExKnown,
           StoreTypeOK', ExTypeOK', ExKnown', StoreStep, RowsMatch, ExRecorded,
           HeldStored, ExNext
    PROVE  RowsMatch' /\ ExRecorded' /\ HeldStored'
  <1> DEFINE Goal == RowsMatch' /\ ExRecorded' /\ HeldStored'
  <1>1. UNCHANGED access => RowsMatch'
    BY RowsKept
  <1>2. UNCHANGED held => HeldStored'
    BY HeldStoredKept
  <1>3. ASSUME NEW w \in Exchangers, \A v \in Exchangers \ {w} : ex'[v] = ex[v],
               ex'[w].pc = "store" => jwt'[ex'[w].acc].user = ex'[w].user,
               ex'[w].pc \in {"refresh", "log", "respond"} => access'[ex'[w].acc] # NoRow
        PROVE  ExRecorded'
    BY <1>3, RecordKept, SMT DEF ExTypeOK, ExKnown, ExRecorded
  <1>4. ASSUME NEW w \in Exchangers, \A v \in Exchangers \ {w} : ex'[v] = ex[v],
               ex'[w].pc \in {"idle", "code", "mark", "sign"}
        PROVE  ExRecorded'
    BY <1>3, <1>4
  <1>5. ASSUME NEW k \in Codes, NEW c \in Clients, NEW u \in Users, NEW uri \in Uris,
               NEW off \in BOOLEAN, IssueCode(k, c, u, uri, off)
        PROVE  Goal
    BY <1>1, <1>2, <1>5, ExRecordedKept DEF IssueCode, exVars
  <1>6. ASSUME NEW w \in Exchangers, NEW k \in Codes, NEW c \in Clients, NEW uri \in Uris,
               ExGetClient(w, k, c, uri)
        PROVE  Goal
    BY <1>1, <1>2, <1>4, <1>6 DEF ExGetClient, storeVars, ExTypeOK
  <1>7. ASSUME NEW w \in Exchangers, ExGetAuthorizationCode(w)
        PROVE  Goal
    BY <1>1, <1>2, <1>4, <1>7, SMT DEF ExGetAuthorizationCode, ExCheckCode, storeVars, ExTypeOK, ExIdle
  <1>8. ASSUME NEW w \in Exchangers, ExMarkUsed(w)
        PROVE  Goal
    <2>1. ex[w] \in ExGranting
      BY <1>8, ExShape DEF ExMarkUsed, ExAccepted
    <2> QED BY <1>1, <1>2, <1>4, <1>8, <2>1, SMT DEF ExMarkUsed, ExTypeOK, ExIdle, ExGranting
  <1>9. ASSUME NEW w \in Exchangers, NEW a \in AccessIds, ExGenerate(w, a)
        PROVE  Goal
    <2>1. ex[w] \in ExGranting
      BY <1>9, ExShape DEF ExGenerate, ExAccepted
    <2>2. /\ \A v \in Exchangers \ {w} : ex'[v] = ex[v]
          /\ ex'[w].pc = "store" /\ ex'[w].acc = a /\ ex'[w].user = ex[w].user
      BY <1>9, <2>1 DEF ExGenerate, ExTypeOK, ExGranting
    <2>3. jwt'[a].user = ex[w].user
      BY <1>9 DEF ExGenerate, GenerateAccessToken, StoreTypeOK
    <2>4. ExRecorded'
      BY <1>3, <2>2, <2>3
    <2> QED BY <1>1, <1>2, <1>9, <2>4 DEF ExGenerate
  <1>10. ASSUME NEW w \in Exchangers, ExCreateAccessToken(w)
         PROVE  Goal
    <2>1. ex[w] \in ExGranting /\ ex[w].acc \in AccessIds /\ jwt[ex[w].acc] \in Claims
      BY <1>10, ExShape DEF ExCreateAccessToken, ExTypeOK, ExAccepted, ExKnown, StoreTypeOK
    <2>2. PICK e \in RowExpiry(ex[w].acc) :
             CreateAccessToken(ex[w].acc, [client |-> ex[w].client, user |-> ex[w].user,
                                           expires |-> e, revoked |-> FALSE])
      BY <1>10 DEF ExCreateAccessToken
    <2> DEFINE row == [client |-> ex[w].client, user |-> ex[w].user,
                       expires |-> e, revoked |-> FALSE]
    <2>3. row \in AccessRow
      <3>1. e \in Nat
        BY <2>1, StoreAssumption, SMT DEF RowExpiry, Claims, StoreTypeOK
      <3> QED BY <2>1, <3>1 DEF ExGranting, AccessRow
    <2>4. /\ row.user = jwt[ex[w].acc].user /\ row.expires \in RowExpiry(ex[w].acc)
          /\ CreateAccessToken(ex[w].acc, row) /\ UNCHANGED <<now, jwt, held>>
          /\ jwt[ex[w].acc] # NoRow
      BY <1>10, <2>2 DEF ExCreateAccessToken, ExRecorded, ExKnown
    <2> HIDE DEF row
    <2>5. RowsMatch'
      BY <2>1, <2>3, <2>4, RowInserted
    <2>6. access'[ex[w].acc] # NoRow
      BY <2>1, <2>3, <2>4, RowAssumption DEF CreateAccessToken, StoreTypeOK
    <2>7. /\ \A v \in Exchangers \ {w} : ex'[v] = ex[v]
          /\ ex'[w].pc # "store" /\ ex'[w].acc = ex[w].acc
      BY <1>10, <2>1 DEF ExCreateAccessToken, ExTypeOK, ExGranting
    <2>8. ExRecorded'
      BY <1>3, <2>6, <2>7
    <2> QED BY <1>2, <2>4, <2>5, <2>8
  <1>11. ASSUME NEW w \in Exchangers, ex[w].pc \in {"refresh", "log"}, UNCHANGED <<access, held>>,
                \/ ex'[w].pc = "idle"
                \/ ex'[w].pc \in {"log", "respond"} /\ ex'[w].acc = ex[w].acc,
                \A v \in Exchangers \ {w} : ex'[v] = ex[v]
         PROVE  Goal
    BY <1>1, <1>2, <1>3, <1>11 DEF ExRecorded
  <1>12. ASSUME NEW w \in Exchangers, NEW r \in RefreshIds, ExCreateRefreshToken(w, r)
         PROVE  Goal
    <2>1. ex[w] \in ExGranting
      BY <1>12, ExShape DEF ExCreateRefreshToken, ExAccepted
    <2> QED BY <1>11, <1>12, <2>1, SMT DEF ExCreateRefreshToken, ExTypeOK, ExGranting, ExIdle
  <1>13. ASSUME NEW w \in Exchangers, ExLogIssued(w)
         PROVE  Goal
    <2>1. ex[w] \in ExGranting
      BY <1>13, ExShape DEF ExLogIssued, ExAccepted
    <2> QED BY <1>11, <1>13, <2>1 DEF ExLogIssued, ExTypeOK, ExGranting
  <1>14. ASSUME NEW w \in Exchangers, ExRespond(w)
         PROVE  Goal
    <2>1. ex[w].acc \in AccessIds /\ access[ex[w].acc] # NoRow
      BY <1>14 DEF ExRespond, ExTypeOK, ExRecorded
    <2>2. ex[w].ref \in RefreshIds \cup {None}
      BY <1>14, ExShape DEF ExRespond, ExAccepted, ExGranting
    <2>3. HeldStored'
      BY <1>14, <2>1, <2>2, StoreAssumption DEF ExRespond, HeldStored
    <2> QED BY <1>1, <1>4, <1>14, <2>3 DEF ExRespond, ExTypeOK, ExIdle
  <1>15. ASSUME NEW w \in Exchangers, ExFail(w)
         PROVE  Goal
    BY <1>1, <1>2, <1>4, <1>15 DEF ExFail, storeVars, ExTypeOK, ExIdle
  <1> QED BY <1>5, <1>6, <1>7, <1>8, <1>9, <1>10, <1>12, <1>13, <1>14, <1>15 DEF ExNext

---------------------------------------------------------------------------
(* SingleUse, as long as no two requests present the same code             *)

\* From the lookup of a code to the insert of its access token.
ExUnspent == {"mark", "sign", "store"}

\* The inductive form of SingleUse: a request that is going to insert an access
\* token is the first one for its code.
ExFirst ==
    /\ SingleUse
    /\ \A w \in Exchangers :
          ex[w].pc \in ExUnspent => \A g \in grants : g[1] # ex[w].code

\* The steps of everyone else.
LEMMA ExFirstKept ==
    ASSUME ExFirst, UNCHANGED exVars
    PROVE  ExFirst'
  BY DEF ExFirst, SingleUse, exVars

\* A request that moves without inserting an access token, and starts to work
\* towards one only with a code that nothing was granted for.
LEMMA ExFirstMove ==
    ASSUME ExFirst, NEW w \in Exchangers, UNCHANGED grants,
           \A v \in Exchangers \ {w} : ex'[v] = ex[v],
           ex'[w].pc \in ExUnspent => \A g \in grants : g[1] # ex'[w].code
    PROVE  ExFirst'
  BY DEF ExFirst, SingleUse

\* The actions of the code grant: the lookup refuses a code that was granted for,
\* which is burned, and the insert cannot overtake another request for its code.
LEMMA ExFirstStep ==
    ASSUME StoreTypeOK, ExTypeOK, ExSafe, CodesApart, ExFirst, ExNext
    PROVE  ExFirst'
  <1>1. ASSUME NEW k \in Codes, NEW c \in Clients, NEW u \in Users, NEW uri \in Uris,
               NEW off \in BOOLEAN, IssueCode(k, c, u, uri, off)
        PROVE  ExFirst'
    BY <1>1, ExFirstKept DEF IssueCode
  <1>2. ASSUME NEW w \in Exchangers, NEW k \in Codes, NEW c \in Clients, NEW uri \in Uris,
               ExGetClient(w, k, c, uri)
        PROVE  ExFirst'
    BY <1>2, ExFirstMove DEF ExGetClient, ExTypeOK, ExUnspent
  <1>3. ASSUME NEW w \in Exchangers, ExGetAuthorizationCode(w)
        PROVE  ExFirst'
    <2>1. \/ ex'[w] = ExIdle
          \/ /\ ex'[w].pc = "mark" /\ ex'[w].code = ex[w].code
             /\ Redeemable(ex[w].code, ex[w].client, ex[w].uri)
      BY <1>3, SMT DEF ExGetAuthorizationCode, ExCheckCode, ExTypeOK
    <2>2. /\ UNCHANGED grants
          /\ \A v \in Exchangers \ {w} : ex'[v] = ex[v]
      BY <1>3 DEF ExGetAuthorizationCode, ExCheckCode, ExTypeOK
    <2>3. Redeemable(ex[w].code, ex[w].client, ex[w].uri) =>
             \A g \in grants : g[1] # ex[w].code
      BY DEF Redeemable, ExSafe, Burned, IsCode
    <2> QED BY <2>1, <2>2, <2>3, ExFirstMove, SMT DEF ExIdle, ExUnspent
  <1>4. ASSUME NEW w \in Exchangers, ExMarkUsed(w) \/ \E a \in AccessIds : ExGenerate(w, a)
        PROVE  ExFirst'
    <2>1. /\ UNCHANGED grants
          /\ \A v \in Exchangers \ {w} : ex'[v] = ex[v]
      BY <1>4 DEF ExMarkUsed, ExGenerate, ExTypeOK
    <2>2. ex[w] \in ExGranting /\ ex[w].pc \in ExUnspent
      BY <1>4, ExShape DEF ExMarkUsed, ExGenerate, ExAccepted, ExUnspent
    <2>3. ex'[w] = ExIdle \/ ex'[w].code = ex[w].code
      BY <1>4, <2>2, SMT DEF ExMarkUsed, ExGenerate, ExTypeOK, ExGranting
    <2>4. ex'[w].pc \in ExUnspent => \A g \in grants : g[1] # ex'[w].code
      BY <2>2, <2>3, SMT DEF ExFirst, ExIdle, ExUnspent
    <2> QED BY <2>1, <2>4, ExFirstMove
  <1>5. ASSUME NEW w \in Exchangers, ExCreateAccessToken(w)
        PROVE  ExFirst'
    <2>1. ex[w] \in ExGranting /\ ex[w].pc = "store"
      BY <1>5, ExShape DEF ExCreateAccessToken, ExAccepted
    <2>2. \A g \in grants : g[1] # ex[w].code
      BY <2>1 DEF ExFirst, ExUnspent
    <2>3. grants' = grants \cup {<<ex[w].code, ex[w].acc>>}
      BY <1>5 DEF ExCreateAccessToken
    <2>4. SingleUse'
      BY <2>2, <2>3, SMT DEF ExFirst, SingleUse
    <2>5. ex'[w].pc \notin ExUnspent
      BY <1>5, <2>1 DEF ExCreateAccessToken, ExTypeOK, ExGranting, ExUnspent
    <2>6. ASSUME NEW v \in Exchangers, ex'[v].pc \in ExUnspent, NEW g \in grants'
          PROVE  g[1] # ex'[v].code
      <3>1. v # w /\ ex'[v] = ex[v]
        BY <1>5, <2>5, <2>6 DEF ExCreateAccessToken, ExTypeOK
      <3>2. ex[v].code # ex[w].code
        BY <2>1, <2>6, <3>1 DEF CodesApart, ExUnspent
      <3> QED BY <2>3, <2>6, <3>1, <3>2, SMT DEF ExFirst
    <2> QED BY <2>4, <2>6 DEF ExFirst
  <1>6. ASSUME NEW w \in Exchangers,
               \/ \E r \in RefreshIds : ExCreateRefreshToken(w, r)
               \/ ExLogIssued(w)
               \/ ExRespond(w)
               \/ ExFail(w)
        PROVE  ExFirst'
    <2>1. /\ UNCHANGED grants
          /\ \A v \in Exchangers \ {w} : ex'[v] = ex[v]
      BY <1>6 DEF ExCreateRefreshToken, ExLogIssued, ExRespond, ExFail, ExTypeOK
    <2>2. ex'[w] = ExIdle \/ ex'[w].pc \in {"log", "respond"}
      <3>1. ASSUME NEW r \in RefreshIds, ExCreateRefreshToken(w, r)
            PROVE  ex'[w] = ExIdle \/ ex'[w].pc = "log"
        <4>1. ex[w] \in ExGranting
          BY <3>1, ExShape DEF ExCreateRefreshToken, ExAccepted
        <4> QED BY <3>1, <4>1, SMT DEF ExCreateRefreshToken, ExTypeOK, ExGranting
      <3>2. ASSUME ExLogIssued(w)
            PROVE  ex'[w].pc = "respond"
        <4>1. ex[w] \in ExGranting
          BY <3>2, ExShape DEF ExLogIssued, ExAccepted
        <4> QED BY <3>2, <4>1 DEF ExLogIssued, ExTypeOK, ExGranting
      <3> QED BY <1>6, <3>1, <3>2 DEF ExRespond, ExFail, ExTypeOK
    <2> QED BY <2>1, <2>2, ExFirstMove, SMT DEF ExIdle, ExUnspent
  <1> QED BY <1>1, <1>2, <1>3, <1>4, <1>5, <1>6 DEF ExNext

---------------------------------------------------------------------------

\* The code grant opens no session: its access tokens belong to a client.
LEMMA ExOpensNone ==
    ASSUME StoreTypeOK, ExTypeOK, ExNext
    PROVE  NoNewSession
  <1>1. ASSUME NEW w \in Exchangers, ExCreateAccessToken(w)
        PROVE  NoNewSession
    <2>1. ex[w].client \in Clients /\ ex[w].client # None
      BY <1>1, ExShape, StoreAssumption DEF ExCreateAccessToken, ExAccepted, ExGranting
    <2>2. \A a \in AccessIds : access'[a] = access[a] \/ access'[a].client = ex[w].client
      BY <1>1, SMT DEF ExCreateAccessToken, CreateAccessToken, StoreTypeOK
    <2> QED BY <2>1, <2>2, OpensNone
  <1> QED BY <1>1, UnchangedOpensNone, ZenonT(30)
      DEF ExNext, IssueCode, ExGetClient, ExGetAuthorizationCode, ExCheckCode, ExMarkUsed,
          ExGenerate, ExCreateRefreshToken, ExLogIssued, ExRespond, ExFail, storeVars
=============================================================================
