-------------------------- MODULE RotationProofs --------------------------
(***************************************************************************)
(* Rotation by itself: its actions keep the types, do to the tables only   *)
(* what StoreStep allows, keep RotSafe (the inductive form of Lineage) and *)
(* never revive a dead family.                                             *)
(***************************************************************************)
EXTENDS Rotation, SessionProofs

\* Zenon proves the leaves that cite no other prover.
USE Zenon

\* Every token that a request carries exists.
RotKnown ==
    \A w \in Rotators :
        /\ rot[w].pc # "idle" => refresh[rot[w].tok] # NoRow
        /\ rot[w].pc \in {"store", "refresh", "log", "respond"} => jwt[rot[w].acc] # NoRow
        /\ rot[w].pc \in {"log", "respond"} => refresh[rot[w].new] # NoRow

---------------------------------------------------------------------------

\* Where a request is says which fields it has.
LEMMA RotShape ==
    ASSUME RotTypeOK, NEW w \in Rotators
    PROVE  /\ rot[w] = RotIdle \/ rot[w] \in RotLooking \/ rot[w] \in RotWorking
           /\ rot[w].pc = "idle" => rot[w] = RotIdle
           /\ rot[w].pc = "lookup" => rot[w] \in RotLooking
           /\ rot[w].pc \notin {"idle", "lookup"} => rot[w] \in RotWorking
           /\ rot[w].pc # "idle" => rot[w].tok \in RefreshIds
  BY SMT DEF RotTypeOK, RotIdle, RotLooking, RotWorking, RotMinting, RotMarked

\* A request that moves on to a well-formed state.
LEMMA RotMove ==
    ASSUME RotTypeOK, NEW w \in Rotators, NEW q \in RotWorking,
           q.pc \in {"store", "refresh", "log", "respond"} => q.acc \in AccessIds,
           q.pc \in {"log", "respond"} => q.new \in RefreshIds,
           rot' = [rot EXCEPT ![w] = q], swept' \subseteq RefreshIds
    PROVE  RotTypeOK'
  BY DEF RotTypeOK

\* A request that ends.
LEMMA RotEnd ==
    ASSUME RotTypeOK, NEW w \in Rotators, rot' = [rot EXCEPT ![w] = RotIdle],
           UNCHANGED swept
    PROVE  RotTypeOK'
  BY DEF RotTypeOK, RotIdle

\* What a request knows stays true while it does not move.
LEMMA RotKnownAt ==
    ASSUME RotTypeOK, RotKnown, StoreStep, NEW w \in Rotators, rot'[w] = rot[w]
    PROVE  /\ rot'[w].pc # "idle" => refresh'[rot'[w].tok] # NoRow
           /\ rot'[w].pc \in {"store", "refresh", "log", "respond"} =>
                 jwt'[rot'[w].acc] # NoRow
           /\ rot'[w].pc \in {"log", "respond"} => refresh'[rot'[w].new] # NoRow
  BY RotShape, SMT DEF RotTypeOK, RotKnown, StoreStep, RefreshStep, JwtStep, IsRefresh

\* The steps of everyone else keep what the requests know.
LEMMA RotKept ==
    ASSUME RotTypeOK, RotKnown, StoreStep, UNCHANGED rotVars
    PROVE  RotTypeOK' /\ RotKnown'
  BY RotKnownAt DEF RotTypeOK, RotKnown, rotVars

\* Every action of Rotation keeps the types and what is known, and does to the
\* tables only what StoreStep allows.
LEMMA RotStep ==
    ASSUME StoreTypeOK, RotTypeOK, RotKnown, HeldKnown, RotNext
    PROVE  StoreTypeOK' /\ RotTypeOK' /\ RotKnown' /\ HeldKnown' /\ StoreStep
  <1> USE DEF StoreTypeOK, CodesType, AccessType, RefreshType, JwtType
  <1> DEFINE Goal == StoreTypeOK' /\ RotTypeOK' /\ RotKnown' /\ HeldKnown' /\ StoreStep
             Tables == StoreTypeOK' /\ StoreStep
  <1>0. ASSUME NEW w \in Rotators, NEW q, rot' = [rot EXCEPT ![w] = q], StoreStep,
               q.pc # "idle" => refresh'[q.tok] # NoRow,
               q.pc \in {"store", "refresh", "log", "respond"} => jwt'[q.acc] # NoRow,
               q.pc \in {"log", "respond"} => refresh'[q.new] # NoRow
        PROVE  RotKnown'
    <2> SUFFICES ASSUME NEW v \in Rotators
                 PROVE  /\ rot'[v].pc # "idle" => refresh'[rot'[v].tok] # NoRow
                        /\ rot'[v].pc \in {"store", "refresh", "log", "respond"} =>
                              jwt'[rot'[v].acc] # NoRow
                        /\ rot'[v].pc \in {"log", "respond"} => refresh'[rot'[v].new] # NoRow
      BY DEF RotKnown
    <2>1. CASE v = w
      BY <1>0, <2>1 DEF RotTypeOK
    <2>2. CASE v # w
      BY <1>0, <2>2, RotKnownAt DEF RotTypeOK
    <2> QED BY <2>1, <2>2
  <1>1. ASSUME NEW w \in Rotators, NEW t \in RefreshIds, NEW c \in Clients,
               RotGetClient(w, t, c)
        PROVE  Goal
    <2> DEFINE q == [pc |-> "lookup", tok |-> t, client |-> c]
    <2>1. q \in RotLooking /\ q.pc = "lookup" /\ q.tok = t
      BY DEF RotLooking
    <2>2. rot' = [rot EXCEPT ![w] = q] /\ refresh'[t] # NoRow
      BY <1>1 DEF RotGetClient, HeldKnown, storeVars
    <2> HIDE DEF q
    <2>3. Tables
      BY <1>1, StutterStep, SMT DEF RotGetClient, storeVars, StoreStep
    <2>4. RotTypeOK'
      BY <1>1, <2>1, <2>2, SMT DEF RotTypeOK, RotGetClient
    <2>5. RotKnown'
      BY <1>0, <2>1, <2>2, <2>3
    <2> QED BY <1>1, <2>3, <2>4, <2>5, HeldKept DEF RotGetClient, storeVars
  <1>2. ASSUME NEW w \in Rotators, rot' = [rot EXCEPT ![w] = RotIdle], UNCHANGED swept,
               Tables
        PROVE  RotTypeOK' /\ RotKnown'
    BY <1>0, <1>2, RotEnd DEF RotIdle
  <1>3. ASSUME NEW w \in Rotators, RotLookup(w)
        PROVE  Goal
    <2>1. Tables
      BY <1>3, StutterStep, SMT DEF RotLookup, RotDecide, storeVars, StoreStep
    <2>2. ASSUME NEW label \in {"mark", "sweep"},
                 rot' = [rot EXCEPT ![w] = RotContinue(w, label)]
          PROVE  RotTypeOK' /\ RotKnown'
      <3>1. rot[w] \in RotLooking /\ refresh[rot[w].tok] \in RefreshRow
        BY <1>3, RotShape DEF RotLookup, RotDecide, RotKnown, RotLooking
      <3>2. RotContinue(w, label) \in RotWorking /\ RotContinue(w, label).pc = label
            /\ RotContinue(w, label).tok = rot[w].tok
        BY <3>1 DEF RotContinue, RotWorking, RotLooking, RefreshRow, RotMinting
      <3>3. UNCHANGED <<swept, refresh>>
        BY <1>3 DEF RotLookup, RotDecide, storeVars
      <3>4. RotTypeOK'
        BY <2>2, <3>2, <3>3, RotMove DEF RotTypeOK
      <3>5. refresh'[rot[w].tok] # NoRow
        BY <1>3, <3>3 DEF RotLookup, RotDecide, RotKnown
      <3>6. RotKnown'
        BY <1>0, <2>1, <2>2, <3>2, <3>5
      <3> QED BY <3>4, <3>6
    <2>3. RotTypeOK' /\ RotKnown'
      BY <1>2, <1>3, <2>1, <2>2 DEF RotLookup, RotDecide
    <2> QED BY <1>3, <2>1, <2>3, HeldKept DEF RotLookup, RotDecide, storeVars
  <1>4. ASSUME NEW w \in Rotators, RotRevokeFamily(w)
        PROVE  Goal
    <2>1. rot[w] \in RotWorking
      BY <1>4, RotShape DEF RotRevokeFamily
    <2> DEFINE q == [rot[w] EXCEPT !.pc = "logReplay"]
    <2>2. q \in RotWorking /\ q.pc = "logReplay" /\ q.tok = rot[w].tok
      BY <2>1 DEF RotWorking
    <2>3. rot' = [rot EXCEPT ![w] = q]
      BY <1>4 DEF RotRevokeFamily, RotTypeOK
    <2> HIDE DEF q
    <2>4. RefreshType' /\ RefreshStep
      BY <1>4, RevokeRefreshTokenFamilyStep, StutterStep DEF RotRevokeFamily, RevokeReasons
    <2>5. Tables
      BY <1>4, <2>4, StutterStep, SMT DEF RotRevokeFamily, StoreStep
    <2>6. swept' \subseteq RefreshIds
      BY <1>4, <2>1, ZenonT(30) DEF RotRevokeFamily, RotTypeOK, RotWorking
    <2>7. RotTypeOK'
      BY <2>2, <2>3, <2>6, RotMove
    <2>8. refresh'[rot[w].tok] # NoRow
      BY <1>4, <2>1, <2>4 DEF RotRevokeFamily, RotKnown, RefreshStep, IsRefresh, RotWorking
    <2>9. RotKnown'
      BY <1>0, <2>2, <2>3, <2>5, <2>8
    <2> QED BY <1>4, <2>5, <2>7, <2>9, HeldKept DEF RotRevokeFamily
  <1>5. ASSUME NEW w \in Rotators, RotLogReplay(w)
        PROVE  Goal
    <2>1. rot[w] \in RotWorking
      BY <1>5, RotShape DEF RotLogReplay
    <2>2. audit' \subseteq AuditRow
      BY <1>5, <2>1, SMT DEF RotLogReplay, AuditRow, RotWorking
    <2>3. Tables
      BY <1>5, <2>2, StutterStep, SMT DEF RotLogReplay, StoreStep
    <2> QED BY <1>2, <1>5, <2>3, HeldKept DEF RotLogReplay
  <1>6. ASSUME NEW w \in Rotators, RotMarkUsed(w)
        PROVE  Goal
    <2>1. rot[w] \in RotWorking
      BY <1>6, RotShape DEF RotMarkUsed
    <2> DEFINE q == [rot[w] EXCEPT !.pc = "sign"]
    <2>2. q \in RotWorking /\ q.pc = "sign" /\ q.tok = rot[w].tok
      BY <2>1 DEF RotWorking, RotMarked
    <2>3. rot' = [rot EXCEPT ![w] = q]
      BY <1>6 DEF RotMarkUsed, RotTypeOK
    <2> HIDE DEF q
    <2>4. RefreshType' /\ RefreshStep
      BY <1>6, <2>1, MarkRefreshTokenUsedStep DEF RotMarkUsed, RotKnown, IsRefresh, RotWorking
    <2>5. Tables
      BY <1>6, <2>4, StutterStep, SMT DEF RotMarkUsed, StoreStep
    <2>6. RotTypeOK'
      BY <1>6, <2>2, <2>3, RotMove DEF RotMarkUsed, RotTypeOK
    <2>7. refresh'[rot[w].tok] # NoRow
      BY <1>6, <2>1, <2>4 DEF RotMarkUsed, RotKnown, RefreshStep, IsRefresh, RotWorking
    <2>8. RotKnown'
      BY <1>0, <2>2, <2>3, <2>5, <2>7
    <2> QED BY <1>6, <2>5, <2>6, <2>8, HeldKept DEF RotMarkUsed
  <1>7. ASSUME NEW w \in Rotators, NEW a \in AccessIds, RotGenerate(w, a)
        PROVE  Goal
    <2>1. rot[w] \in RotWorking /\ refresh[rot[w].tok] # NoRow
      BY <1>7, RotShape DEF RotGenerate, RotKnown
    <2> DEFINE q == [rot[w] EXCEPT !.pc = "store", !.acc = a]
    <2>2. q \in RotWorking /\ q.pc = "store" /\ q.acc = a /\ q.tok = rot[w].tok
      BY <2>1 DEF RotWorking, RotMarked
    <2>3. rot' = [rot EXCEPT ![w] = q]
      BY <1>7 DEF RotGenerate, RotTypeOK
    <2> HIDE DEF q
    <2>4. JwtType' /\ JwtStep /\ jwt'[a] # NoRow
      BY <1>7, <2>1, GenerateAccessTokenStep DEF RotGenerate, RotWorking
    <2>5. Tables
      BY <1>7, <2>4, StutterStep, SMT DEF RotGenerate, StoreStep
    <2>6. RotTypeOK'
      BY <1>7, <2>2, <2>3, RotMove, ZenonT(30) DEF RotGenerate, RotTypeOK
    <2>7. refresh'[q.tok] # NoRow
      BY <1>7, <2>1, <2>2 DEF RotGenerate
    <2>8. RotKnown'
      BY <1>0, <2>2, <2>3, <2>4, <2>5, <2>7
    <2> QED BY <1>7, <2>5, <2>6, <2>8, HeldKept DEF RotGenerate
  <1>8. ASSUME NEW w \in Rotators, RotCreateAccessToken(w)
        PROVE  Goal
    <2>1. /\ rot[w] \in RotWorking /\ rot[w].acc \in AccessIds
          /\ refresh[rot[w].tok] # NoRow /\ jwt[rot[w].acc] # NoRow
      BY <1>8, RotShape DEF RotCreateAccessToken, RotTypeOK, RotKnown
    <2>2. PICK e \in RowExpiry(rot[w].acc) :
             CreateAccessToken(rot[w].acc,
                 [client |-> rot[w].client, user |-> rot[w].user,
                  expires |-> e, revoked |-> FALSE])
      BY <1>8 DEF RotCreateAccessToken
    <2>3. e \in Nat
      BY <2>1, StoreAssumption, RowAssumption, SMT DEF RowExpiry, Claims
    <2>4. AccessType' /\ AccessStep
      BY <2>1, <2>2, <2>3, CreateAccessTokenStep DEF AccessRow, RotWorking
    <2> DEFINE q == [rot[w] EXCEPT !.pc = "refresh"]
    <2>5. /\ q \in RotWorking /\ q.pc = "refresh"
          /\ q.acc = rot[w].acc /\ q.tok = rot[w].tok
      BY <2>1 DEF RotWorking, RotMarked
    <2>6. rot' = [rot EXCEPT ![w] = q]
      BY <1>8 DEF RotCreateAccessToken, RotTypeOK
    <2> HIDE DEF q
    <2>7. Tables
      BY <1>8, <2>4, StutterStep, SMT DEF RotCreateAccessToken, StoreStep
    <2>8. RotTypeOK'
      BY <1>8, <2>1, <2>5, <2>6, RotMove, ZenonT(30) DEF RotCreateAccessToken, RotTypeOK
    <2>9. refresh'[q.tok] # NoRow /\ jwt'[q.acc] # NoRow
      BY <1>8, <2>1, <2>5 DEF RotCreateAccessToken
    <2>10. RotKnown'
      BY <1>0, <2>5, <2>6, <2>7, <2>9
    <2> QED BY <1>8, <2>7, <2>8, <2>10, HeldKept DEF RotCreateAccessToken
  <1>9. ASSUME NEW w \in Rotators, NEW r \in RefreshIds, RotCreateRefreshToken(w, r)
        PROVE  Goal
    <2>1. /\ rot[w] \in RotWorking /\ rot[w].acc \in AccessIds
          /\ refresh[rot[w].tok] # NoRow /\ jwt[rot[w].acc] # NoRow
      BY <1>9, RotShape DEF RotCreateRefreshToken, RotTypeOK, RotKnown
    <2>2. CASE IsAccess(rot[w].acc)
      <3> DEFINE q == [rot[w] EXCEPT !.pc = "log", !.new = r]
                 row == [family |-> rot[w].family, client |-> rot[w].client,
                         user |-> rot[w].user, access |-> rot[w].acc,
                         prev |-> rot[w].tok, expires |-> now + RefreshTTL,
                         revoked |-> FALSE, reason |-> None]
      <3>1. row \in RefreshRow
        BY <2>1, StoreAssumption, SMT DEF RefreshRow, RotWorking
      <3>2. /\ q \in RotWorking /\ q.pc = "log" /\ q.new = r
            /\ q.acc = rot[w].acc /\ q.tok = rot[w].tok
        BY <2>1 DEF RotWorking, RotMarked
      <3>3. rot' = [rot EXCEPT ![w] = q] /\ CreateRefreshToken(r, row)
        BY <1>9, <2>2 DEF RotCreateRefreshToken, RotTypeOK
      <3> HIDE DEF q, row
      <3>4. RefreshType' /\ RefreshStep
        BY <3>1, <3>3, CreateRefreshTokenStep
      <3>5. /\ refresh'[r] # NoRow /\ refresh'[rot[w].tok] # NoRow
            /\ jwt'[rot[w].acc] # NoRow
        BY <1>9, <2>1, <3>1, <3>3, <3>4, RowAssumption, ZenonT(30)
        DEF RotCreateRefreshToken, CreateRefreshToken, RefreshStep, IsRefresh, RotWorking
      <3>6. Tables
        BY <1>9, <3>4, StutterStep, SMT DEF RotCreateRefreshToken, StoreStep
      <3>7. RotTypeOK'
        BY <1>9, <2>1, <3>2, <3>3, RotMove DEF RotCreateRefreshToken, RotTypeOK
      <3>8. RotKnown'
        BY <1>0, <3>2, <3>3, <3>5, <3>6
      <3> QED BY <1>9, <3>6, <3>7, <3>8, HeldKept DEF RotCreateRefreshToken
    <2>3. CASE ~IsAccess(rot[w].acc)
      <3>1. Tables
        BY <1>9, <2>3, StutterStep, SMT DEF RotCreateRefreshToken, StoreStep
      <3> QED BY <1>2, <1>9, <2>3, <3>1, HeldKept DEF RotCreateRefreshToken
    <2> QED BY <2>2, <2>3
  <1>10. ASSUME NEW w \in Rotators, RotLogRotated(w)
         PROVE  Goal
    <2>1. /\ rot[w] \in RotWorking /\ rot[w].acc \in AccessIds /\ rot[w].new \in RefreshIds
          /\ refresh[rot[w].tok] # NoRow /\ jwt[rot[w].acc] # NoRow
          /\ refresh[rot[w].new] # NoRow
      BY <1>10, RotShape DEF RotLogRotated, RotTypeOK, RotKnown
    <2> DEFINE q == [rot[w] EXCEPT !.pc = "respond"]
    <2>2. /\ q \in RotWorking /\ q.pc = "respond" /\ q.new = rot[w].new
          /\ q.acc = rot[w].acc /\ q.tok = rot[w].tok
      BY <2>1 DEF RotWorking, RotMarked
    <2>3. rot' = [rot EXCEPT ![w] = q]
      BY <1>10 DEF RotLogRotated, RotTypeOK
    <2> HIDE DEF q
    <2>4. audit' \subseteq AuditRow
      BY <1>10, <2>1, SMT DEF RotLogRotated, LogEvent, AuditRow, RotWorking
    <2>5. Tables
      BY <1>10, <2>4, StutterStep, SMT DEF RotLogRotated, StoreStep
    <2>6. RotTypeOK'
      BY <1>10, <2>1, <2>2, <2>3, RotMove DEF RotLogRotated, RotTypeOK
    <2>7. RotKnown'
      <3>1. /\ refresh'[q.tok] # NoRow /\ jwt'[q.acc] # NoRow
            /\ refresh'[q.new] # NoRow
        BY <1>10, <2>1, <2>2 DEF RotLogRotated
      <3> QED BY <1>0, <2>3, <2>5, <3>1
    <2> QED BY <1>10, <2>5, <2>6, <2>7, HeldKept DEF RotLogRotated
  <1>11. ASSUME NEW w \in Rotators, RotRespond(w)
         PROVE  Goal
    <2>1. /\ rot[w].acc \in AccessIds /\ rot[w].new \in RefreshIds
          /\ jwt[rot[w].acc] # NoRow /\ refresh[rot[w].new] # NoRow
      BY <1>11 DEF RotRespond, RotTypeOK, RotKnown
    <2>2. Tables /\ HeldKnown'
      BY <1>11, <2>1, StutterStep, StoreAssumption, SMT DEF RotRespond, HeldKnown, StoreStep
    <2> QED BY <1>2, <1>11, <2>2 DEF RotRespond
  <1>12. ASSUME NEW w \in Rotators, RotFail(w)
         PROVE  Goal
    <2>1. Tables
      BY <1>12, StutterStep, SMT DEF RotFail, storeVars, StoreStep
    <2> QED BY <1>2, <1>12, <2>1, HeldKept DEF RotFail, storeVars
  <1> QED
    BY <1>1, <1>3, <1>4, <1>5, <1>6, <1>7, <1>8, <1>9, <1>10, <1>11, <1>12 DEF RotNext

---------------------------------------------------------------------------
(* Lineage                                                                 *)

\* What a request remembers of the row it was given.
RotBound(w) ==
    /\ rot[w].pc \notin {"idle", "lookup"} =>
          /\ refresh[rot[w].tok].family = rot[w].family
          /\ refresh[rot[w].tok].user = rot[w].user
    /\ rot[w].pc \in RotMinting => refresh[rot[w].tok].client = rot[w].client
    /\ rot[w].pc \notin {"idle", "lookup", "mark"} => refresh[rot[w].tok].revoked

\* The first token of every family is in the table.
Rooted == \A r \in RefreshIds : IsRefresh(r) => IsRefresh(refresh[r].family)

\* The inductive form of Lineage.
RotSafe ==
    /\ \A w \in Rotators : RotBound(w)
    /\ Lineage
    /\ Rooted

\* A request that does not move keeps what it remembers.
LEMMA RotBoundKept ==
    ASSUME RotTypeOK, RotKnown, StoreStep, NEW w \in Rotators, RotBound(w),
           rot'[w] = rot[w]
    PROVE  RotBound(w)'
  <1>1. CASE rot[w].pc \in {"idle", "lookup"}
    BY <1>1 DEF RotBound, RotMinting, RotMarked
  <1>2. CASE rot[w].pc \notin {"idle", "lookup"}
    BY <1>2, RotShape, SMT DEF RotKnown, RotBound, StoreStep, RefreshStep, IsRefresh, RotWorking
  <1> QED BY <1>1, <1>2

\* A new family has no lineage, and rows keep theirs.
LEMMA LineageKept ==
    ASSUME RefreshType, RefreshType', RefreshStep, RootsOnly, Lineage, Rooted
    PROVE  Lineage' /\ Rooted'
  <1>1. ASSUME NEW r \in RefreshIds, refresh'[r] # NoRow, refresh'[r].prev # None
        PROVE  LET p == refresh'[r].prev IN
               /\ refresh'[p] # NoRow
               /\ refresh'[p].revoked
               /\ refresh'[p].family = refresh'[r].family
               /\ refresh'[p].client = refresh'[r].client
               /\ refresh'[p].user = refresh'[r].user
    <2>1. IsRefresh(r)
      BY <1>1 DEF RootsOnly
    <2>2. refresh[r] \in RefreshRow
      BY <2>1 DEF RefreshType, IsRefresh
    <2>3. refresh[r].prev \in RefreshIds /\ refresh'[r].prev = refresh[r].prev
      BY <1>1, <2>1, <2>2 DEF RefreshStep, RefreshRow
    <2> QED BY <1>1, <2>1, <2>3, SMT DEF Lineage, RefreshStep, IsRefresh
  <1>2. Lineage'
    BY <1>1 DEF Lineage, IsRefresh
  <1>3. Rooted'
    BY ZenonT(30) DEF Rooted, RootsOnly, RefreshStep, RefreshType, RefreshRow, IsRefresh
  <1> QED BY <1>2, <1>3

\* The steps of everyone else keep RotSafe.
LEMMA RotSafeKept ==
    ASSUME StoreTypeOK, StoreTypeOK', RotTypeOK, RotKnown, RotSafe, StoreStep,
           RootsOnly, UNCHANGED rotVars
    PROVE  RotSafe'
  BY RotBoundKept, LineageKept DEF RotSafe, rotVars, StoreTypeOK, RefreshType, StoreStep

\* The actions of Rotation keep RotSafe.
LEMMA RotSafeStep ==
    ASSUME StoreTypeOK, StoreTypeOK', RotTypeOK, RotKnown, RotSafe, StoreStep, RotNext
    PROVE  RotSafe'
  <1>0. RefreshType /\ RefreshType'
    BY DEF StoreTypeOK, RefreshType
  <1> USE <1>0 DEF RefreshType
  <1>1. ASSUME NEW w \in Rotators, RotBound(w)', RootsOnly,
               \A v \in Rotators \ {w} : rot'[v] = rot[v]
        PROVE  RotSafe'
    <2>1. \A v \in Rotators : RotBound(v)'
      BY <1>1, RotBoundKept DEF RotSafe
    <2> QED BY <1>1, <2>1, LineageKept DEF RotSafe, StoreStep
  <1>2. ASSUME NEW w \in Rotators, rot'[w] = RotIdle
        PROVE  RotBound(w)'
    BY <1>2, SMT DEF RotBound, RotIdle, RotMinting, RotMarked
  <1>3. UNCHANGED refresh => RootsOnly
    BY DEF RootsOnly, IsRefresh
  <1>4. ASSUME NEW w \in Rotators, rot[w] \in RotWorking,
               rot'[w].tok = rot[w].tok, rot'[w].family = rot[w].family,
               rot'[w].user = rot[w].user, rot'[w].client = rot[w].client,
               rot'[w].pc \in RotMinting => rot[w].pc \in RotMinting,
               rot'[w].pc # "mark" => refresh'[rot[w].tok].revoked,
               rot'[w].pc \notin {"idle", "lookup"}
        PROVE  RotBound(w)'
    <2>1. /\ rot[w].tok \in RefreshIds /\ rot[w].pc \notin {"idle", "lookup"}
          /\ refresh[rot[w].tok] # NoRow
      BY <1>4 DEF RotWorking, RotMinting, RotMarked, RotKnown
    <2>2. /\ refresh'[rot[w].tok].family = rot[w].family
          /\ refresh'[rot[w].tok].user = rot[w].user
          /\ rot[w].pc \in RotMinting => refresh'[rot[w].tok].client = rot[w].client
      BY <2>1 DEF RotSafe, RotBound, StoreStep, RefreshStep, IsRefresh
    <2> QED BY <1>4, <2>2 DEF RotBound
  <1>5. ASSUME NEW w \in Rotators, NEW t \in RefreshIds, NEW c \in Clients,
               RotGetClient(w, t, c)
        PROVE  RotSafe'
    <2>1. RotBound(w)'
      BY <1>5 DEF RotGetClient, RotTypeOK, RotBound, RotMinting, RotMarked
    <2> QED BY <1>1, <1>3, <1>5, <2>1 DEF RotGetClient, storeVars, RotTypeOK
  <1>6. ASSUME NEW w \in Rotators, RotLookup(w)
        PROVE  RotSafe'
    <2>1. UNCHANGED refresh
      BY <1>6 DEF RotLookup, RotDecide, storeVars
    <2>2. CASE rot'[w] = RotIdle
      BY <1>1, <1>2, <1>3, <1>6, <2>1, <2>2 DEF RotLookup, RotDecide, RotTypeOK
    <2>3. CASE rot'[w] = RotContinue(w, "sweep") /\ refresh[rot[w].tok].revoked
      <3>1. RotBound(w)'
        BY <2>1, <2>3, SMT DEF RotContinue, RotBound, RotMinting, RotMarked
      <3> QED BY <1>1, <1>3, <1>6, <2>1, <3>1 DEF RotLookup, RotDecide, RotTypeOK
    <2>4. CASE rot'[w] = RotContinue(w, "mark") /\ ~RotForeign(w)
      <3>1. RotBound(w)'
        BY <2>1, <2>4, SMT DEF RotContinue, RotForeign, RotBound, RotMinting, RotMarked
      <3> QED BY <1>1, <1>3, <1>6, <2>1, <3>1 DEF RotLookup, RotDecide, RotTypeOK
    <2> QED BY <1>6, <2>2, <2>3, <2>4 DEF RotLookup, RotDecide, RotTypeOK
  <1>7. ASSUME NEW w \in Rotators, RotRevokeFamily(w)
        PROVE  RotSafe'
    <2>1. rot[w] \in RotWorking
      BY <1>7, RotShape DEF RotRevokeFamily
    <2>2. RootsOnly
      BY <1>3, <1>7 DEF RotRevokeFamily, RevokeRefreshTokenFamily, RootsOnly, IsRefresh
    <2>3. refresh'[rot[w].tok].revoked
      BY <1>7, <2>1 DEF RotRevokeFamily, RotSafe, RotBound, RotKnown, RotWorking, StoreStep,
                        RefreshStep, IsRefresh
    <2>4. RotBound(w)'
      BY <1>4, <1>7, <2>1, <2>3 DEF RotRevokeFamily, RotTypeOK, RotWorking, RotMinting
    <2> QED BY <1>1, <1>7, <2>2, <2>4 DEF RotRevokeFamily, RotTypeOK
  <1>8. ASSUME NEW w \in Rotators, RotMarkUsed(w)
        PROVE  RotSafe'
    <2>1. rot[w] \in RotWorking /\ rot[w].tok \in RefreshIds /\ IsRefresh(rot[w].tok)
      BY <1>8, RotShape DEF RotMarkUsed, RotKnown, IsRefresh
    <2>2. RootsOnly
      BY <1>8, <2>1 DEF RotMarkUsed, MarkRefreshTokenUsed, RootsOnly, IsRefresh
    <2>3. refresh'[rot[w].tok].revoked
      BY <1>8, <2>1, MarkRefreshTokenUsedStep DEF RotMarkUsed
    <2>4. RotBound(w)'
      BY <1>4, <1>8, <2>1, <2>3 DEF RotMarkUsed, RotTypeOK, RotWorking, RotMinting
    <2> QED BY <1>1, <1>8, <2>2, <2>4 DEF RotMarkUsed, RotTypeOK
  <1>9. ASSUME NEW w \in Rotators,
               \/ \E a \in AccessIds : RotGenerate(w, a)
               \/ RotCreateAccessToken(w)
               \/ RotLogRotated(w)
        PROVE  RotSafe'
    <2>1. rot[w] \in RotWorking /\ rot[w].pc \in RotMarked /\ refresh[rot[w].tok].revoked
      BY <1>9, RotShape
      DEF RotGenerate, RotCreateAccessToken, RotLogRotated, RotSafe, RotBound, RotMarked
    <2>2. UNCHANGED refresh
      BY <1>9 DEF RotGenerate, RotCreateAccessToken, RotLogRotated
    <2>3. RotBound(w)'
      BY <1>4, <1>9, <2>1, <2>2, SMT
      DEF RotGenerate, RotCreateAccessToken, RotLogRotated, RotTypeOK, RotWorking,
          RotMinting, RotMarked
    <2> QED BY <1>1, <1>3, <1>9, <2>2, <2>3
        DEF RotGenerate, RotCreateAccessToken, RotLogRotated, RotTypeOK
  <1>10. ASSUME NEW w \in Rotators, NEW r \in RefreshIds, RotCreateRefreshToken(w, r)
         PROVE  RotSafe'
    <2>1. /\ rot[w] \in RotWorking /\ rot[w].tok \in RefreshIds
          /\ rot[w].pc \in RotMarked /\ rot[w].pc \in RotMinting
          /\ refresh[rot[w].tok] # NoRow
      BY <1>10, RotShape DEF RotCreateRefreshToken, RotKnown, RotMarked, RotMinting
    <2>2. /\ refresh[rot[w].tok].revoked
          /\ refresh[rot[w].tok].family = rot[w].family
          /\ refresh[rot[w].tok].client = rot[w].client
          /\ refresh[rot[w].tok].user = rot[w].user
      BY <2>1 DEF RotSafe, RotBound, RotMarked, RotMinting
    <2>3. CASE IsAccess(rot[w].acc)
      <3> DEFINE row == [family |-> rot[w].family, client |-> rot[w].client,
                         user |-> rot[w].user, access |-> rot[w].acc,
                         prev |-> rot[w].tok, expires |-> now + RefreshTTL,
                         revoked |-> FALSE, reason |-> None]
      <3>1. /\ row.family = rot[w].family /\ row.client = rot[w].client
            /\ row.user = rot[w].user /\ row.prev = rot[w].tok
        OBVIOUS
      <3>2. refresh[r] = NoRow /\ refresh' = [refresh EXCEPT ![r] = row]
        BY <1>10, <2>3 DEF RotCreateRefreshToken, CreateRefreshToken
      <3> HIDE DEF row
      <3>3. \A s \in RefreshIds : IsRefresh(s) => refresh'[s] = refresh[s] /\ s # r
        BY <3>2 DEF IsRefresh
      <3>4. refresh'[r] = row /\ \A s \in RefreshIds \ {r} : refresh'[s] = refresh[s]
        BY <3>2
      <3>5. Lineage'
        <4> SUFFICES ASSUME NEW s \in RefreshIds, refresh'[s] # NoRow,
                            refresh'[s].prev # None
                     PROVE  LET p == refresh'[s].prev IN
                            /\ refresh'[p] # NoRow
                            /\ refresh'[p].revoked
                            /\ refresh'[p].family = refresh'[s].family
                            /\ refresh'[p].client = refresh'[s].client
                            /\ refresh'[p].user = refresh'[s].user
          BY DEF Lineage, IsRefresh
        <4>1. CASE s = r
          BY <2>1, <2>2, <3>1, <3>3, <3>4, <4>1 DEF IsRefresh
        <4>2. CASE s # r
          <5>1. IsRefresh(s) /\ refresh[s].prev \in RefreshIds
            BY <3>4, <4>2 DEF IsRefresh, RefreshRow
          <5> QED BY <3>3, <3>4, <4>2, <5>1, SMT DEF RotSafe, Lineage, IsRefresh
        <4> QED BY <4>1, <4>2
      <3>6. Rooted'
        <4>1. rot[w].family \in RefreshIds /\ IsRefresh(rot[w].family)
          BY <2>1, <2>2 DEF RotSafe, Rooted, IsRefresh, RotWorking
        <4> QED BY <3>1, <3>3, <3>4, <4>1, ZenonT(30) DEF RotSafe, Rooted, IsRefresh, RefreshRow
      <3>7. refresh'[rot[w].tok].revoked
        BY <2>1, <2>2, <3>3 DEF IsRefresh
      <3>8. RotBound(w)'
        BY <1>4, <1>10, <2>1, <2>3, <3>7, SMT
        DEF RotCreateRefreshToken, RotTypeOK, RotWorking, RotMinting, RotMarked
      <3>9. \A v \in Rotators : RotBound(v)'
        BY <1>10, <2>3, <3>8, RotBoundKept DEF RotSafe, RotCreateRefreshToken, RotTypeOK
      <3> QED BY <3>5, <3>6, <3>9 DEF RotSafe
    <2>4. CASE ~IsAccess(rot[w].acc)
      BY <1>1, <1>2, <1>3, <1>10, <2>4 DEF RotCreateRefreshToken, RotTypeOK
    <2> QED BY <2>3, <2>4
  <1>11. ASSUME NEW w \in Rotators, RotLogReplay(w) \/ RotRespond(w) \/ RotFail(w)
         PROVE  RotSafe'
    BY <1>1, <1>2, <1>3, <1>11 DEF RotLogReplay, RotRespond, RotFail, storeVars, RotTypeOK
  <1> QED
    BY <1>5, <1>6, <1>7, <1>8, <1>9, <1>10, <1>11 DEF RotNext

---------------------------------------------------------------------------
(* A dead family stays dead                                                *)

\* Rows of a family are only ever added, and stay revoked.
LEMMA FamilyStaysRevoked ==
    ASSUME RefreshType, RefreshStep, NEW f \in RefreshIds,
           Family(f) # {}, \A r \in Family(f) : refresh[r].revoked,
           \A r \in RefreshIds : ~IsRefresh(r) /\ refresh'[r] # NoRow =>
                                      refresh'[r].family # f
    PROVE  Family(f)' # {} /\ \A r \in Family(f)' : refresh'[r].revoked
  BY ZenonT(30) DEF Family, RefreshStep, IsRefresh

\* The steps of everyone else: a new family is not an old one, whose first token
\* is in the table.
LEMMA DeadKept ==
    ASSUME StoreTypeOK, Rooted, StoreStep, RootsOnly, UNCHANGED rot,
           NEW f \in RefreshIds, DeadFamily(f)
    PROVE  DeadFamily(f)'
  <1>1. IsRefresh(f)
    BY DEF DeadFamily, Family, Rooted
  <1>2. Family(f)' # {} /\ \A r \in Family(f)' : refresh'[r].revoked
    BY <1>1, FamilyStaysRevoked, ZenonT(30) DEF DeadFamily, RootsOnly, StoreTypeOK, RefreshType, StoreStep
  <1> QED BY <1>2 DEF DeadFamily

\* Rotation: only a lookup of a valid token starts minting, and minting stays in
\* the family that the lookup found.
LEMMA DeadStep ==
    ASSUME StoreTypeOK, RotTypeOK, RotKnown, RotSafe, StoreStep, RotNext,
           NEW f \in RefreshIds, DeadFamily(f)
    PROVE  DeadFamily(f)'
  <1>0. RefreshType
    BY DEF StoreTypeOK, RefreshType
  <1> USE <1>0 DEF RefreshType
  <1>1. PICK w \in Rotators :
           \/ \E t \in RefreshIds, c \in Clients : RotGetClient(w, t, c)
           \/ RotLookup(w)
           \/ RotRevokeFamily(w)
           \/ RotLogReplay(w)
           \/ RotMarkUsed(w)
           \/ \E a \in AccessIds : RotGenerate(w, a)
           \/ RotCreateAccessToken(w)
           \/ \E r \in RefreshIds : RotCreateRefreshToken(w, r)
           \/ RotLogRotated(w)
           \/ RotRespond(w)
           \/ RotFail(w)
    BY DEF RotNext
  <1>2. \A v \in Rotators \ {w} : rot'[v] = rot[v]
    BY <1>1 DEF RotGetClient, RotLookup, RotDecide, RotRevokeFamily, RotLogReplay,
                RotMarkUsed, RotGenerate, RotCreateAccessToken, RotCreateRefreshToken,
                RotLogRotated, RotRespond, RotFail, RotTypeOK
  <1>3. \/ rot'[w].pc \notin RotMinting
        \/ rot[w].pc \in RotMinting /\ rot'[w].family = rot[w].family
        \/ /\ rot[w].pc = "lookup" /\ rot'[w].family = refresh[rot[w].tok].family
           /\ ~refresh[rot[w].tok].revoked
    <2>1. CASE \E t \in RefreshIds, c \in Clients : RotGetClient(w, t, c)
      BY <2>1, SMT DEF RotGetClient, RotTypeOK, RotMinting
    <2>2. CASE RotLookup(w)
      <3>1. rot'[w] = RotIdle \/ rot'[w] = RotContinue(w, "sweep")
            \/ (rot'[w] = RotContinue(w, "mark") /\ ~refresh[rot[w].tok].revoked)
        BY <2>2 DEF RotLookup, RotDecide, RotTypeOK
      <3>2. rot[w].pc = "lookup"
        BY <2>2 DEF RotLookup, RotDecide
      <3>3. CASE rot'[w] = RotIdle
        BY <3>3, SMT DEF RotIdle, RotMinting
      <3>4. CASE rot'[w] = RotContinue(w, "sweep")
        BY <3>4, SMT DEF RotContinue, RotMinting
      <3>5. CASE rot'[w] = RotContinue(w, "mark") /\ ~refresh[rot[w].tok].revoked
        <4>1. rot'[w].family = refresh[rot[w].tok].family
          BY <3>5, SMT DEF RotContinue
        <4> QED BY <3>2, <3>5, <4>1
      <3> QED BY <3>1, <3>3, <3>4, <3>5
    <2>3. CASE RotRevokeFamily(w) \/ RotLogReplay(w) \/ RotLogRotated(w)
               \/ RotRespond(w) \/ RotFail(w)
      <3>1. rot'[w] = RotIdle \/ (/\ rot[w].pc \notin {"idle", "lookup"}
                                  /\ \E l \in {"logReplay", "respond"} :
                                        rot'[w] = [rot[w] EXCEPT !.pc = l])
        BY <2>3 DEF RotRevokeFamily, RotLogReplay, RotLogRotated, RotRespond, RotFail, RotTypeOK
      <3> QED BY <3>1, RotShape, SMT DEF RotIdle, RotWorking, RotMinting
    <2>4. CASE RotMarkUsed(w) \/ (\E a \in AccessIds : RotGenerate(w, a))
               \/ RotCreateAccessToken(w)
      <3>1. rot[w] \in RotWorking /\ rot[w].pc \in RotMinting
        BY <2>4, RotShape DEF RotMarkUsed, RotGenerate, RotCreateAccessToken, RotMinting
      <3> QED BY <2>4, <3>1, SMT
          DEF RotMarkUsed, RotGenerate, RotCreateAccessToken, RotTypeOK, RotWorking
    <2>5. CASE \E r \in RefreshIds : RotCreateRefreshToken(w, r)
      <3>1. rot[w] \in RotWorking
        BY <2>5, RotShape DEF RotCreateRefreshToken
      <3> QED BY <2>5, <3>1, SMT
          DEF RotCreateRefreshToken, RotTypeOK, RotWorking, RotIdle, RotMinting
    <2> QED BY <1>1, <2>1, <2>2, <2>3, <2>4, <2>5
  <1>4. \A v \in Rotators : rot'[v].pc \in RotMinting => rot'[v].family # f
    <2>1. rot[w].pc = "lookup" /\ ~refresh[rot[w].tok].revoked =>
             refresh[rot[w].tok].family # f
      BY RotShape DEF RotKnown, DeadFamily, Family, IsRefresh
    <2> QED BY <1>2, <1>3, <2>1 DEF DeadFamily
  <1>5. \A r \in RefreshIds : ~IsRefresh(r) /\ refresh'[r] # NoRow => refresh'[r].family # f
    <2>1. CASE UNCHANGED refresh
      BY <2>1 DEF IsRefresh
    <2>2. CASE RotRevokeFamily(w)
      BY <2>2 DEF RotRevokeFamily, RevokeRefreshTokenFamily, IsRefresh
    <2>3. CASE RotMarkUsed(w)
      BY <2>3, RotShape DEF RotMarkUsed, MarkRefreshTokenUsed, RotKnown, IsRefresh
    <2>4. ASSUME NEW s \in RefreshIds, RotCreateRefreshToken(w, s)
          PROVE  \A r \in RefreshIds : ~IsRefresh(r) /\ refresh'[r] # NoRow =>
                                            refresh'[r].family # f
      <3>1. rot[w].family # f
        BY <2>4 DEF RotCreateRefreshToken, DeadFamily, RotMinting
      <3> QED BY <2>4, <3>1, SMT DEF RotCreateRefreshToken, CreateRefreshToken, IsRefresh
    <2> QED BY <1>1, <2>1, <2>2, <2>3, <2>4
        DEF RotGetClient, RotLookup, RotDecide, RotLogReplay, RotGenerate,
            RotCreateAccessToken, RotLogRotated, RotRespond, RotFail, storeVars
  <1>6. Family(f)' # {} /\ \A r \in Family(f)' : refresh'[r].revoked
    BY <1>5, FamilyStaysRevoked DEF DeadFamily, StoreStep
  <1> QED BY <1>4, <1>6 DEF DeadFamily

---------------------------------------------------------------------------
(* The rows of the tokens it signs                                         *)

RotRecorded ==
    \A w \in Rotators :
        /\ rot[w].pc = "store" => jwt[rot[w].acc].user = rot[w].user
        /\ rot[w].pc \in {"refresh", "log", "respond"} => access[rot[w].acc] # NoRow

\* The same for rotations.
LEMMA RotRecordedKept ==
    ASSUME StoreTypeOK, RotTypeOK, RotKnown, StoreStep, RotRecorded, UNCHANGED rot
    PROVE  RotRecorded'
  BY RecordKept DEF RotTypeOK, RotKnown, RotRecorded

\* Rotation.
LEMMA RotRecords ==
    ASSUME StoreTypeOK, RotTypeOK, RotKnown,
           StoreTypeOK', RotTypeOK', RotKnown', StoreStep, RowsMatch, RotRecorded,
           HeldStored, RotNext
    PROVE  RowsMatch' /\ RotRecorded' /\ HeldStored'
  <1> DEFINE Goal == RowsMatch' /\ RotRecorded' /\ HeldStored'
  <1>1. UNCHANGED access => RowsMatch'
    BY RowsKept
  <1>2. UNCHANGED held => HeldStored'
    BY HeldStoredKept
  <1>3. ASSUME NEW w \in Rotators, \A v \in Rotators \ {w} : rot'[v] = rot[v],
               rot'[w].pc = "store" => jwt'[rot'[w].acc].user = rot'[w].user,
               rot'[w].pc \in {"refresh", "log", "respond"} => access'[rot'[w].acc] # NoRow
        PROVE  RotRecorded'
    BY <1>3, RecordKept, SMT DEF RotTypeOK, RotKnown, RotRecorded
  <1>4. ASSUME NEW w \in Rotators, \A v \in Rotators \ {w} : rot'[v] = rot[v],
               rot'[w].pc \in {"idle", "lookup", "sweep", "logReplay", "mark", "sign"}
        PROVE  RotRecorded'
    BY <1>3, <1>4
  <1>5. ASSUME NEW w \in Rotators, NEW t \in RefreshIds, NEW c \in Clients, RotGetClient(w, t, c)
        PROVE  Goal
    BY <1>1, <1>2, <1>4, <1>5 DEF RotGetClient, storeVars, RotTypeOK
  <1>6. ASSUME NEW w \in Rotators, RotLookup(w)
        PROVE  Goal
    BY <1>1, <1>2, <1>4, <1>6
    DEF RotLookup, RotDecide, RotContinue, storeVars, RotTypeOK, RotIdle
  <1>7. ASSUME NEW w \in Rotators, RotRevokeFamily(w) \/ RotMarkUsed(w)
        PROVE  Goal
    <2>1. rot[w] \in RotWorking
      BY <1>7, RotShape DEF RotRevokeFamily, RotMarkUsed
    <2> QED BY <1>1, <1>2, <1>4, <1>7, <2>1, SMT
            DEF RotRevokeFamily, RotMarkUsed, RotTypeOK, RotWorking
  <1>8. ASSUME NEW w \in Rotators, RotLogReplay(w) \/ RotFail(w)
        PROVE  Goal
    BY <1>1, <1>2, <1>4, <1>8, SMT DEF RotLogReplay, RotFail, storeVars, RotTypeOK, RotIdle
  <1>9. ASSUME NEW w \in Rotators, NEW a \in AccessIds, RotGenerate(w, a)
        PROVE  Goal
    <2>1. rot[w] \in RotWorking
      BY <1>9, RotShape DEF RotGenerate
    <2>2. /\ \A v \in Rotators \ {w} : rot'[v] = rot[v]
          /\ rot'[w].pc = "store" /\ rot'[w].acc = a /\ rot'[w].user = rot[w].user
      BY <1>9, <2>1 DEF RotGenerate, RotTypeOK, RotWorking
    <2>3. jwt'[a].user = rot[w].user
      BY <1>9 DEF RotGenerate, GenerateAccessToken, StoreTypeOK
    <2>4. RotRecorded'
      BY <1>3, <2>2, <2>3
    <2> QED BY <1>1, <1>2, <1>9, <2>4 DEF RotGenerate
  <1>10. ASSUME NEW w \in Rotators, RotCreateAccessToken(w)
         PROVE  Goal
    <2>1. rot[w] \in RotWorking /\ rot[w].acc \in AccessIds /\ jwt[rot[w].acc] \in Claims
      BY <1>10, RotShape DEF RotCreateAccessToken, RotTypeOK, RotKnown, StoreTypeOK
    <2>2. PICK e \in RowExpiry(rot[w].acc) :
             CreateAccessToken(rot[w].acc, [client |-> rot[w].client, user |-> rot[w].user,
                                            expires |-> e, revoked |-> FALSE])
      BY <1>10 DEF RotCreateAccessToken
    <2> DEFINE row == [client |-> rot[w].client, user |-> rot[w].user,
                       expires |-> e, revoked |-> FALSE]
    <2>3. row \in AccessRow
      <3>1. e \in Nat
        BY <2>1, StoreAssumption, SMT DEF RowExpiry, Claims, StoreTypeOK
      <3> QED BY <2>1, <3>1 DEF RotWorking, AccessRow
    <2>4. /\ row.user = jwt[rot[w].acc].user /\ row.expires \in RowExpiry(rot[w].acc)
          /\ CreateAccessToken(rot[w].acc, row) /\ UNCHANGED <<now, jwt, held>>
          /\ jwt[rot[w].acc] # NoRow
      BY <1>10, <2>2 DEF RotCreateAccessToken, RotRecorded, RotKnown
    <2> HIDE DEF row
    <2>5. RowsMatch'
      BY <2>1, <2>3, <2>4, RowInserted
    <2>6. access'[rot[w].acc] # NoRow
      BY <2>1, <2>3, <2>4, RowAssumption DEF CreateAccessToken, StoreTypeOK
    <2>7. /\ \A v \in Rotators \ {w} : rot'[v] = rot[v]
          /\ rot'[w].pc # "store" /\ rot'[w].acc = rot[w].acc
      BY <1>10, <2>1 DEF RotCreateAccessToken, RotTypeOK, RotWorking
    <2>8. RotRecorded'
      BY <1>3, <2>6, <2>7
    <2> QED BY <1>2, <2>4, <2>5, <2>8
  <1>11. ASSUME NEW w \in Rotators, rot[w].pc \in {"refresh", "log"}, UNCHANGED <<access, held>>,
                \/ rot'[w].pc = "idle"
                \/ rot'[w].pc \in {"log", "respond"} /\ rot'[w].acc = rot[w].acc,
                \A v \in Rotators \ {w} : rot'[v] = rot[v]
         PROVE  Goal
    BY <1>1, <1>2, <1>3, <1>11 DEF RotRecorded
  <1>12. ASSUME NEW w \in Rotators, NEW r \in RefreshIds, RotCreateRefreshToken(w, r)
         PROVE  Goal
    <2>1. rot[w] \in RotWorking
      BY <1>12, RotShape DEF RotCreateRefreshToken
    <2> QED BY <1>11, <1>12, <2>1, SMT DEF RotCreateRefreshToken, RotTypeOK, RotWorking, RotIdle
  <1>13. ASSUME NEW w \in Rotators, RotLogRotated(w)
         PROVE  Goal
    <2>1. rot[w] \in RotWorking
      BY <1>13, RotShape DEF RotLogRotated
    <2> QED BY <1>11, <1>13, <2>1 DEF RotLogRotated, RotTypeOK, RotWorking
  <1>14. ASSUME NEW w \in Rotators, RotRespond(w)
         PROVE  Goal
    <2>1. rot[w].acc \in AccessIds /\ access[rot[w].acc] # NoRow /\ rot[w].new \in RefreshIds
      BY <1>14 DEF RotRespond, RotTypeOK, RotRecorded
    <2>2. HeldStored'
      BY <1>14, <2>1, StoreAssumption DEF RotRespond, HeldStored
    <2> QED BY <1>1, <1>4, <1>14, <2>2 DEF RotRespond, RotTypeOK, RotIdle
  <1> QED BY <1>5, <1>6, <1>7, <1>8, <1>9, <1>10, <1>12, <1>13, <1>14 DEF RotNext

---------------------------------------------------------------------------
(* RotatedOnce, OneLivePerFamily and ReplayEndsFamily, as long as no two   *)
(* requests present tokens of the same family                              *)

\* What a request may rely on when it has its family to itself: its token has no
\* successor yet, and is the only valid one until it is marked as used.
RotAlone(w) ==
    /\ rot[w].pc \in RotMinting =>
          /\ rot[w].family \notin swept
          /\ \A r \in RefreshIds : IsRefresh(r) => refresh[r].prev # rot[w].tok
    /\ rot[w].pc = "mark" =>
          \A r \in RefreshIds : Live(r) /\ refresh[r].family = rot[w].family => r = rot[w].tok
    /\ rot[w].pc \in RotMinting \ {"mark"} =>
          \A r \in RefreshIds : Live(r) => refresh[r].family # rot[w].family

\* What the rows are then.
OneLine ==
    /\ OneLivePerFamily
    /\ RotatedOnce
    /\ ReplayEndsFamily
    /\ \A f \in swept : IsRefresh(f)

\* The inductive form of the three properties.
RotFirst ==
    /\ OneLine
    /\ \A w \in Rotators : RotAlone(w)

\* New rows start families of their own, so that nothing is said of them.
LEMMA OneLineKept ==
    ASSUME StoreTypeOK, StoreTypeOK', RotTypeOK, Rooted, RefreshStep, RootsOnly, OneLine,
           UNCHANGED swept
    PROVE  OneLine'
  <1>0. RefreshType /\ RefreshType'
    BY DEF StoreTypeOK, RefreshType
  <1> USE <1>0 DEF RefreshType
  <1>1. ASSUME NEW r \in RefreshIds, Live(r)'
        PROVE  \/ Live(r) /\ refresh'[r].family = refresh[r].family
               \/ ~IsRefresh(r) /\ refresh'[r].family = r
    BY <1>1 DEF RefreshStep, RootsOnly, Live, IsRefresh
  <1>2. OneLivePerFamily'
    <2> SUFFICES ASSUME NEW r \in RefreshIds, NEW s \in RefreshIds, Live(r)', Live(s)',
                        refresh'[r].family = refresh'[s].family
                 PROVE  r = s
      BY DEF OneLivePerFamily
    <2> QED BY <1>1, SMT DEF OneLine, OneLivePerFamily, Rooted, Live
  <1>3. RotatedOnce'
    <2> SUFFICES ASSUME NEW r \in RefreshIds, NEW s \in RefreshIds, IsRefresh(r)', IsRefresh(s)',
                        refresh'[r].prev # None, refresh'[r].prev = refresh'[s].prev
                 PROVE  r = s
      BY DEF RotatedOnce
    <2>1. /\ IsRefresh(r) /\ refresh'[r].prev = refresh[r].prev
          /\ IsRefresh(s) /\ refresh'[s].prev = refresh[s].prev
      BY DEF RefreshStep, RootsOnly, IsRefresh
    <2> QED BY <2>1 DEF OneLine, RotatedOnce
  <1>4. ReplayEndsFamily'
    <2> SUFFICES ASSUME NEW f \in swept, NEW r \in RefreshIds, IsRefresh(r)',
                        refresh'[r].family = f
                 PROVE  refresh'[r].revoked
      BY DEF ReplayEndsFamily, Family
    <2>1. IsRefresh(f)
      BY DEF OneLine
    <2>2. IsRefresh(r) /\ refresh[r].family = f
      BY <2>1 DEF RefreshStep, RootsOnly, IsRefresh
    <2> QED BY <2>2 DEF OneLine, ReplayEndsFamily, Family, RefreshStep
  <1>5. (\A f \in swept : IsRefresh(f))'
    BY DEF OneLine, RotTypeOK, RefreshStep, IsRefresh
  <1> QED BY <1>2, <1>3, <1>4, <1>5 DEF OneLine

\* A request that does not move, or moves on without writing, keeps its part.
LEMMA RotAloneKept ==
    ASSUME StoreTypeOK, StoreTypeOK', RotTypeOK, RotKnown, RotSafe, RefreshStep, RootsOnly,
           NEW w \in Rotators, RotAlone(w), swept' \ swept \subseteq RefreshIds \ {rot[w].family},
           rot'[w].pc \in RotMinting =>
               /\ rot[w].pc \in RotMinting
               /\ rot'[w].tok = rot[w].tok /\ rot'[w].family = rot[w].family
               /\ rot'[w].pc = "mark" <=> rot[w].pc = "mark"
    PROVE  RotAlone(w)'
  <1>0. RefreshType /\ RefreshType'
    BY DEF StoreTypeOK, RefreshType
  <1> USE <1>0 DEF RefreshType
  <1> SUFFICES ASSUME rot'[w].pc \in RotMinting PROVE RotAlone(w)'
    BY DEF RotAlone, RotMinting
  <1>1. /\ rot[w].pc \in RotMinting /\ rot[w] \in RotWorking
        /\ rot[w].tok \in RefreshIds /\ rot[w].family \in RefreshIds
    BY RotShape DEF RotMinting, RotWorking
  <1>2. IsRefresh(rot[w].tok) /\ refresh[rot[w].tok].family = rot[w].family
    BY <1>1 DEF RotKnown, RotSafe, RotBound, RotMinting, IsRefresh
  <1>3. IsRefresh(rot[w].family)
    BY <1>1, <1>2 DEF RotSafe, Rooted
  <1>4. ASSUME NEW r \in RefreshIds, IsRefresh(r)', refresh'[r].family = rot[w].family
        PROVE  /\ IsRefresh(r) /\ refresh[r].family = rot[w].family
               /\ Live(r)' => Live(r)
    BY <1>3, <1>4, SMT DEF RefreshStep, RootsOnly, IsRefresh, Live
  <1>5. ASSUME NEW r \in RefreshIds, IsRefresh(r)'
        PROVE  refresh'[r].prev # rot[w].tok
    <2>1. CASE IsRefresh(r)
      BY <1>1, <2>1 DEF RotAlone, RefreshStep
    <2>2. CASE ~IsRefresh(r)
      BY <1>1, <1>5, <2>2, StoreAssumption, RowAssumption DEF RootsOnly, IsRefresh
    <2> QED BY <2>1, <2>2
  <1>6. rot[w].family \notin swept'
    BY <1>1 DEF RotAlone
  <1>7. rot[w].pc = "mark" =>
           \A r \in RefreshIds : Live(r)' /\ refresh'[r].family = rot[w].family => r = rot[w].tok
    BY <1>4 DEF RotAlone, Live
  <1>8. rot[w].pc # "mark" =>
           \A r \in RefreshIds : Live(r)' => refresh'[r].family # rot[w].family
    BY <1>1, <1>4 DEF RotAlone, Live
  <1> QED BY <1>1, <1>5, <1>6, <1>7, <1>8 DEF RotAlone

\* The steps of everyone else.
LEMMA RotFirstKept ==
    ASSUME StoreTypeOK, StoreTypeOK', RotTypeOK, RotKnown, RotSafe, StoreStep, RootsOnly,
           RotFirst, UNCHANGED rotVars
    PROVE  RotFirst'
  <1>1. OneLine'
    BY OneLineKept DEF RotFirst, RotSafe, StoreStep, rotVars
  <1>2. ASSUME NEW w \in Rotators
        PROVE  RotAlone(w)'
    BY <1>2, RotAloneKept DEF RotFirst, StoreStep, rotVars
  <1> QED BY <1>1, <1>2 DEF RotFirst

\* The actions of Rotation: a lookup that finds a valid token finds the only one of
\* its family, and the sweep and the insert have the family to themselves.
LEMMA RotFirstStep ==
    ASSUME StoreTypeOK, StoreTypeOK', RotTypeOK, RotKnown, RotSafe, StoreStep,
           FamiliesApart, RotFirst, RotNext
    PROVE  RotFirst'
  <1>0. RefreshType /\ RefreshType'
    BY DEF StoreTypeOK, RefreshType
  <1> USE <1>0 DEF RefreshType
  <1>1. ASSUME NEW w \in Rotators, RotAlone(w)', RootsOnly, UNCHANGED swept,
               \A v \in Rotators \ {w} : rot'[v] = rot[v]
        PROVE  RotFirst'
    <2>1. OneLine'
      BY <1>1, OneLineKept DEF RotFirst, RotSafe, StoreStep
    <2>2. ASSUME NEW v \in Rotators, v # w
          PROVE  RotAlone(v)'
      BY <1>1, <2>2, RotAloneKept DEF RotFirst, StoreStep
    <2> QED BY <1>1, <2>1, <2>2 DEF RotFirst
  <1>2. UNCHANGED refresh => RootsOnly
    BY DEF RootsOnly, IsRefresh
  <1>3. ASSUME NEW w \in Rotators, rot[w].pc \notin {"idle", "lookup"}
        PROVE  /\ rot[w] \in RotWorking /\ rot[w].tok \in RefreshIds /\ rot[w].family \in RefreshIds
               /\ IsRefresh(rot[w].tok) /\ refresh[rot[w].tok].family = rot[w].family
    BY <1>3, RotShape DEF RotWorking, RotKnown, RotSafe, RotBound, IsRefresh
  <1>4. ASSUME NEW v \in Rotators, NEW w \in Rotators, v # w,
               rot[v].pc \notin {"idle", "lookup"}, rot[w].pc \notin {"idle", "lookup"}
        PROVE  rot[v].family # rot[w].family
    BY <1>3, <1>4 DEF FamiliesApart
  <1>5. ASSUME NEW w \in Rotators, UNCHANGED <<refresh, swept>>,
               \A v \in Rotators \ {w} : rot'[v] = rot[v],
               rot'[w].pc \in RotMinting =>
                   /\ rot[w].pc \in RotMinting
                   /\ rot'[w].tok = rot[w].tok /\ rot'[w].family = rot[w].family
                   /\ rot'[w].pc = "mark" <=> rot[w].pc = "mark"
        PROVE  RotFirst'
    BY <1>1, <1>2, <1>5, RotAloneKept DEF RotFirst, StoreStep
  <1>6. ASSUME NEW w \in Rotators,
               \/ \E t \in RefreshIds, c \in Clients : RotGetClient(w, t, c)
               \/ RotLogReplay(w) \/ RotLogRotated(w) \/ RotRespond(w) \/ RotFail(w)
        PROVE  RotFirst'
    <2>1. /\ UNCHANGED <<refresh, swept>>
          /\ \A v \in Rotators \ {w} : rot'[v] = rot[v]
      BY <1>6 DEF RotGetClient, RotLogReplay, RotLogRotated, RotRespond, RotFail, storeVars,
                  RotTypeOK
    <2>2. rot'[w].pc \in {"idle", "lookup", "respond"}
      <3>1. ASSUME RotLogRotated(w)
            PROVE  rot'[w].pc = "respond"
        BY <1>3, <3>1 DEF RotLogRotated, RotTypeOK, RotWorking
      <3> QED BY <1>6, <3>1, SMT DEF RotGetClient, RotLogReplay, RotRespond, RotFail, RotTypeOK, RotIdle
    <2> QED BY <1>5, <2>1, <2>2 DEF RotMinting
  <1>7. ASSUME NEW w \in Rotators,
               (\E a \in AccessIds : RotGenerate(w, a)) \/ RotCreateAccessToken(w)
        PROVE  RotFirst'
    <2>1. /\ UNCHANGED <<refresh, swept>>
          /\ \A v \in Rotators \ {w} : rot'[v] = rot[v]
      BY <1>7 DEF RotGenerate, RotCreateAccessToken, RotTypeOK
    <2>2. rot[w].pc \in {"sign", "store"} /\ rot[w] \in RotWorking
      BY <1>3, <1>7 DEF RotGenerate, RotCreateAccessToken
    <2>3. /\ rot'[w].pc \in {"store", "refresh"}
          /\ rot'[w].tok = rot[w].tok /\ rot'[w].family = rot[w].family
      BY <1>7, <2>2, SMT DEF RotGenerate, RotCreateAccessToken, RotTypeOK, RotWorking
    <2> QED BY <1>5, <2>1, <2>2, <2>3 DEF RotMinting
  <1>8. ASSUME NEW w \in Rotators, RotLookup(w)
        PROVE  RotFirst'
    <2>1. /\ UNCHANGED <<refresh, swept>>
          /\ \A v \in Rotators \ {w} : rot'[v] = rot[v]
      BY <1>8 DEF RotLookup, RotDecide, storeVars, RotTypeOK
    <2>2. /\ rot[w].pc = "lookup" /\ rot[w].tok \in RefreshIds /\ IsRefresh(rot[w].tok)
          /\ refresh[rot[w].tok].family \in RefreshIds
      BY <1>8, RotShape DEF RotLookup, RotDecide, RotKnown, IsRefresh, RefreshRow
    <2>3. \/ rot'[w].pc \notin RotMinting
          \/ /\ rot'[w].pc = "mark" /\ rot'[w].tok = rot[w].tok
             /\ rot'[w].family = refresh[rot[w].tok].family
             /\ ~refresh[rot[w].tok].revoked
      <3>1. rot'[w] = RotIdle \/ rot'[w] = RotContinue(w, "sweep")
            \/ (rot'[w] = RotContinue(w, "mark") /\ ~refresh[rot[w].tok].revoked)
        BY <1>8 DEF RotLookup, RotDecide, RotTypeOK
      <3> QED BY <3>1, SMT DEF RotIdle, RotContinue, RotMinting
    <2>4. CASE rot'[w].pc \notin RotMinting
      BY <1>5, <2>1, <2>4
    <2>5. CASE /\ rot'[w].pc = "mark" /\ rot'[w].tok = rot[w].tok
               /\ rot'[w].family = refresh[rot[w].tok].family
               /\ ~refresh[rot[w].tok].revoked
      <3> DEFINE t == rot[w].tok
      <3>1. Live(t)
        BY <2>2, <2>5 DEF Live
      <3>2. refresh[t].family \notin swept
        BY <2>2, <2>5 DEF RotFirst, OneLine, ReplayEndsFamily, Family
      <3>3. \A r \in RefreshIds : IsRefresh(r) => refresh[r].prev # t
        BY <2>2, <2>5, StoreAssumption, SMT DEF RotSafe, Lineage
      <3>4. \A r \in RefreshIds : Live(r) /\ refresh[r].family = refresh[t].family => r = t
        BY <2>2, <3>1 DEF RotFirst, OneLine, OneLivePerFamily
      <3>5. RotAlone(w)'
        BY <2>1, <2>5, <3>2, <3>3, <3>4 DEF RotAlone, RotMinting, Live, IsRefresh
      <3> QED BY <1>1, <1>2, <2>1, <3>5
    <2> QED BY <2>3, <2>4, <2>5
  <1>9. ASSUME NEW w \in Rotators, RotRevokeFamily(w)
        PROVE  RotFirst'
    <2>1. /\ rot[w] \in RotWorking /\ rot[w].pc = "sweep" /\ rot[w].family \in RefreshIds
          /\ \A v \in Rotators \ {w} : rot'[v] = rot[v]
      BY <1>3, <1>9 DEF RotRevokeFamily, RotTypeOK
    <2>2. rot'[w].pc = "logReplay"
      BY <1>9, <2>1 DEF RotRevokeFamily, RotTypeOK, RotWorking
    <2>3. CASE UNCHANGED <<refresh, swept>>
      BY <1>5, <2>1, <2>2, <2>3 DEF RotMinting
    <2>4. CASE /\ RevokeRefreshTokenFamily(rot[w].family, "replay_detected")
               /\ swept' = swept \cup {rot[w].family}
      <3>1. \A r \in RefreshIds : IsRefresh(r)' <=> IsRefresh(r)
        BY <2>4 DEF RevokeRefreshTokenFamily, IsRefresh, StoreStep, RefreshStep
      <3>2. RootsOnly
        <4>1. \A r \in RefreshIds : refresh'[r] # NoRow => IsRefresh(r)
          BY <3>1 DEF IsRefresh
        <4> QED BY <4>1 DEF RootsOnly
      <3>3. \A r \in RefreshIds : IsRefresh(r) /\ refresh[r].family = rot[w].family =>
                                      refresh'[r].revoked
        BY <2>4 DEF RevokeRefreshTokenFamily, IsRefresh, RefreshRow
      <3>4. OneLine'
        <4>1. \A r \in RefreshIds : IsRefresh(r) => /\ refresh'[r].family = refresh[r].family
                                                    /\ refresh'[r].prev = refresh[r].prev
                                                    /\ refresh[r].revoked => refresh'[r].revoked
          BY DEF StoreStep, RefreshStep
        <4>2. OneLivePerFamily' /\ RotatedOnce'
          BY <3>1, <4>1 DEF RotFirst, OneLine, OneLivePerFamily, RotatedOnce, Live
        <4>3. ReplayEndsFamily'
          BY <2>4, <3>1, <3>3, <4>1, ZenonT(30) DEF RotFirst, OneLine, ReplayEndsFamily, Family
        <4>4. IsRefresh(rot[w].family)
          BY <1>3, <2>1 DEF RotSafe, Rooted
        <4>5. (\A f \in swept : IsRefresh(f))'
          BY <2>1, <2>4, <3>1, <4>4 DEF RotFirst, OneLine, RotTypeOK
        <4> QED BY <4>2, <4>3, <4>5 DEF OneLine
      <3>5. RotAlone(w)'
        BY <2>2 DEF RotAlone, RotMinting
      <3>6. ASSUME NEW v \in Rotators, v # w
            PROVE  RotAlone(v)'
        <4>1. CASE rot[v].pc \in RotMinting
          <5>1. swept' \ swept \subseteq RefreshIds \ {rot[v].family}
            BY <1>4, <2>1, <2>4, <3>6, <4>1 DEF RotMinting
          <5> QED BY <2>1, <3>2, <3>6, <5>1, RotAloneKept DEF RotFirst, StoreStep
        <4>2. CASE rot[v].pc \notin RotMinting
          BY <2>1, <3>6, <4>2 DEF RotAlone, RotMinting
        <4> QED BY <4>1, <4>2
      <3> QED BY <3>4, <3>5, <3>6 DEF RotFirst
    <2> QED BY <1>9, <2>3, <2>4 DEF RotRevokeFamily
  <1>10. ASSUME NEW w \in Rotators, RotMarkUsed(w)
         PROVE  RotFirst'
    <2>1. /\ rot[w] \in RotWorking /\ rot[w].pc = "mark" /\ rot[w].tok \in RefreshIds
          /\ IsRefresh(rot[w].tok) /\ UNCHANGED swept
          /\ \A v \in Rotators \ {w} : rot'[v] = rot[v]
      BY <1>3, <1>10 DEF RotMarkUsed, RotTypeOK
    <2>2. /\ rot'[w].pc = "sign" /\ rot'[w].tok = rot[w].tok
          /\ rot'[w].family = rot[w].family
      BY <1>10, <2>1 DEF RotMarkUsed, RotTypeOK, RotWorking
    <2>3. /\ refresh'[rot[w].tok].revoked
          /\ \A r \in RefreshIds : r # rot[w].tok => refresh'[r] = refresh[r]
      <3>1. refresh'[rot[w].tok].revoked
        BY <1>10, <2>1, MarkRefreshTokenUsedStep DEF RotMarkUsed, RefreshType
      <3> QED BY <1>10, <3>1 DEF RotMarkUsed, MarkRefreshTokenUsed
    <2>4. RootsOnly
      BY <2>1, <2>3 DEF RootsOnly, IsRefresh
    <2>5. /\ rot[w].family \notin swept
          /\ \A r \in RefreshIds : IsRefresh(r) => refresh[r].prev # rot[w].tok
          /\ \A r \in RefreshIds : Live(r) /\ refresh[r].family = rot[w].family => r = rot[w].tok
      BY <2>1 DEF RotFirst, RotAlone, RotMinting
    <2>6. \A r \in RefreshIds : IsRefresh(r)' => refresh'[r].prev # rot[w].tok
      BY <2>1, <2>3, <2>5, ZenonT(30) DEF IsRefresh, StoreStep, RefreshStep
    <2>7. \A r \in RefreshIds : Live(r)' => refresh'[r].family # rot[w].family
      BY <2>3, <2>5 DEF Live, IsRefresh
    <2>8. RotAlone(w)'
      BY <2>1, <2>2, <2>5, <2>6, <2>7 DEF RotAlone, RotMinting
    <2> QED BY <1>1, <2>1, <2>4, <2>8
  <1>11. ASSUME NEW w \in Rotators, NEW s \in RefreshIds, RotCreateRefreshToken(w, s)
         PROVE  RotFirst'
    <2>1. /\ rot[w] \in RotWorking /\ rot[w].pc = "refresh" /\ rot[w].tok \in RefreshIds
          /\ rot[w].family \in RefreshIds /\ UNCHANGED swept
          /\ IsRefresh(rot[w].tok) /\ refresh[rot[w].tok].family = rot[w].family
          /\ \A v \in Rotators \ {w} : rot'[v] = rot[v]
      BY <1>3, <1>11 DEF RotCreateRefreshToken, RotTypeOK
    <2>2. CASE ~IsAccess(rot[w].acc)
      BY <1>5, <1>11, <2>1, <2>2, SMT DEF RotCreateRefreshToken, RotTypeOK, RotIdle, RotMinting
    <2>3. CASE IsAccess(rot[w].acc)
      <3>1. /\ ~IsRefresh(s)
            /\ refresh'[s].family = rot[w].family /\ refresh'[s].prev = rot[w].tok
            /\ \A r \in RefreshIds : r # s => refresh'[r] = refresh[r]
        BY <1>11, <2>3, SMT DEF RotCreateRefreshToken, CreateRefreshToken, IsRefresh
      <3>2. \A r \in RefreshIds \ {s} : /\ IsRefresh(r)' <=> IsRefresh(r)
                                        /\ Live(r)' <=> Live(r)
        BY <3>1 DEF IsRefresh, Live
      <3>3. /\ rot[w].family \notin swept
            /\ \A r \in RefreshIds : IsRefresh(r) => refresh[r].prev # rot[w].tok
            /\ \A r \in RefreshIds : Live(r) => refresh[r].family # rot[w].family
        BY <2>1 DEF RotFirst, RotAlone, RotMinting
      <3>4. OneLivePerFamily'
        BY <3>1, <3>2, <3>3, ZenonT(30) DEF RotFirst, OneLine, OneLivePerFamily
      <3>5. RotatedOnce'
        BY <3>1, <3>2, <3>3 DEF RotFirst, OneLine, RotatedOnce
      <3>6. ReplayEndsFamily'
        <4> SUFFICES ASSUME NEW f \in swept, NEW r \in RefreshIds, IsRefresh(r)',
                            refresh'[r].family = f
                     PROVE  refresh'[r].revoked
          BY <2>1 DEF ReplayEndsFamily, Family
        <4> QED BY <3>1, <3>2, <3>3 DEF RotFirst, OneLine, ReplayEndsFamily, Family
      <3>7. (\A f \in swept : IsRefresh(f))'
        BY <2>1, <3>1, <3>2 DEF RotFirst, OneLine, RotTypeOK
      <3>8. rot'[w].pc = "log"
        BY <1>11, <2>1, <2>3, SMT DEF RotCreateRefreshToken, RotTypeOK, RotWorking
      <3>9. RotAlone(w)'
        BY <3>8 DEF RotAlone, RotMinting
      <3>10. ASSUME NEW v \in Rotators, v # w
             PROVE  RotAlone(v)'
        <4>1. CASE rot[v].pc \in RotMinting
          <5>1. /\ rot[v].family # rot[w].family /\ rot[v].tok # rot[w].tok
                /\ rot'[v] = rot[v] /\ rot[v].tok \in RefreshIds
            BY <1>3, <1>4, <2>1, <3>10, <4>1, SMT DEF RotMinting
          <5>2. RotAlone(v)
            BY DEF RotFirst
          <5>3. /\ rot[v].family \notin swept'
                /\ \A r \in RefreshIds : IsRefresh(r)' => refresh'[r].prev # rot[v].tok
            BY <2>1, <3>1, <3>2, <4>1, <5>1, <5>2 DEF RotAlone
          <5>4. rot[v].pc = "mark" =>
                   \A r \in RefreshIds :
                       Live(r)' /\ refresh'[r].family = rot[v].family => r = rot[v].tok
            BY <3>1, <3>2, <5>1, <5>2 DEF RotAlone
          <5>5. rot[v].pc # "mark" =>
                   \A r \in RefreshIds : Live(r)' => refresh'[r].family # rot[v].family
            BY <3>1, <3>2, <4>1, <5>1, <5>2 DEF RotAlone
          <5> QED BY <5>1, <5>3, <5>4, <5>5 DEF RotAlone
        <4>2. CASE rot[v].pc \notin RotMinting
          BY <2>1, <3>10, <4>2 DEF RotAlone, RotMinting
        <4> QED BY <4>1, <4>2
      <3> QED BY <3>4, <3>5, <3>6, <3>7, <3>9, <3>10 DEF RotFirst, OneLine
    <2> QED BY <2>2, <2>3
  <1> QED
    BY <1>6, <1>7, <1>8, <1>9, <1>10, <1>11 DEF RotNext

---------------------------------------------------------------------------

\* Rotation opens no session: its access tokens belong to a client.
LEMMA RotOpensNone ==
    ASSUME StoreTypeOK, RotTypeOK, RotNext
    PROVE  NoNewSession
  <1>1. ASSUME NEW w \in Rotators, RotCreateAccessToken(w)
        PROVE  NoNewSession
    <2>1. rot[w].client \in Clients /\ rot[w].client # None
      BY <1>1, RotShape, StoreAssumption DEF RotCreateAccessToken, RotWorking
    <2>2. \A a \in AccessIds : access'[a] = access[a] \/ access'[a].client = rot[w].client
      BY <1>1, SMT DEF RotCreateAccessToken, CreateAccessToken, StoreTypeOK
    <2> QED BY <2>1, <2>2, OpensNone
  <1> QED BY <1>1, UnchangedOpensNone, ZenonT(30)
      DEF RotNext, RotGetClient, RotLookup, RotDecide, RotRevokeFamily, RotLogReplay, RotMarkUsed,
          RotGenerate, RotCreateRefreshToken, RotLogRotated, RotRespond, RotFail, storeVars
=============================================================================
