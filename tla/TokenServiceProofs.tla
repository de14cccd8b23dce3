------------------------ MODULE TokenServiceProofs ------------------------
(***************************************************************************)
(* TokenService for any number of clients, users, codes, tokens and        *)
(* concurrent requests, and any bound of the clock.                        *)
(*                                                                         *)
(* The argument is assume-guarantee: every step of every component is a    *)
(* StoreStep, and what a request in flight remembers of the tables stays   *)
(* true under StoreStep.  So the proof that a component keeps its          *)
(* invariant looks at its own actions only, and the composition is         *)
(* propositional.                                                          *)
(***************************************************************************)
EXTENDS MCTokenService, CodeExchangeProofs, RotationProofs

\* Zenon proves the leaves that cite no other prover.
USE Zenon

\* Every token that a request carries or a caller holds exists.
Known == ExKnown /\ RotKnown /\ RevKnown /\ LoginKnown /\ HeldKnown

\* TypeOK is not inductive by itself: the row that a request is about to update, or
\* the claims it is about to copy, have to exist.
TypeInv == TypeOK /\ Known

\* The inductive invariant of the safety theorems.
IInv == TypeInv /\ ExSafe /\ RotSafe

---------------------------------------------------------------------------
(* Types                                                                   *)

\* The empty tables are well typed.
LEMMA TypeInit == Init => TypeInv
  <1> SUFFICES ASSUME Init PROVE TypeInv
    OBVIOUS
  <1>1. StoreTypeOK /\ HeldKnown
    BY DEF Init, StoreInit, StoreTypeOK, HeldKnown
  <1>2. ExTypeOK /\ ExKnown
    BY DEF Init, ExInit, ExTypeOK, ExKnown, ExIdle
  <1>3. RotTypeOK /\ RotKnown
    BY DEF Init, RotInit, RotTypeOK, RotKnown, RotIdle
  <1>4. RevTypeOK /\ RevKnown
    BY DEF Init, RevInit, RevTypeOK, RevKnown, RevIdle
  <1>5. LoginTypeOK /\ LoginKnown /\ GateTypeOK
    BY DEF Init, LoginInit, LoginTypeOK, LoginKnown, LoginIdle, LoginHolding, GateInit,
           GateTypeOK, GateIdle
  <1> QED BY <1>1, <1>2, <1>3, <1>4, <1>5 DEF TypeInv, TypeOK, Known

\* The clock only moves forward.
LEMMA TickStep ==
    ASSUME StoreTypeOK, HeldKnown, Tick
    PROVE  StoreTypeOK' /\ HeldKnown' /\ StoreStep /\ RootsOnly
  BY StutterStep, NoRoots, SMT DEF Tick, StoreTypeOK, HeldKnown, StoreStep

\* Every step keeps the types and is a StoreStep; one that is not of Rotation
\* inserts no refresh token but the first of a family.
LEMMA TypeStep ==
    ASSUME TypeInv, Next
    PROVE  TypeInv' /\ StoreStep /\ (RootsOnly \/ RotNext)
  <1> USE DEF TypeInv, TypeOK, Known
  <1>1. CASE ExNext /\ UNCHANGED <<rotVars, revVars, loginVars, gate>>
    <2>1. StoreTypeOK' /\ ExTypeOK' /\ ExKnown' /\ HeldKnown' /\ StoreStep
      BY <1>1, ExStep
    <2> QED BY <1>1, <2>1, ExRoots, RotKept, RevKept, LoginKept DEF GateTypeOK
  <1>2. CASE RotNext /\ UNCHANGED <<exVars, revVars, loginVars, gate>>
    <2>1. StoreTypeOK' /\ RotTypeOK' /\ RotKnown' /\ HeldKnown' /\ StoreStep
      BY <1>2, RotStep
    <2> QED BY <1>2, <2>1, ExKept, RevKept, LoginKept DEF GateTypeOK
  <1>3. CASE RevNext /\ UNCHANGED <<exVars, rotVars, loginVars, gate>>
    <2>1. StoreTypeOK' /\ RevTypeOK' /\ RevKnown' /\ HeldKnown' /\ StoreStep /\ RootsOnly
      BY <1>3, RevStep
    <2> QED BY <1>3, <2>1, ExKept, RotKept, LoginKept DEF GateTypeOK
  <1>4. CASE LoginNext /\ UNCHANGED <<exVars, rotVars, revVars, gate>>
    <2>1. StoreTypeOK' /\ LoginTypeOK' /\ LoginKnown' /\ HeldKnown' /\ StoreStep /\ RootsOnly
      BY <1>4, LoginStep
    <2> QED BY <1>4, <2>1, ExKept, RotKept, RevKept DEF GateTypeOK
  <1>5. CASE GateNext /\ UNCHANGED <<exVars, rotVars, revVars, loginVars>>
    <2>1. StoreTypeOK' /\ GateTypeOK' /\ HeldKnown' /\ StoreStep /\ RootsOnly
      BY <1>5, GateStep
    <2> QED BY <1>5, <2>1, ExKept, RotKept, RevKept, LoginKept
  <1>6. CASE (AdminNext \/ Tick) /\ UNCHANGED <<exVars, rotVars, revVars, loginVars, gate>>
    <2>1. StoreTypeOK' /\ HeldKnown' /\ StoreStep /\ RootsOnly
      BY <1>6, AdminStep, TickStep
    <2> QED BY <1>6, <2>1, ExKept, RotKept, RevKept, LoginKept DEF GateTypeOK
  <1> QED BY <1>1, <1>2, <1>3, <1>4, <1>5, <1>6 DEF Next

\* A step that changes nothing.
LEMMA TypeStutter ==
    ASSUME TypeInv, UNCHANGED vars
    PROVE  TypeInv'
  BY DEF TypeInv, TypeOK, Known, vars, storeVars, exVars, rotVars, revVars, loginVars,
         StoreTypeOK, ExTypeOK, RotTypeOK, RevTypeOK, LoginTypeOK, GateTypeOK,
         ExKnown, RotKnown, RevKnown, LoginKnown, HeldKnown

\* The rows of the tables and the locals of every request in flight keep their
\* types, whatever the handlers of the token endpoints interleave.
THEOREM TypeCorrect == Spec => []TypeOK
  <1>1. Init => TypeInv
    BY TypeInit
  <1>2. TypeInv /\ [Next]_vars => TypeInv'
    BY TypeStep, TypeStutter
  <1>3. TypeInv => TypeOK
    BY DEF TypeInv
  <1> QED BY <1>1, <1>2, <1>3, PTL DEF Spec

---------------------------------------------------------------------------
(* Safety                                                                  *)

\* Nothing is in flight and nothing was issued.
LEMMA SafeInit == Init => IInv
  <1> SUFFICES ASSUME Init PROVE IInv
    OBVIOUS
  <1>1. ExSafe
    BY DEF Init, ExInit, ExSafe, ExSafeAt, ExIdle, ExAccepted, ExMarked
  <1>2. RotSafe
    BY DEF Init, StoreInit, RotInit, RotSafe, RotBound, RotIdle, RotMinting, RotMarked,
           Lineage, Rooted, IsRefresh
  <1> QED BY <1>1, <1>2, TypeInit DEF IInv

\* Every component keeps its own part, and everyone else's as a StoreStep.
LEMMA SafeStep ==
    ASSUME IInv, Next
    PROVE  IInv'
  <1> USE DEF IInv, TypeInv, TypeOK, Known
  <1>1. TypeInv' /\ StoreStep /\ (RootsOnly \/ RotNext)
    BY TypeStep
  <1>2. ExSafe'
    <2>1. ExNext \/ UNCHANGED exVars
      BY DEF Next
    <2> QED BY <1>1, <2>1, ExSafeStep, ExSafeKept
  <1>3. RotSafe'
    <2>1. RotNext \/ (UNCHANGED rotVars /\ RootsOnly)
      BY <1>1 DEF Next
    <2> QED BY <1>1, <2>1, RotSafeStep, RotSafeKept
  <1> QED BY <1>1, <1>2, <1>3

\* A step that changes nothing.
LEMMA SafeStutter ==
    ASSUME IInv, UNCHANGED vars
    PROVE  IInv'
  <1>1. TypeInv'
    BY TypeStutter DEF IInv
  <1>2. StoreStep /\ RootsOnly
    BY StutterStep, NoRoots, SMT DEF vars, storeVars, StoreStep, IInv, TypeInv, TypeOK, StoreTypeOK
  <1>3. ExSafe' /\ RotSafe'
    BY <1>1, <1>2, ExSafeKept, RotSafeKept DEF vars, IInv, TypeInv, TypeOK, Known
  <1> QED BY <1>1, <1>3 DEF IInv

\* IInv holds in every reachable state.
LEMMA Invariance == Spec => []IInv
  <1>1. IInv /\ [Next]_vars => IInv'
    BY SafeStep, SafeStutter
  <1> QED BY <1>1, SafeInit, PTL DEF Spec

\* ExchangeCodeForToken accepts no code that was already used, revoked, expired,
\* deleted or bound otherwise when the request came in.
THEOREM LateRedemptionRefused == Spec => []NoLateRedemption
  <1>1. IInv => NoLateRedemption
    BY DEF IInv, ExSafe, ExSafeAt, NoLateRedemption
  <1> QED BY <1>1, Invariance, PTL

\* No access token of a code grant exists while its code is still redeemable, in
\* spite of failures between any two statements of ExchangeCodeForToken.
THEOREM CodeBurnedFirst == Spec => []BurnBeforeMint
  <1>1. IInv => BurnBeforeMint
    BY DEF IInv, ExSafe, Burned, BurnBeforeMint
  <1> QED BY <1>1, Invariance, PTL

\* A refresh token descends from a revoked token of the same family, client and
\* user, whichever rotations, revocations and logouts interleave.
THEOREM LineageHolds == Spec => []Lineage
  <1>1. IInv => Lineage
    BY DEF IInv, RotSafe
  <1> QED BY <1>1, Invariance, PTL

\* RotateRefreshToken never revives a family whose tokens are all revoked once no
\* rotation of it is between its lookup and its insert.
THEOREM DeadFamilyIsFinal == Spec => DeadFamilyStaysDead
  <1>1. ASSUME IInv, Next, NEW f \in RefreshIds, DeadFamily(f)
        PROVE  DeadFamily(f)'
    <2>1. StoreStep /\ (RootsOnly \/ RotNext)
      BY <1>1, TypeStep DEF IInv
    <2>2. RotNext \/ (UNCHANGED rot /\ RootsOnly)
      BY <1>1, <2>1 DEF Next, rotVars
    <2> QED BY <1>1, <2>1, <2>2, DeadStep, DeadKept
        DEF IInv, TypeInv, TypeOK, Known, RotSafe
  <1>2. ASSUME UNCHANGED vars
        PROVE  UNCHANGED <<refresh, rot>>
    BY <1>2 DEF vars, storeVars, rotVars
  <1>3. IInv /\ [Next]_vars =>
           [\A f \in RefreshIds : DeadFamily(f) => DeadFamily(f)']_<<refresh, rot>>
    BY <1>1, <1>2
  <1> QED BY <1>3, Invariance, PTL DEF Spec, DeadFamilyStaysDead

---------------------------------------------------------------------------
(* What overlapping requests break and nothing else does.  Without the     *)
(* hypotheses the first four properties are false: the statements of a     *)
(* request are separate transactions.  SingleSession states its exceptions *)
(* itself.                                                                 *)

\* A step of anyone but a login opens no session.
LEMMA NextOpensNone ==
    ASSUME TypeInv, Next
    PROVE  LoginNext \/ (NoNewSession /\ UNCHANGED loginVars)
  <1> USE DEF TypeInv, TypeOK
  <1>1. ExNext => NoNewSession
    BY ExOpensNone
  <1>2. RotNext => NoNewSession
    BY RotOpensNone
  <1>3. RevNext \/ GateNext \/ AdminNext => NoNewSession
    BY OthersOpenNone
  <1>4. Tick => NoNewSession
    BY UnchangedOpensNone DEF Tick
  <1> QED BY <1>1, <1>2, <1>3, <1>4 DEF Next

\* Every step keeps the inductive forms, each under its hypothesis.
LEMMA FirstStep ==
    ASSUME IInv, [Next]_vars
    PROVE  /\ CodesApart /\ ExFirst => ExFirst'
           /\ FamiliesApart /\ RotFirst => RotFirst'
           /\ LoginFirst => LoginFirst'
  <1> USE DEF IInv, TypeInv, TypeOK, Known
  <1>1. CASE Next
    <2>1. TypeInv' /\ StoreStep /\ (RootsOnly \/ RotNext)
      BY <1>1, TypeStep
    <2>2. ASSUME CodesApart, ExFirst
          PROVE  ExFirst'
      <3>1. ExNext \/ UNCHANGED exVars
        BY <1>1 DEF Next
      <3> QED BY <2>2, <3>1, ExFirstStep, ExFirstKept
    <2>3. ASSUME FamiliesApart, RotFirst
          PROVE  RotFirst'
      <3>1. RotNext \/ (UNCHANGED rotVars /\ RootsOnly)
        BY <1>1, <2>1 DEF Next
      <3> QED BY <2>1, <2>3, <3>1, RotFirstStep, RotFirstKept
    <2>4. ASSUME LoginFirst
          PROVE  LoginFirst'
      BY <1>1, <2>4, NextOpensNone, LoginFirstStep, LoginFirstKept
    <2> QED BY <2>2, <2>3, <2>4
  <1>2. CASE UNCHANGED vars
    <2> USE <1>2 DEF vars, storeVars
    <2>1. TypeInv' /\ StoreStep /\ RootsOnly
      BY TypeStutter, StutterStep, NoRoots, SMTT(30) DEF StoreStep, StoreTypeOK
    <2>2. RotFirst => RotFirst'
      BY <2>1, RotFirstKept
    <2> QED BY <2>2, ExFirstKept, UnchangedOpensNone, LoginFirstKept
  <1> QED BY <1>1, <1>2

\* Nothing is in flight and nothing was issued.
LEMMA FirstInit == Init => ExFirst /\ RotFirst /\ LoginFirst
  <1> SUFFICES ASSUME Init PROVE ExFirst /\ RotFirst /\ LoginFirst
    OBVIOUS
  <1>1. ExFirst
    BY DEF Init, ExInit, ExFirst, SingleUse, ExIdle, ExUnspent
  <1>2. RotFirst
    BY DEF Init, StoreInit, RotInit, RotFirst, OneLine, OneLivePerFamily, RotatedOnce,
           ReplayEndsFamily, RotAlone, RotIdle, RotMinting, Live, IsRefresh
  <1>3. LoginFirst
    BY DEF Init, StoreInit, LoginInit, LoginFirst, SingleSession, Sessions, LoginIdle, IsAccess
  <1> QED BY <1>1, <1>2, <1>3

\* ExchangeCodeForToken's "single-use enforcement" holds for every code that is
\* never presented by two requests at the same time: however often it is presented
\* again, and wherever a request fails, one access token is issued for it.
THEOREM CodeSpentOnce == Spec /\ []CodesApart => []SingleUse
  <1>1. ExFirst => SingleUse
    BY DEF ExFirst
  <1> QED BY <1>1, FirstInit, FirstStep, Invariance, PTL DEF Spec

\* RotateRefreshToken gives a refresh token at most one successor, as long as no two
\* rotations of its family overlap.
THEOREM TokenRotatedOnce == Spec /\ []FamiliesApart => []RotatedOnce
  <1>1. RotFirst => RotatedOnce
    BY DEF RotFirst, OneLine
  <1> QED BY <1>1, FirstInit, FirstStep, Invariance, PTL DEF Spec

\* Then a family also has at most one valid token, ...
THEOREM FamilyHasOneLive == Spec /\ []FamiliesApart => []OneLivePerFamily
  <1>1. RotFirst => OneLivePerFamily
    BY DEF RotFirst, OneLine
  <1> QED BY <1>1, FirstInit, FirstStep, Invariance, PTL DEF Spec

\* ... and none once a replay was detected in it: step 3 of RotateRefreshToken ends
\* the family for good.
THEOREM ReplayIsFinal == Spec /\ []FamiliesApart => []ReplayEndsFamily
  <1>1. RotFirst => ReplayEndsFamily
    BY DEF RotFirst, OneLine
  <1> QED BY <1>1, FirstInit, FirstStep, Invariance, PTL DEF Spec

\* A login or a change of password leaves two sessions of a user in force only where
\* no statement of theirs could see the other session: RevokeAllUserAccessTokens
\* comes before the INSERT, and ChangePassword runs none.
THEOREM OneSessionPerUser == Spec => []SingleSession
  <1>1. LoginFirst => SingleSession
    BY DEF LoginFirst
  <1> QED BY <1>1, FirstInit, FirstStep, Invariance, PTL DEF Spec

\* The serial mix of requests satisfies the hypotheses, and mix never changes.
LEMMA SerialFirst == MCSpec => [](mix = "serial" => ExFirst /\ RotFirst)
  <1> DEFINE Serial == mix = "serial" => /\ Alone(Exchangers, ex) /\ Alone(Rotators, rot)
                                         /\ ExFirst /\ RotFirst
  <1>1. Within /\ mix = "serial" => Alone(Exchangers, ex) /\ Alone(Rotators, rot)
    BY DEF Within
  <1>2. (Within /\ mix = "serial" => Alone(Exchangers, ex) /\ Alone(Rotators, rot))'
    BY DEF Within
  <1>3. MCInit => Init /\ Serial
    BY <1>1, FirstInit DEF MCInit
  <1>4. ASSUME [MCNext]_<<vars, mix>>
        PROVE  [Next]_vars /\ UNCHANGED mix
    BY <1>4 DEF MCNext
  <1>5. ASSUME IInv, Serial, [MCNext]_<<vars, mix>>
        PROVE  Serial'
    <2> SUFFICES ASSUME mix = "serial", UNCHANGED mix
                 PROVE  /\ Alone(Exchangers, ex)' /\ Alone(Rotators, rot)'
                        /\ ExFirst' /\ RotFirst'
      BY <1>4, <1>5
    <2>1. Alone(Exchangers, ex)' /\ Alone(Rotators, rot)'
      BY <1>2, <1>5 DEF MCNext, vars, exVars, rotVars, Alone
    <2>2. CodesApart /\ FamiliesApart
      BY <1>5 DEF Alone, CodesApart, FamiliesApart
    <2> QED BY <1>4, <1>5, <2>1, <2>2, FirstStep
  <1> QED BY <1>3, <1>4, <1>5, Invariance, PTL DEF MCSpec, Spec

\* So what the serial mix checks on a small instance holds on every one: a code is
\* exchanged once, ...
THEOREM SerialSpentOnce == MCSpec => []SerialSingleUse
  <1>1. (mix = "serial" => ExFirst /\ RotFirst) => SerialSingleUse
    BY DEF SerialSingleUse, ExFirst
  <1> QED BY <1>1, SerialFirst, PTL

\* ... a refresh token is rotated once, ...
THEOREM SerialTokenRotatedOnce == MCSpec => []SerialRotatedOnce
  <1>1. (mix = "serial" => ExFirst /\ RotFirst) => SerialRotatedOnce
    BY DEF SerialRotatedOnce, RotFirst, OneLine
  <1> QED BY <1>1, SerialFirst, PTL

\* ... a family has one valid token, ...
THEOREM SerialFamilyHasOneLive == MCSpec => []SerialOneLive
  <1>1. (mix = "serial" => ExFirst /\ RotFirst) => SerialOneLive
    BY DEF SerialOneLive, RotFirst, OneLine
  <1> QED BY <1>1, SerialFirst, PTL

\* ... and none after RotateRefreshToken has detected a replay in it.
THEOREM SerialReplayIsFinal == MCSpec => []SerialReplayEnds
  <1>1. (mix = "serial" => ExFirst /\ RotFirst) => SerialReplayEnds
    BY DEF SerialReplayEnds, RotFirst, OneLine
  <1> QED BY <1>1, SerialFirst, PTL

---------------------------------------------------------------------------
(* The rows and the audit log.  HeldIsRecorded, NoLateAdmission and        *)
(* RevocationAuditTruthful are not inductive: they need that a row         *)
(* outlives its token, and that a request answers or logs only after its   *)
(* statement.                                                              *)

\* The inductive form of HeldIsRecorded.
Recorded == RowsMatch /\ ExRecorded /\ RotRecorded /\ LoginRecorded /\ HeldStored

\* Everyone else inserts no row and hands out no token.
LEMMA OthersRecord ==
    ASSUME TypeInv, RevNext \/ GateNext \/ AdminNext \/ Tick
    PROVE  UNCHANGED held /\ \A a \in AccessIds : access[a] = NoRow => access'[a] = NoRow
  <1>1. RevNext => UNCHANGED held /\ \A a \in AccessIds : access[a] = NoRow => access'[a] = NoRow
    BY ZenonT(30) DEF RevNext, RevBegin, RevLookupRefresh, RevRevokeRefresh, RevLogRefresh, RevLookupAccess,
           RevRevokeAccess, RevLogAccess, RevFail, storeVars, RevokeAccessToken, IsAccess,
           TypeInv, TypeOK, StoreTypeOK
  <1>2. GateNext => UNCHANGED held /\ \A a \in AccessIds : access[a] = NoRow => access'[a] = NoRow
    BY DEF GateNext, GateValidate, GateCheckRevoked, GateServe, LogoutRevokeToken,
           LogoutRevokeRefreshTokens, GateFail, storeVars, RevokeAccessToken, IsAccess,
           TypeInv, TypeOK, StoreTypeOK
  <1>3. AdminNext => UNCHANGED held /\ \A a \in AccessIds : access[a] = NoRow => access'[a] = NoRow
    BY DEF AdminNext, AdminRevokeAuthorizationCode, AdminRevokeAccessToken,
           AdminRevokeUserSessions, DeleteClient, UpdateClient, CleanupExpiredCodes,
           CleanupExpiredTokens, DeleteExpiredAccessTokens, RevokeAccessToken, IsAccess,
           TypeInv, TypeOK, StoreTypeOK
  <1>4. Tick => UNCHANGED <<held, access>>
    BY DEF Tick
  <1> QED BY <1>1, <1>2, <1>3, <1>4

\* Every step keeps Recorded.
LEMMA RecordedStep ==
    ASSUME TypeInv, Recorded, Next
    PROVE  Recorded'
  <1> USE DEF TypeInv, TypeOK, Known
  <1>1. TypeInv' /\ StoreStep
    BY TypeStep
  <1>2. CASE ExNext /\ UNCHANGED <<rot, login>>
    BY <1>1, <1>2, ExRecords, RotRecordedKept, LoginRecordedKept DEF Recorded
  <1>3. CASE RotNext /\ UNCHANGED <<ex, login>>
    BY <1>1, <1>3, RotRecords, ExRecordedKept, LoginRecordedKept DEF Recorded
  <1>4. CASE LoginNext /\ UNCHANGED <<ex, rot>>
    BY <1>1, <1>4, LoginRecords, ExRecordedKept, RotRecordedKept DEF Recorded
  <1>5. CASE (RevNext \/ GateNext \/ AdminNext \/ Tick) /\ UNCHANGED <<ex, rot, login>>
    <2>1. RowsMatch' /\ HeldStored'
      BY <1>1, <1>5, OthersRecord, RowsKept, HeldStoredKept DEF Recorded
    <2> QED BY <1>1, <1>5, <2>1, ExRecordedKept, RotRecordedKept, LoginRecordedKept DEF Recorded
  <1> QED BY <1>2, <1>3, <1>4, <1>5 DEF Next, exVars, rotVars, loginVars

\* Of the other handlers only RotateRefreshToken writes one of the events, and then
\* it was given a revoked token of the family.
LEMMA OthersLog ==
    ASSUME IInv, StoreTypeOK', StoreStep,
           ExNext \/ RotNext \/ LoginNext \/ GateNext \/ AdminNext \/ Tick
    PROVE  NewEventsTrue
  <1> DEFINE Own == {"refresh_token_revoked", "access_token_revoked",
                     "refresh_token_family_revoked"}
  <1>0. (\A e \in audit' \ audit : e.event \notin Own) => NewEventsTrue
    BY DEF NewEventsTrue, EventTrue
  <1>1. UNCHANGED audit => NewEventsTrue
    BY DEF NewEventsTrue
  <1>2. ASSUME NEW event, NEW subject, LogEvent(event, subject), event \notin Own
        PROVE  NewEventsTrue
    BY <1>0, <1>2, Logs
  <1>3. ASSUME NEW w \in Rotators, RotLogReplay(w)
        PROVE  NewEventsTrue
    <2>1. \A e \in audit' \ audit :
             /\ e.event \in {"replay_detected", "refresh_token_family_revoked"}
             /\ e.subject = rot[w].family
      BY <1>3, SMT DEF RotLogReplay
    <2>2. /\ rot[w].tok \in RefreshIds /\ refresh[rot[w].tok] # NoRow
          /\ refresh[rot[w].tok].revoked /\ refresh[rot[w].tok].family = rot[w].family
      BY <1>3, RotShape
      DEF RotLogReplay, IInv, TypeInv, TypeOK, Known, RotKnown, RotSafe, RotBound
    <2>3. UNCHANGED refresh
      BY <1>3 DEF RotLogReplay
    <2> QED BY <2>1, <2>2, <2>3 DEF NewEventsTrue, EventTrue, IsRefresh
  <1>4. ExNext => NewEventsTrue
    <2>1. ASSUME NEW w \in Exchangers, ExLogIssued(w)
          PROVE  NewEventsTrue
      BY <1>2, <2>1, SMT DEF ExLogIssued
    <2> QED BY <1>1, <2>1, ZenonT(30)
        DEF ExNext, IssueCode, ExGetClient, ExGetAuthorizationCode, ExCheckCode, ExMarkUsed,
            ExGenerate, ExCreateAccessToken, ExCreateRefreshToken, ExRespond, ExFail, storeVars
  <1>5. RotNext => NewEventsTrue
    <2>1. ASSUME NEW w \in Rotators, RotLogRotated(w)
          PROVE  NewEventsTrue
      BY <1>2, <2>1, SMT DEF RotLogRotated
    <2> QED BY <1>1, <1>3, <2>1, ZenonT(30)
        DEF RotNext, RotGetClient, RotLookup, RotDecide, RotRevokeFamily, RotMarkUsed,
            RotGenerate, RotCreateAccessToken, RotCreateRefreshToken, RotRespond, RotFail,
            storeVars
  <1>6. LoginNext => NewEventsTrue
    <2>1. ASSUME NEW w \in Logins, ChangeLog(w)
          PROVE  NewEventsTrue
      <3>1. \A e \in audit' \ audit : e.event \notin Own
        BY <2>1, SMT DEF ChangeLog
      <3> QED BY <1>0, <3>1
    <2> QED BY <1>1, <2>1
        DEF LoginNext, LoginVerified, PasswordChanged, ChangeRevokeRefreshTokens, LoginGenerate,
            LoginRevokeAll, StoreDirectLoginToken, LoginRespond, LoginFail, storeVars
  <1>7. GateNext \/ Tick => NewEventsTrue
    BY <1>1
    DEF GateNext, GateValidate, GateCheckRevoked, GateServe, LogoutRevokeToken,
        LogoutRevokeRefreshTokens, GateFail, Tick, storeVars
  <1>8. AdminNext => NewEventsTrue
    <2>1. ASSUME NEW u \in Users, AdminRevokeUserSessions(u)
          PROVE  NewEventsTrue
      BY <1>2, <2>1, SMT DEF AdminRevokeUserSessions
    <2> QED BY <1>1, <2>1
        DEF AdminNext, AdminRevokeAuthorizationCode, AdminRevokeAccessToken, DeleteClient,
            UpdateClient, CleanupExpiredCodes, CleanupExpiredTokens
  <1> QED BY <1>4, <1>5, <1>6, <1>7, <1>8

\* The inductive invariant of the theorems below.
RInv == IInv /\ Recorded /\ GateSafe /\ AuditSafe

\* Nothing is in flight, stored or logged.
LEMMA RInvInit == Init => RInv
  <1> SUFFICES ASSUME Init PROVE RInv
    OBVIOUS
  <1>1. Recorded
    <2>1. RowsMatch /\ HeldStored
      BY StoreAssumption DEF Init, StoreInit, RowsMatch, HeldStored, IsAccess
    <2>2. ExRecorded /\ RotRecorded /\ LoginRecorded
      BY DEF Init, ExInit, RotInit, LoginInit, ExIdle, RotIdle, LoginIdle, ExRecorded,
             RotRecorded, LoginRecorded, LoginHolding
    <2> QED BY <2>1, <2>2 DEF Recorded
  <1>2. GateSafe /\ AuditSafe
    BY DEF Init, StoreInit, GateInit, RevInit, GateIdle, RevIdle, GateSafe, GateSafeAt,
           AuditSafe, RevSafeAt
  <1> QED BY <1>1, <1>2, SafeInit DEF RInv

\* Every step keeps it.
LEMMA RInvStep ==
    ASSUME RInv, Next
    PROVE  RInv'
  <1> USE DEF RInv, IInv, TypeInv, TypeOK, Known
  <1>1. IInv' /\ StoreStep
    BY TypeStep, SafeStep
  <1>2. Recorded'
    BY RecordedStep
  <1>3. GateSafe'
    <2>1. GateNext \/ UNCHANGED gate
      BY DEF Next
    <2> QED BY <1>1, <2>1, GateSafeStep DEF Recorded
  <1>4. AuditSafe'
    <2>1. \/ RevNext
          \/ /\ ExNext \/ RotNext \/ LoginNext \/ GateNext \/ AdminNext \/ Tick
             /\ UNCHANGED rev
      BY DEF Next, revVars
    <2> QED BY <1>1, <2>1, RevLogs, OthersLog, AuditSafeKept
  <1> QED BY <1>1, <1>2, <1>3, <1>4

\* A step that changes nothing.
LEMMA RInvStutter ==
    ASSUME RInv, UNCHANGED vars
    PROVE  RInv'
  <1> USE DEF vars, storeVars, exVars, rotVars, revVars, loginVars
  <1>1. IInv'
    BY SafeStutter DEF RInv
  <1>2. Recorded'
    BY DEF RInv, Recorded, RowsMatch, ExRecorded, RotRecorded, LoginRecorded, HeldStored, IsAccess
  <1>3. GateSafe'
    BY DEF RInv, GateSafe, GateSafeAt, Spent, IsAccess
  <1>4. AuditSafe'
    BY DEF RInv, AuditSafe, RevSafeAt, EventTrue, Spent, IsAccess, IsRefresh
  <1> QED BY <1>1, <1>2, <1>3, <1>4 DEF RInv

\* RInv holds in every reachable state.
LEMMA RInvariance == Spec => []RInv
  <1>1. RInv /\ [Next]_vars => RInv'
    BY RInvStep, RInvStutter
  <1> QED BY <1>1, RInvInit, PTL DEF Spec

\* IsTokenRevoked reads "no row" as "not revoked", and may: every access token that
\* ExchangeCodeForToken, RotateRefreshToken or Login has handed out has its row, or
\* has expired.
THEOREM HeldAlwaysRecorded == Spec => []HeldIsRecorded
  <1>1. RInv => HeldIsRecorded
    BY DEF RInv, Recorded, RowsMatch, HeldStored, HeldIsRecorded, IsAccess
  <1> QED BY <1>1, RInvariance, PTL

\* AuthMiddleware admits no request whose token was revoked before it came in, while
\* the token is valid.
THEOREM LateAdmissionRefused == Spec => []NoLateAdmission
  <1>1. RInv => NoLateAdmission
    BY DEF RInv, GateSafe, GateSafeAt, NoLateAdmission
  <1> QED BY <1>1, RInvariance, PTL

\* The token that an event of RevokeAnyToken names is revoked, and a family that
\* RotateRefreshToken reports as revoked has a revoked token, whether or not the UPDATE
\* of the family failed.
THEOREM AuditIsTruthful == Spec => []RevocationAuditTruthful
  <1>1. RInv => RevocationAuditTruthful
    <2>1. ASSUME NEW a \in AccessIds, Spent(a), IsAccess(a)
          PROVE  access[a].revoked
      BY <2>1 DEF Spent, IsAccess
    <2> QED BY <2>1 DEF RInv, AuditSafe, EventTrue, RevocationAuditTruthful
  <1> QED BY <1>1, RInvariance, PTL

---------------------------------------------------------------------------
(* Refinement: TokenService implements Credentials.  A step of the service *)
(* either inserts one row, or inserts none and writes one of the three     *)
(* tables.  The second kind ends credentials, because every step is a      *)
(* StoreStep; the first kind needs what the request remembers, which is    *)
(* what IInv says about it.                                                *)

\* No row is inserted, and one table is written.
WritesCodes ==
    /\ \A k \in Codes : codes[k] = NoRow => codes'[k] = NoRow
    /\ UNCHANGED <<access, refresh, grants>>

WritesAccess ==
    /\ \A a \in AccessIds : access[a] = NoRow => access'[a] = NoRow
    /\ FamilyTree' = FamilyTree
    /\ UNCHANGED <<codes, grants>>

WritesRefresh ==
    /\ \A r \in RefreshIds : refresh[r] = NoRow => refresh'[r] = NoRow
    /\ UNCHANGED <<codes, access, grants>>

\* A step of the abstract service, or none.
Abstract == Promise!Next \/ UNCHANGED Promise!vars

---------------------------------------------------------------------------
(* Statements that end credentials                                         *)

\* MarkAuthorizationCodeUsed, RevokeAuthorizationCode and the clean-up.
LEMMA EndsCodes ==
    ASSUME StoreTypeOK, StoreTypeOK', StoreStep, WritesCodes
    PROVE  Abstract
  <1> DEFINE S == {k \in Codes : CodeStatus[k] = "good" /\ CodeStatus'[k] # "good"}
  <1>1. ASSUME NEW k \in Codes
        PROVE  CodeStatus'[k] = IF k \in S THEN "ended" ELSE CodeStatus[k]
    BY StoreAssumption, RowAssumption
    DEF WritesCodes, StoreTypeOK, StoreStep, CodesStep, CodeRow, IsCode, CodeStatus
  <1>2. DOMAIN CodeStatus = Codes /\ CodeStatus' = [k \in Codes |-> CodeStatus'[k]]
    BY DEF CodeStatus
  <1>3. UNCHANGED <<TokenStatus, FamilyTree, grants>>
    BY DEF WritesCodes, TokenStatus, FamilyTree
  <1>4. S \in SUBSET Codes /\ \A k \in S : CodeStatus[k] = "good"
    OBVIOUS
  <1> HIDE DEF S
  <1>5. CodeStatus' = Promise!Ended(CodeStatus, S)
    <2>1. CodeStatus' = [k \in Codes |-> IF k \in S THEN "ended" ELSE CodeStatus[k]]
      BY <1>1, <1>2
    <2> QED BY <1>2, <2>1 DEF Promise!Ended
  <1>6. Promise!EndCodes(S)
    BY <1>3, <1>4, <1>5 DEF Promise!EndCodes
  <1> QED BY <1>4, <1>6 DEF Abstract, Promise!Next

\* RevokeAccessToken, RevokeAccessTokensByUser and the clean-up.
LEMMA EndsTokens ==
    ASSUME StoreTypeOK, StoreTypeOK', StoreStep, WritesAccess
    PROVE  Abstract
  <1> DEFINE S == {a \in AccessIds : TokenStatus[a] = "good" /\ TokenStatus'[a] # "good"}
  <1>1. ASSUME NEW a \in AccessIds
        PROVE  TokenStatus'[a] = IF a \in S THEN "ended" ELSE TokenStatus[a]
    BY StoreAssumption, RowAssumption
    DEF WritesAccess, StoreTypeOK, StoreStep, AccessStep, AccessRow, IsAccess, TokenStatus
  <1>2. DOMAIN TokenStatus = AccessIds /\ TokenStatus' = [a \in AccessIds |-> TokenStatus'[a]]
    BY DEF TokenStatus
  <1>3. UNCHANGED <<CodeStatus, FamilyTree, grants>>
    BY DEF WritesAccess, CodeStatus
  <1>4. S \in SUBSET AccessIds /\ \A a \in S : TokenStatus[a] = "good"
    OBVIOUS
  <1> HIDE DEF S
  <1>5. TokenStatus' = Promise!Ended(TokenStatus, S)
    <2>1. TokenStatus' = [a \in AccessIds |-> IF a \in S THEN "ended" ELSE TokenStatus[a]]
      BY <1>1, <1>2
    <2> QED BY <1>2, <2>1 DEF Promise!Ended
  <1>6. Promise!EndTokens(S)
    BY <1>3, <1>4, <1>5 DEF Promise!EndTokens
  <1> QED BY <1>4, <1>6 DEF Abstract, Promise!Next

\* A member of a family is not NULL.
LEMMA NotNull ==
    ASSUME NEW g \in BOOLEAN, NEW f \in RefreshIds, NEW p \in RefreshIds \cup {None},
           NEW o \in Clients \X Users
    PROVE  [good |-> g, root |-> f, prev |-> p, owner |-> o] # None
  <1>1. [good |-> g, root |-> f, prev |-> p, owner |-> o] \in
           [good : BOOLEAN, root : RefreshIds, prev : RefreshIds \cup {None},
            owner : Clients \X Users]
    OBVIOUS
  <1> QED BY <1>1, NoneAssumption

\* MarkRefreshTokenUsed and the statements that revoke refresh tokens.
LEMMA EndsRefreshTokens ==
    ASSUME StoreTypeOK, StoreTypeOK', StoreStep, WritesRefresh
    PROVE  Abstract
  <1> DEFINE S == {r \in RefreshIds : IsRefresh(r) /\ refresh'[r].revoked}
             T == [r \in RefreshIds |-> IF r \in S THEN [FamilyTree[r] EXCEPT !.good = FALSE]
                                        ELSE FamilyTree[r]]
  <1>1. ASSUME NEW r \in RefreshIds, ~IsRefresh(r)
        PROVE  FamilyTree'[r] = FamilyTree[r] /\ r \notin S
    BY <1>1 DEF WritesRefresh, IsRefresh, FamilyTree
  <1>2. ASSUME NEW r \in RefreshIds, IsRefresh(r)
        PROVE  /\ FamilyTree[r] # None
               /\ FamilyTree'[r] = [FamilyTree[r] EXCEPT !.good = ~refresh'[r].revoked]
               /\ ~refresh'[r].revoked => FamilyTree'[r] = FamilyTree[r]
    <2>1. refresh[r] \in RefreshRow /\ refresh'[r] \in RefreshRow
      BY <1>2, ZenonT(30) DEF StoreTypeOK, StoreStep, RefreshStep, IsRefresh
    <2>2. FamilyTree[r] = [good |-> ~refresh[r].revoked, root |-> refresh[r].family,
                           prev |-> refresh[r].prev,
                           owner |-> <<refresh[r].client, refresh[r].user>>]
      BY <1>2 DEF FamilyTree, IsRefresh
    <2>3. FamilyTree'[r] = [good |-> ~refresh'[r].revoked, root |-> refresh[r].family,
                            prev |-> refresh[r].prev,
                            owner |-> <<refresh[r].client, refresh[r].user>>]
      BY <1>2 DEF FamilyTree, IsRefresh, StoreStep, RefreshStep
    <2>4. FamilyTree[r] # None
      <3>1. /\ refresh[r].family \in RefreshIds
            /\ refresh[r].prev \in RefreshIds \cup {None}
            /\ <<refresh[r].client, refresh[r].user>> \in Clients \X Users
        BY <2>1 DEF RefreshRow
      <3>2. (~refresh[r].revoked) \in BOOLEAN
        OBVIOUS
      <3> QED BY <2>2, <3>1, <3>2, NotNull
    <2>5. ~refresh'[r].revoked => ~refresh[r].revoked
      BY <1>2 DEF StoreStep, RefreshStep
    <2> QED BY <2>1, <2>2, <2>3, <2>4, <2>5, SMT DEF RefreshRow
  <1>3. ASSUME NEW r \in RefreshIds
        PROVE  FamilyTree'[r] = T[r]
    <2>1. CASE IsRefresh(r) /\ refresh'[r].revoked
      BY <1>2, <2>1
    <2>2. CASE IsRefresh(r) /\ ~refresh'[r].revoked
      BY <1>2, <2>2
    <2>3. CASE ~IsRefresh(r)
      BY <1>1, <2>3
    <2> QED BY <2>1, <2>2, <2>3
  <1>4. FamilyTree' = T
    BY <1>3 DEF FamilyTree
  <1>5. UNCHANGED <<CodeStatus, TokenStatus, grants>>
    BY DEF WritesRefresh, CodeStatus, TokenStatus
  <1>6. S \in SUBSET RefreshIds /\ \A r \in S : FamilyTree[r] # None
    BY <1>2
  <1>7. Promise!EndRefreshTokens(S)
    BY <1>4, <1>5, <1>6 DEF Promise!EndRefreshTokens
  <1> QED BY <1>6, <1>7 DEF Abstract, Promise!Next

---------------------------------------------------------------------------
(* Statements that issue one                                               *)

\* CreateAuthorizationCode, with a row that is neither used nor revoked.
LEMMA IssuesCode ==
    ASSUME StoreTypeOK, NEW k \in Codes, NEW row \in CodeRow, ~row.used, ~row.revoked,
           CreateAuthorizationCode(k, row), UNCHANGED <<access, refresh, grants>>
    PROVE  Abstract
  <1>1. CodeStatus[k] = "unissued" /\ CodeStatus' = [CodeStatus EXCEPT ![k] = "good"]
    BY StoreAssumption, RowAssumption DEF CreateAuthorizationCode, StoreTypeOK, CodeStatus
  <1>2. Promise!IssueCode(k)
    BY <1>1 DEF Promise!IssueCode, TokenStatus, FamilyTree
  <1> QED BY <1>2 DEF Abstract, Promise!Next

\* CreateAccessToken, with a row that is not revoked.
LEMMA IssuesToken ==
    ASSUME StoreTypeOK, NEW a \in AccessIds, NEW row \in AccessRow, ~row.revoked,
           CreateAccessToken(a, row)
    PROVE  TokenStatus[a] = "unissued" /\ TokenStatus' = [TokenStatus EXCEPT ![a] = "good"]
  BY StoreAssumption, RowAssumption DEF CreateAccessToken, StoreTypeOK, TokenStatus

\* It opens a session when no code is spent on it.
LEMMA OpensSession ==
    ASSUME StoreTypeOK, NEW a \in AccessIds, NEW row \in AccessRow, ~row.revoked,
           CreateAccessToken(a, row), UNCHANGED <<codes, refresh, grants>>
    PROVE  Abstract
  <1>1. Promise!OpenSession(a)
    BY IssuesToken DEF Promise!OpenSession, CodeStatus, FamilyTree
  <1> QED BY <1>1 DEF Abstract, Promise!Next

\* CreateRefreshToken, with a row that is not revoked.
LEMMA IssuesRefreshToken ==
    ASSUME StoreTypeOK, NEW r \in RefreshIds, NEW row \in RefreshRow, ~row.revoked,
           CreateRefreshToken(r, row)
    PROVE  /\ FamilyTree[r] = None
           /\ FamilyTree' = [FamilyTree EXCEPT ![r] =
                               [good |-> TRUE, root |-> row.family, prev |-> row.prev,
                                owner |-> <<row.client, row.user>>]]
  BY RowAssumption DEF CreateRefreshToken, StoreTypeOK, FamilyTree

---------------------------------------------------------------------------
(* The components                                                          *)

\* A step that writes no table of credentials.
LEMMA WritesNone ==
    ASSUME UNCHANGED <<codes, access, refresh, grants>>
    PROVE  WritesCodes
  BY DEF WritesCodes

\* The code grant: the token is minted from a code that the request has burned.
LEMMA ExImplements ==
    ASSUME IInv, ExNext, StoreTypeOK', StoreStep
    PROVE  Abstract
  <1> USE DEF IInv, TypeInv, TypeOK
  <1>1. ASSUME NEW k \in Codes, NEW c \in Clients, NEW u \in Users, NEW uri \in Uris,
               NEW off \in BOOLEAN, IssueCode(k, c, u, uri, off)
        PROVE  Abstract
    <2> DEFINE row == [client |-> c, user |-> u, uri |-> uri, offline |-> off,
                       expires |-> now + CodeTTL, used |-> FALSE, revoked |-> FALSE]
    <2>1. row \in CodeRow /\ ~row.used /\ ~row.revoked
      <3>1. now + CodeTTL \in Nat
        BY StoreAssumption, SMT DEF StoreTypeOK
      <3> QED BY <3>1 DEF CodeRow
    <2>2. CreateAuthorizationCode(k, row) /\ UNCHANGED <<access, refresh, grants>>
      BY <1>1 DEF IssueCode, exVars
    <2> HIDE DEF row
    <2> QED BY <2>1, <2>2, IssuesCode
  <1>2. ASSUME NEW w \in Exchangers, ExMarkUsed(w)
        PROVE  Abstract
    <2>1. WritesCodes
      BY <1>2 DEF ExMarkUsed, MarkAuthorizationCodeUsed, IsCode, WritesCodes, StoreTypeOK
    <2> QED BY <2>1, EndsCodes
  <1>3. ASSUME NEW w \in Exchangers, ExCreateAccessToken(w)
        PROVE  Abstract
    <2>1. ex[w] \in ExGranting /\ ex[w].acc \in AccessIds /\ jwt[ex[w].acc] \in Claims
      BY <1>3, ExShape DEF ExCreateAccessToken, ExTypeOK, ExAccepted, Known, ExKnown, StoreTypeOK
    <2>2. PICK e \in RowExpiry(ex[w].acc) :
             CreateAccessToken(ex[w].acc, [client |-> ex[w].client, user |-> ex[w].user,
                                           expires |-> e, revoked |-> FALSE])
      BY <1>3 DEF ExCreateAccessToken
    <2>3. e \in Nat
      BY <2>1, StoreAssumption, SMT DEF RowExpiry, Claims, StoreTypeOK
    <2> DEFINE row == [client |-> ex[w].client, user |-> ex[w].user,
                       expires |-> e, revoked |-> FALSE]
    <2>4. row \in AccessRow /\ ~row.revoked
      BY <2>1, <2>3 DEF ExGranting, AccessRow
    <2>5. CreateAccessToken(ex[w].acc, row)
      BY <2>2
    <2> HIDE DEF row
    <2>6. /\ TokenStatus[ex[w].acc] = "unissued"
          /\ TokenStatus' = [TokenStatus EXCEPT ![ex[w].acc] = "good"]
      BY <2>1, <2>4, <2>5, IssuesToken
    <2>7. CodeStatus[ex[w].code] = "ended" /\ ex[w].code \in Codes
      <3>1. Burned(ex[w].code)
        BY <1>3 DEF ExSafe, ExSafeAt, ExCreateAccessToken, ExMarked, ExAccepted
      <3> QED BY <2>1, <3>1, StoreAssumption DEF ExGranting, Burned, IsCode, CodeStatus
    <2>8. Promise!Mint(ex[w].code, ex[w].acc)
      BY <1>3, <2>6, <2>7 DEF ExCreateAccessToken, Promise!Mint, CodeStatus, FamilyTree
    <2> QED BY <2>1, <2>7, <2>8 DEF Abstract, Promise!Next
  <1>4. ASSUME NEW w \in Exchangers, NEW r \in RefreshIds, ExCreateRefreshToken(w, r)
        PROVE  Abstract
    <2>1. CASE ~IsAccess(ex[w].acc)
      BY <1>4, <2>1, WritesNone, EndsCodes DEF ExCreateRefreshToken
    <2>2. CASE IsAccess(ex[w].acc)
      <3> DEFINE row == [family |-> r, client |-> ex[w].client, user |-> ex[w].user,
                         access |-> ex[w].acc, prev |-> None,
                         expires |-> now + RefreshTTL, revoked |-> FALSE, reason |-> None]
      <3>1. ex[w] \in ExGranting /\ ex[w].acc \in AccessIds
        BY <1>4, ExShape DEF ExCreateRefreshToken, ExTypeOK, ExAccepted
      <3>2. row \in RefreshRow
        <4>1. ex[w].client \in Clients /\ ex[w].user \in Users
          BY <3>1 DEF ExGranting
        <4>2. now + RefreshTTL \in Nat
          BY StoreAssumption, SMT DEF StoreTypeOK
        <4> QED BY <3>1, <4>1, <4>2 DEF RefreshRow
      <3>3. /\ ~row.revoked /\ row.family = r /\ row.prev = None
            /\ <<row.client, row.user>> \in Clients \X Users
        BY <3>1 DEF ExGranting
      <3>4. CreateRefreshToken(r, row) /\ UNCHANGED <<codes, access, grants>>
        BY <1>4, <2>2 DEF ExCreateRefreshToken
      <3> HIDE DEF row
      <3>5. /\ FamilyTree[r] = None
            /\ FamilyTree' = [FamilyTree EXCEPT ![r] =
                                [good |-> TRUE, root |-> r, prev |-> None,
                                 owner |-> <<row.client, row.user>>]]
        BY <3>2, <3>3, <3>4, IssuesRefreshToken
      <3>6. Promise!StartFamily(r, <<row.client, row.user>>)
        BY <3>4, <3>5 DEF Promise!StartFamily, CodeStatus, TokenStatus
      <3> QED BY <3>3, <3>6 DEF Abstract, Promise!Next
    <2> QED BY <2>1, <2>2
  <1>5. UNCHANGED <<codes, access, refresh, grants>> => Abstract
    BY WritesNone, EndsCodes
  <1> QED
    BY <1>1, <1>2, <1>3, <1>4, <1>5, ZenonT(30)
    DEF ExNext, ExGetClient, ExGetAuthorizationCode, ExCheckCode, ExGenerate, ExLogIssued,
        ExRespond, ExFail, storeVars

\* Rotation: the successor follows a row that the request has marked as used, and
\* takes over its family and its owner.
LEMMA RotImplements ==
    ASSUME IInv, RotNext, StoreTypeOK', StoreStep, UNCHANGED grants
    PROVE  Abstract
  <1> USE DEF IInv, TypeInv, TypeOK
  <1>1. ASSUME NEW w \in Rotators, RotRevokeFamily(w)
        PROVE  Abstract
    <2>1. WritesRefresh
      BY <1>1 DEF RotRevokeFamily, RevokeRefreshTokenFamily, IsRefresh, WritesRefresh
    <2> QED BY <2>1, EndsRefreshTokens
  <1>2. ASSUME NEW w \in Rotators, RotMarkUsed(w)
        PROVE  Abstract
    <2>1. refresh[rot[w].tok] # NoRow
      BY <1>2 DEF RotMarkUsed, Known, RotKnown
    <2>2. WritesRefresh
      BY <1>2, <2>1 DEF RotMarkUsed, MarkRefreshTokenUsed, WritesRefresh, StoreTypeOK
    <2> QED BY <2>2, EndsRefreshTokens
  <1>3. ASSUME NEW w \in Rotators, RotCreateAccessToken(w)
        PROVE  Abstract
    <2>1. rot[w] \in RotWorking /\ rot[w].acc \in AccessIds /\ jwt[rot[w].acc] \in Claims
      BY <1>3, RotShape DEF RotCreateAccessToken, RotTypeOK, Known, RotKnown, StoreTypeOK
    <2>2. PICK e \in RowExpiry(rot[w].acc) :
             CreateAccessToken(rot[w].acc, [client |-> rot[w].client, user |-> rot[w].user,
                                            expires |-> e, revoked |-> FALSE])
      BY <1>3 DEF RotCreateAccessToken
    <2>3. e \in Nat
      BY <2>1, StoreAssumption, SMT DEF RowExpiry, Claims, StoreTypeOK
    <2> DEFINE row == [client |-> rot[w].client, user |-> rot[w].user,
                       expires |-> e, revoked |-> FALSE]
    <2>4. row \in AccessRow /\ ~row.revoked
      BY <2>1, <2>3 DEF RotWorking, AccessRow
    <2>5. CreateAccessToken(rot[w].acc, row) /\ UNCHANGED <<codes, refresh, grants>>
      BY <1>3, <2>2 DEF RotCreateAccessToken
    <2> HIDE DEF row
    <2> QED BY <2>1, <2>4, <2>5, OpensSession
  <1>4. ASSUME NEW w \in Rotators, NEW r \in RefreshIds, RotCreateRefreshToken(w, r)
        PROVE  Abstract
    <2>1. CASE ~IsAccess(rot[w].acc)
      BY <1>4, <2>1, WritesNone, EndsCodes DEF RotCreateRefreshToken
    <2>2. CASE IsAccess(rot[w].acc)
      <3> DEFINE p == rot[w].tok
                 row == [family |-> rot[w].family, client |-> rot[w].client,
                         user |-> rot[w].user, access |-> rot[w].acc, prev |-> p,
                         expires |-> now + RefreshTTL, revoked |-> FALSE, reason |-> None]
      <3>1. rot[w] \in RotWorking /\ rot[w].acc \in AccessIds /\ p \in RefreshIds
        BY <1>4, RotShape DEF RotCreateRefreshToken, RotTypeOK
      <3>2. row \in RefreshRow /\ ~row.revoked
        <4>1. now + RefreshTTL \in Nat
          BY StoreAssumption, SMT DEF StoreTypeOK
        <4>2. /\ rot[w].family \in RefreshIds /\ rot[w].client \in Clients
              /\ rot[w].user \in Users
          BY <3>1 DEF RotWorking
        <4> QED BY <3>1, <4>1, <4>2 DEF RefreshRow
      <3>3. CreateRefreshToken(r, row) /\ UNCHANGED <<codes, access, grants>>
        BY <1>4, <2>2 DEF RotCreateRefreshToken
      <3>4. /\ refresh[p] # NoRow /\ refresh[p].revoked
            /\ refresh[p].family = row.family /\ refresh[p].client = row.client
            /\ refresh[p].user = row.user /\ row.prev = p
        BY <1>4 DEF RotCreateRefreshToken, Known, RotKnown, RotSafe, RotBound,
                    RotMinting, RotMarked
      <3> HIDE DEF row, p
      <3>5. /\ FamilyTree[r] = None
            /\ FamilyTree' = [FamilyTree EXCEPT ![r] =
                                [good |-> TRUE, root |-> row.family, prev |-> row.prev,
                                 owner |-> <<row.client, row.user>>]]
        BY <3>2, <3>3, IssuesRefreshToken
      <3>6. FamilyTree[p] = [good |-> FALSE, root |-> row.family, prev |-> refresh[p].prev,
                             owner |-> <<row.client, row.user>>]
        BY <3>1, <3>4 DEF FamilyTree
      <3>7. FamilyTree[p] # None
        <4>1. /\ row.family \in RefreshIds /\ refresh[p].prev \in RefreshIds \cup {None}
              /\ <<row.client, row.user>> \in Clients \X Users
          BY <3>1, <3>2, <3>4, ZenonT(30) DEF RefreshRow, StoreTypeOK
        <4> QED BY <3>6, <4>1, NotNull
      <3>8. /\ ~FamilyTree[p].good /\ FamilyTree[p].root = row.family
            /\ FamilyTree[p].owner = <<row.client, row.user>>
        BY <3>6, SMT
      <3>9. Promise!Succeed(r, p)
        BY <3>3, <3>4, <3>5, <3>7, <3>8 DEF Promise!Succeed, CodeStatus, TokenStatus
      <3> QED BY <3>1, <3>9 DEF Abstract, Promise!Next
    <2> QED BY <2>1, <2>2
  <1>5. UNCHANGED <<codes, access, refresh>> => Abstract
    BY WritesNone, EndsCodes
  <1> QED
    BY <1>1, <1>2, <1>3, <1>4, <1>5
    DEF RotNext, RotGetClient, RotLookup, RotDecide, RotLogReplay, RotGenerate,
        RotLogRotated, RotRespond, RotFail, storeVars

\* RevokeAnyToken issues nothing.
LEMMA RevImplements ==
    ASSUME IInv, RevNext, StoreTypeOK', StoreStep, UNCHANGED grants
    PROVE  Abstract
  <1> USE DEF IInv, TypeInv, TypeOK
  <1>1. ASSUME NEW w \in Revokers, RevRevokeRefresh(w)
        PROVE  Abstract
    <2>1. refresh[rev[w].tok] # NoRow
      BY <1>1 DEF RevRevokeRefresh, RevTypeOK, Known, RevKnown
    <2>2. WritesRefresh
      BY <1>1, <2>1, ZenonT(30) DEF RevRevokeRefresh, RevokeRefreshToken, WritesRefresh, StoreTypeOK
    <2> QED BY <2>2, EndsRefreshTokens
  <1>2. ASSUME NEW w \in Revokers, RevRevokeAccess(w)
        PROVE  Abstract
    <2>1. WritesAccess
      BY <1>2 DEF RevRevokeAccess, RevokeAccessToken, IsAccess, WritesAccess, StoreTypeOK,
                  FamilyTree
    <2> QED BY <2>1, EndsTokens
  <1>3. UNCHANGED <<codes, access, refresh>> => Abstract
    BY WritesNone, EndsCodes
  <1> QED
    BY <1>1, <1>2, <1>3
    DEF RevNext, RevBegin, RevLookupRefresh, RevLogRefresh, RevLookupAccess, RevLogAccess,
        RevFail, storeVars

\* The direct login ends the user's tokens, and opens a session.
LEMMA LoginImplements ==
    ASSUME IInv, LoginNext, StoreTypeOK', StoreStep, UNCHANGED grants
    PROVE  Abstract
  <1> USE DEF IInv, TypeInv, TypeOK
  <1>1. ASSUME NEW w \in Logins, LoginRevokeAll(w)
        PROVE  Abstract
    <2>1. WritesAccess
      BY <1>1 DEF LoginRevokeAll, RevokeAccessTokensByUser, IsAccess, WritesAccess, FamilyTree
    <2> QED BY <2>1, EndsTokens
  <1>2. ASSUME NEW w \in Logins, StoreDirectLoginToken(w)
        PROVE  Abstract
    <2>1. login[w] \in LoginSigned /\ jwt[login[w].acc] \in Claims
      BY <1>2, SMT DEF StoreDirectLoginToken, LoginTypeOK, LoginIdle, LoginSigning, LoginSigned,
                  LoginHolding, Known, LoginKnown, StoreTypeOK
    <2>2. PICK e \in RowExpiry(login[w].acc) :
             CreateAccessToken(login[w].acc, [client |-> None, user |-> login[w].user,
                                              expires |-> e, revoked |-> FALSE])
      BY <1>2 DEF StoreDirectLoginToken
    <2>3. e \in Nat
      BY <2>1, StoreAssumption, SMTT(30) DEF RowExpiry, Claims, StoreTypeOK
    <2> DEFINE row == [client |-> None, user |-> login[w].user,
                       expires |-> e, revoked |-> FALSE]
    <2>4. row \in AccessRow /\ ~row.revoked
      BY <2>1, <2>3 DEF LoginSigned, AccessRow
    <2>5. CreateAccessToken(login[w].acc, row) /\ UNCHANGED <<codes, refresh, grants>>
      BY <1>2, <2>2 DEF StoreDirectLoginToken
    <2>6. login[w].acc \in AccessIds
      BY <2>1 DEF LoginSigned
    <2> HIDE DEF row
    <2> QED BY <2>4, <2>5, <2>6, OpensSession
  <1>3. ASSUME NEW w \in Logins, ChangeRevokeRefreshTokens(w)
        PROVE  Abstract
    <2>1. WritesRefresh
      BY <1>3 DEF ChangeRevokeRefreshTokens, RevokeRefreshTokensByUser, Live, IsRefresh,
                  WritesRefresh
    <2> QED BY <2>1, EndsRefreshTokens
  <1>4. UNCHANGED <<codes, access, refresh>> => Abstract
    BY WritesNone, EndsCodes
  <1> QED
    BY <1>1, <1>2, <1>3, <1>4
    DEF LoginNext, LoginVerified, PasswordChanged, ChangeLog, LoginGenerate, LoginRespond,
        LoginFail, storeVars

\* Of the handlers behind the gate, Logout ends tokens.
LEMMA GateImplements ==
    ASSUME IInv, GateNext, StoreTypeOK', StoreStep, UNCHANGED grants
    PROVE  Abstract
  <1> USE DEF IInv, TypeInv, TypeOK
  <1>1. ASSUME NEW w \in Bearers, LogoutRevokeToken(w)
        PROVE  Abstract
    <2>1. WritesAccess
      BY <1>1 DEF LogoutRevokeToken, RevokeAccessToken, IsAccess, WritesAccess, StoreTypeOK,
                  FamilyTree
    <2> QED BY <2>1, EndsTokens
  <1>2. ASSUME NEW w \in Bearers, LogoutRevokeRefreshTokens(w)
        PROVE  Abstract
    <2>1. WritesRefresh
      BY <1>2 DEF LogoutRevokeRefreshTokens, RevokeRefreshTokensByUser, Live, IsRefresh,
                  WritesRefresh
    <2> QED BY <2>1, EndsRefreshTokens
  <1>3. UNCHANGED <<codes, access, refresh>> => Abstract
    BY WritesNone, EndsCodes
  <1> QED
    BY <1>1, <1>2, <1>3
    DEF GateNext, GateValidate, GateCheckRevoked, GateServe, GateFail, storeVars

\* The clean-up of access tokens also writes the refresh tokens, but only their
\* link, which is not part of a family tree.
LEMMA CleanupKeepsFamilies ==
    ASSUME StoreTypeOK, DeleteExpiredAccessTokens
    PROVE  FamilyTree' = FamilyTree
  <1>1. ASSUME NEW r \in RefreshIds
        PROVE  FamilyTree'[r] = FamilyTree[r]
    BY RowAssumption, ZenonT(30) DEF DeleteExpiredAccessTokens, StoreTypeOK, RefreshRow, IsRefresh, FamilyTree
  <1> QED BY <1>1 DEF FamilyTree

\* The administrator and the clean-up end credentials.
LEMMA AdminImplements ==
    ASSUME IInv, AdminNext, StoreTypeOK', StoreStep, UNCHANGED grants
    PROVE  Abstract
  <1> USE DEF IInv, TypeInv, TypeOK
  <1>1. ASSUME NEW k \in Codes, AdminRevokeAuthorizationCode(k)
        PROVE  Abstract
    <2>1. WritesCodes
      BY <1>1 DEF AdminRevokeAuthorizationCode, RevokeAuthorizationCode, IsCode, WritesCodes,
                  StoreTypeOK
    <2> QED BY <2>1, EndsCodes
  <1>2. ASSUME NEW a \in AccessIds, AdminRevokeAccessToken(a)
        PROVE  Abstract
    <2>1. WritesAccess
      BY <1>2 DEF AdminRevokeAccessToken, RevokeAccessToken, IsAccess, WritesAccess,
                  StoreTypeOK, FamilyTree
    <2> QED BY <2>1, EndsTokens
  <1>3. ASSUME NEW u \in Users, AdminRevokeUserSessions(u)
        PROVE  Abstract
    <2>1. WritesRefresh
      BY <1>3 DEF AdminRevokeUserSessions, RevokeRefreshTokensByUser, Live, IsRefresh,
                  WritesRefresh
    <2> QED BY <2>1, EndsRefreshTokens
  <1>4. ASSUME CleanupExpiredCodes
        PROVE  Abstract
    <2>1. WritesCodes
      BY <1>4 DEF CleanupExpiredCodes, DeleteExpiredAuthorizationCodes, IsCode, WritesCodes
    <2> QED BY <2>1, EndsCodes
  <1>5. ASSUME CleanupExpiredTokens
        PROVE  Abstract
    <2>1. FamilyTree' = FamilyTree
      BY <1>5, CleanupKeepsFamilies DEF CleanupExpiredTokens
    <2>2. WritesAccess
      BY <1>5, <2>1 DEF CleanupExpiredTokens, DeleteExpiredAccessTokens, IsAccess, WritesAccess
    <2> QED BY <2>2, EndsTokens
  <1>6. UNCHANGED <<codes, access, refresh>> => Abstract
    BY WritesNone, EndsCodes
  <1> QED
    BY <1>1, <1>2, <1>3, <1>4, <1>5, <1>6 DEF AdminNext, DeleteClient, UpdateClient

---------------------------------------------------------------------------

\* The empty tables are the abstract initial state.
LEMMA InitImplements == Init => Promise!Init
  BY ZenonT(30) DEF Init, StoreInit, ExInit, Promise!Init, CodeStatus, TokenStatus, FamilyTree

\* Every step of the service is an abstract step or none.
LEMMA StepImplements ==
    ASSUME IInv, Next
    PROVE  Abstract
  <1>1. StoreStep /\ StoreTypeOK'
    BY TypeStep DEF IInv, TypeInv, TypeOK
  <1>2. Tick => UNCHANGED <<codes, access, refresh>>
    BY DEF Tick
  <1>3. UNCHANGED <<codes, access, refresh, grants>> => Abstract
    BY <1>1, WritesNone, EndsCodes DEF IInv, TypeInv, TypeOK
  <1>4. ExNext \/ ((RotNext \/ RevNext \/ LoginNext \/ GateNext \/ AdminNext \/ Tick)
                   /\ UNCHANGED grants)
    BY DEF Next, exVars
  <1> QED BY <1>1, <1>2, <1>3, <1>4, ExImplements, RotImplements, RevImplements,
             LoginImplements, GateImplements, AdminImplements, ZenonT(30)

\* The token endpoints implement the abstract token service: whatever requests of
\* CreateToken, RevokeToken, Login and Logout interleave and fail, a credential is
\* issued once, ends once, is minted from a spent code and succeeds a spent token of
\* its own family and owner.
THEOREM Refinement == Spec => ImplementsCredentials
  <1>1. IInv /\ [Next]_vars => [Promise!Next]_(Promise!vars)
    <2>1. ASSUME UNCHANGED vars
          PROVE  UNCHANGED Promise!vars
      BY <2>1 DEF vars, storeVars, exVars, Promise!vars, CodeStatus, TokenStatus, FamilyTree
    <2> QED BY <2>1, StepImplements DEF Abstract
  <1> QED BY <1>1, InitImplements, Invariance, PTL DEF Spec, ImplementsCredentials, Promise!Spec
=============================================================================
