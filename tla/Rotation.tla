----------------------------- MODULE Rotation -----------------------------
(***************************************************************************)
(* The refresh token grant, POST /api/v1/auth/token with                   *)
(* grant_type=refresh_token: Service.RotateRefreshToken, one action per    *)
(* statement.  rot[w] is the request that worker w serves.                 *)
(***************************************************************************)
EXTENDS Store

CONSTANT Rotators   \* rotation requests that can be in flight at the same time

VARIABLES
    rot,    \* rot[w]: program counter, arguments and locals of a request
    swept   \* history: families that a replay has revoked

rotVars == <<rot, swept>>

\* From the moment the row was found valid until the successor is inserted.
RotMinting == {"mark", "sign", "store", "refresh"}
\* After the row was marked as used.
RotMarked == {"sign", "store", "refresh", "log", "respond"}

RotIdle == [pc |-> "idle"]

RotLooking == [pc : {"lookup"}, tok : RefreshIds, client : Clients]
RotWorking ==
    [pc : RotMinting \cup RotMarked \cup {"sweep", "logReplay"},
     tok : RefreshIds, client : Clients, family : RefreshIds, user : Users,
     acc : AccessIds \cup {None}, new : RefreshIds \cup {None}]

RotTypeOK ==
    /\ rot \in [Rotators -> {RotIdle} \cup RotLooking \cup RotWorking]
    /\ \A w \in Rotators :
          /\ rot[w].pc \in {"store", "refresh", "log", "respond"} => rot[w].acc \in AccessIds
          /\ rot[w].pc \in {"log", "respond"} => rot[w].new \in RefreshIds
    /\ swept \subseteq RefreshIds

RotInit ==
    /\ rot = [w \in Rotators |-> RotIdle]
    /\ swept = {}

---------------------------------------------------------------------------

\* Step 1: authenticate client c.  A request refused here has no effect.  A caller
\* only knows refresh tokens it was handed.
RotGetClient(w, t, c) ==
    /\ rot[w].pc = "idle"
    /\ t \in held
    /\ clients[c].active
    /\ rot' = [rot EXCEPT ![w] = [pc |-> "lookup", tok |-> t, client |-> c]]
    /\ UNCHANGED <<storeVars, swept>>

\* The row that was read, kept for the steps that follow.
RotContinue(w, label) ==
    LET t == rot[w].tok IN
    [pc |-> label, tok |-> t, client |-> rot[w].client,
     family |-> refresh[t].family, user |-> refresh[t].user,
     acc |-> None, new |-> None]

\* GetRefreshTokenByHash; the request goes on as q.
RotDecide(w, q) ==
    /\ rot[w].pc = "lookup"
    /\ rot' = [rot EXCEPT ![w] = q]
    /\ UNCHANGED <<storeVars, swept>>

RotExpired(w) == now > refresh[rot[w].tok].expires
RotForeign(w) == refresh[rot[w].tok].client # rot[w].client

\* Mutant: no replay detection.
RotLookupNoReplay(w) ==
    RotDecide(w, IF RotExpired(w) \/ RotForeign(w) THEN RotIdle ELSE RotContinue(w, "mark"))

\* Mutant: the token is not bound to its client.
RotLookupUnbound(w) ==
    RotDecide(w, IF refresh[rot[w].tok].revoked THEN RotContinue(w, "sweep")
                 ELSE IF RotExpired(w) THEN RotIdle ELSE RotContinue(w, "mark"))

\* Steps 2 to 5: a revoked row is a replay, whoever presents it; an expired one or
\* one of another client is refused.
RotLookup(w) ==
    RotDecide(w, IF refresh[rot[w].tok].revoked THEN RotContinue(w, "sweep")
                 ELSE IF RotExpired(w) \/ RotForeign(w) THEN RotIdle
                 ELSE RotContinue(w, "mark"))

\* Step 3: revoke the family; the error of the statement is discarded.
RotRevokeFamily(w) ==
    /\ rot[w].pc = "sweep"
    /\ \/ /\ RevokeRefreshTokenFamily(rot[w].family, "replay_detected")
          /\ swept' = swept \cup {rot[w].family}
       \/ UNCHANGED <<refresh, swept>>
    /\ rot' = [rot EXCEPT ![w].pc = "logReplay"]
    /\ UNCHANGED <<now, clients, codes, jwt, access, audit, held>>

\* Step 3: two audit events, either of which can be lost, and the refusal.
RotLogReplay(w) ==
    /\ rot[w].pc = "logReplay"
    /\ \E written \in SUBSET {"replay_detected", "refresh_token_family_revoked"} :
          /\ written # {} => AuditEnabled
          /\ audit' = audit \cup {[event |-> e, subject |-> rot[w].family] : e \in written}
    /\ rot' = [rot EXCEPT ![w] = RotIdle]
    /\ UNCHANGED <<now, clients, codes, jwt, access, refresh, held, swept>>

\* Step 6.
RotMarkUsed(w) ==
    /\ rot[w].pc = "mark"
    /\ MarkRefreshTokenUsed(rot[w].tok)
    /\ rot' = [rot EXCEPT ![w].pc = "sign"]
    /\ UNCHANGED <<now, clients, codes, jwt, access, audit, held, swept>>

\* Steps 7 and 8: load the user, sign the access token.
RotGenerate(w, a) ==
    /\ rot[w].pc = "sign"
    /\ GenerateAccessToken(a, rot[w].user)
    /\ rot' = [rot EXCEPT ![w].pc = "store", ![w].acc = a]
    /\ UNCHANGED <<now, clients, codes, access, refresh, audit, held, swept>>

\* Step 8: store it.
RotCreateAccessToken(w) ==
    /\ rot[w].pc = "store"
    /\ \E e \in RowExpiry(rot[w].acc) :
          CreateAccessToken(rot[w].acc,
              [client |-> rot[w].client, user |-> rot[w].user,
               expires |-> e, revoked |-> FALSE])
    /\ rot' = [rot EXCEPT ![w].pc = "refresh"]
    /\ UNCHANGED <<now, clients, codes, jwt, refresh, audit, held, swept>>

\* Mutant: the INSERT is retried although it succeeded.
RotInsertAgain(w, r) ==
    /\ rot[w].pc = "refresh"
    /\ CreateRefreshToken(r,
          [family |-> rot[w].family, client |-> rot[w].client,
           user |-> rot[w].user, access |-> rot[w].acc,
           prev |-> rot[w].tok, expires |-> now + RefreshTTL,
           revoked |-> FALSE, reason |-> None])
    /\ rot' = [rot EXCEPT ![w].new = r, ![w].pc = IF rot[w].new = None
                                                 THEN "refresh" ELSE "log"]
    /\ UNCHANGED <<now, clients, codes, jwt, access, audit, held, swept>>

\* Mutant: the successor is not linked to its predecessor.
RotInsertUnlinked(w, r) ==
    /\ rot[w].pc = "refresh"
    /\ CreateRefreshToken(r,
          [family |-> rot[w].family, client |-> rot[w].client,
           user |-> rot[w].user, access |-> rot[w].acc,
           prev |-> None, expires |-> now + RefreshTTL,
           revoked |-> FALSE, reason |-> None])
    /\ rot' = [rot EXCEPT ![w].new = r, ![w].pc = "log"]
    /\ UNCHANGED <<now, clients, codes, jwt, access, audit, held, swept>>

\* Step 9: the successor, in the same family.  The foreign key to access_tokens
\* makes the INSERT fail when that row is gone.
RotCreateRefreshToken(w, r) ==
    /\ rot[w].pc = "refresh"
    /\ IF IsAccess(rot[w].acc)
       THEN /\ CreateRefreshToken(r,
                  [family |-> rot[w].family, client |-> rot[w].client,
                   user |-> rot[w].user, access |-> rot[w].acc,
                   prev |-> rot[w].tok, expires |-> now + RefreshTTL,
                   revoked |-> FALSE, reason |-> None])
            /\ rot' = [rot EXCEPT ![w].pc = "log", ![w].new = r]
       ELSE /\ rot' = [rot EXCEPT ![w] = RotIdle]
            /\ UNCHANGED refresh
    /\ UNCHANGED <<now, clients, codes, jwt, access, audit, held, swept>>

\* Step 10.
RotLogRotated(w) ==
    /\ rot[w].pc = "log"
    /\ LogEvent("refresh_token_rotated", rot[w].family)
    /\ rot' = [rot EXCEPT ![w].pc = "respond"]
    /\ UNCHANGED <<now, clients, codes, jwt, access, refresh, held, swept>>

RotRespond(w) ==
    /\ rot[w].pc = "respond"
    /\ held' = held \cup {rot[w].acc, rot[w].new}
    /\ rot' = [rot EXCEPT ![w] = RotIdle]
    /\ UNCHANGED <<now, clients, codes, jwt, access, refresh, audit, swept>>

\* A statement fails, the request is cancelled, the process dies, or the
\* response is lost.
RotFail(w) ==
    /\ rot[w].pc # "idle"
    /\ rot' = [rot EXCEPT ![w] = RotIdle]
    /\ UNCHANGED <<storeVars, swept>>

RotNext ==
    \E w \in Rotators :
       \/ \E t \in RefreshIds, c \in Clients : RotGetClient(w, t, c)
       \/ RotLookup(w)
       \/ RotRevokeFamily(w)
       \/ RotLogReplay(w)
       \/ RotMarkUsed(w)
       \/ \E a \in AccessIds : RotGenerate(w, a)
       \/ RotCreateAccessToken(w)
       \/ \E r \in RefreshIds : RotCreateRefreshToken(w, r)
       \/ RotLogRotated(w)
       \/ RotRespond(w)
       \/ RotFail(w)

---------------------------------------------------------------------------
(* Properties                                                              *)

Family(f) == {r \in RefreshIds : IsRefresh(r) /\ refresh[r].family = f}

\* The predecessor of every rotated token is in the table, is revoked, and has the
\* same family, client and user: RotateRefreshToken marks the old row before it
\* inserts the new one, and a lineage never crosses accounts.
Lineage ==
    \A r \in RefreshIds :
        IsRefresh(r) /\ refresh[r].prev # None =>
            LET p == refresh[r].prev IN
            /\ IsRefresh(p)
            /\ refresh[p].revoked
            /\ refresh[p].family = refresh[r].family
            /\ refresh[p].client = refresh[r].client
            /\ refresh[p].user = refresh[r].user

\* No row of family f is valid, and no request holds one that was.
DeadFamily(f) ==
    /\ Family(f) # {}
    /\ \A r \in Family(f) : refresh[r].revoked
    /\ \A w \in Rotators : rot[w].pc \in RotMinting => rot[w].family # f

\* Once every token of a family is revoked and no rotation of it is between its
\* lookup and its insert, the family never has a valid token again, whichever
\* tokens are presented, by whom and in whatever order: the replay defence of
\* RotateRefreshToken is final as soon as the requests in flight have drained.
DeadFamilyStaysDead ==
    [][\A f \in RefreshIds : DeadFamily(f) => DeadFamily(f)']_<<refresh, rot>>

\* No two requests in flight present tokens of the same family.
FamiliesApart ==
    \A v, w \in Rotators :
        /\ rot[v].pc # "idle" /\ rot[w].pc # "idle"
        /\ refresh[rot[v].tok].family = refresh[rot[w].tok].family
        => v = w

\* Rotation keeps one valid token per family.
OneLivePerFamily ==
    \A r, s \in RefreshIds :
        Live(r) /\ Live(s) /\ refresh[r].family = refresh[s].family => r = s

\* A refresh token is exchanged for a successor at most once.
RotatedOnce ==
    \A r, s \in RefreshIds :
        IsRefresh(r) /\ IsRefresh(s) /\ refresh[r].prev # None
        /\ refresh[r].prev = refresh[s].prev => r = s

\* After a replay has revoked a family, no token of it is valid.
ReplayEndsFamily ==
    \A f \in swept : \A r \in Family(f) : refresh[r].revoked
=============================================================================
