--------------------------- MODULE CodeExchange ---------------------------
(***************************************************************************)
(* The authorization code grant, POST /api/v1/auth/token with              *)
(* grant_type=authorization_code: Service.ExchangeCodeForToken, one action *)
(* per statement it runs.  ex[w] is the request that worker w serves.      *)
(***************************************************************************)
EXTENDS Store

CONSTANT Exchangers   \* requests that can be in flight at the same time

VARIABLES
    ex,      \* ex[w]: program counter, arguments and locals of a request
    grants   \* history: pairs <<code, access token minted from it>>

exVars == <<ex, grants>>

\* After the checks of the code row, before the response.
ExAccepted == {"mark", "sign", "store", "refresh", "log", "respond"}
\* After the code row was marked as used.
ExMarked == ExAccepted \ {"mark"}

ExIdle == [pc |-> "idle"]

(* dead is history: the code was already unusable when the request came in *)
ExChecking ==
    [pc : {"code"}, code : Codes, client : Clients, uri : Uris,
     allow : BOOLEAN, dead : BOOLEAN]
ExGranting ==
    [pc : ExAccepted, code : Codes, client : Clients, uri : Uris,
     allow : BOOLEAN, dead : BOOLEAN, user : Users, offline : BOOLEAN,
     acc : AccessIds \cup {None}, ref : RefreshIds \cup {None}]

ExTypeOK ==
    /\ ex \in [Exchangers -> {ExIdle} \cup ExChecking \cup ExGranting]
    /\ \A w \in Exchangers :
          /\ ex[w].pc \in {"store", "refresh", "log", "respond"} => ex[w].acc \in AccessIds
          /\ ex[w].pc = "log" => ex[w].ref \in RefreshIds
    /\ grants \subseteq Codes \X AccessIds

ExInit ==
    /\ ex = [w \in Exchangers |-> ExIdle]
    /\ grants = {}

---------------------------------------------------------------------------

\* The last statement of HandleProviderCallback.  The client was active when the
\* callback looked at it, some provider round trips ago.
IssueCode(k, c, u, uri, off) ==
    /\ CreateAuthorizationCode(k, [client |-> c, user |-> u, uri |-> uri,
                                   offline |-> off, expires |-> now + CodeTTL,
                                   used |-> FALSE, revoked |-> FALSE])
    /\ UNCHANGED <<now, clients, jwt, access, refresh, audit, held, exVars>>

\* The checks of step 3, in a row read at this moment.
Redeemable(k, c, uri) ==
    /\ IsCode(k)
    /\ ~codes[k].revoked
    /\ ~codes[k].used
    /\ now <= codes[k].expires
    /\ codes[k].client = c
    /\ codes[k].uri = uri

\* Step 1: GetClient.  A request refused here has no effect.  A caller only knows
\* codes that were issued.
ExGetClient(w, k, c, uri) ==
    /\ ex[w].pc = "idle"
    /\ codes[k] # NoRow
    /\ clients[c].active
    /\ ex' = [ex EXCEPT ![w] =
                [pc |-> "code", code |-> k, client |-> c, uri |-> uri,
                 allow |-> clients[c].allowRefresh,
                 dead |-> ~Redeemable(k, c, uri)]]
    /\ UNCHANGED <<storeVars, grants>>

\* GetAuthorizationCode; the request goes on if its row passes the checks, ok.
ExCheckCode(w, ok) ==
    /\ ex[w].pc = "code"
    /\ LET q == ex[w] IN
       IF ok
       THEN ex' = [ex EXCEPT ![w] =
                     [pc |-> "mark", code |-> q.code, client |-> q.client,
                      uri |-> q.uri, allow |-> q.allow, dead |-> q.dead,
                      user |-> codes[q.code].user,
                      offline |-> codes[q.code].offline,
                      acc |-> None, ref |-> None]]
       ELSE ex' = [ex EXCEPT ![w] = ExIdle]
    /\ UNCHANGED <<storeVars, grants>>

\* Mutant: the expiry of the code is not checked.
ExGetCodeAnyAge(w) ==
    ExCheckCode(w, LET q == ex[w] IN
                   /\ IsCode(q.code)
                   /\ ~codes[q.code].revoked /\ ~codes[q.code].used
                   /\ codes[q.code].client = q.client /\ codes[q.code].uri = q.uri)

\* Mutant: used_at is not checked.
ExGetCodeReused(w) ==
    ExCheckCode(w, LET q == ex[w] IN
                   /\ IsCode(q.code)
                   /\ ~codes[q.code].revoked /\ now <= codes[q.code].expires
                   /\ codes[q.code].client = q.client /\ codes[q.code].uri = q.uri)

\* Steps 2 and 3.
ExGetAuthorizationCode(w) ==
    ExCheckCode(w, Redeemable(ex[w].code, ex[w].client, ex[w].uri))

\* Mutant: the code is not marked as used.
ExSkipMark(w) ==
    /\ ex[w].pc = "mark"
    /\ ex' = [ex EXCEPT ![w].pc = "sign"]
    /\ UNCHANGED <<storeVars, grants>>

\* Step 4: the UPDATE returns the row, so a purged code is an error.
ExMarkUsed(w) ==
    /\ ex[w].pc = "mark"
    /\ IF IsCode(ex[w].code)
       THEN /\ MarkAuthorizationCodeUsed(ex[w].code)
            /\ ex' = [ex EXCEPT ![w].pc = "sign"]
       ELSE /\ ex' = [ex EXCEPT ![w] = ExIdle]
            /\ UNCHANGED codes
    /\ UNCHANGED <<now, clients, jwt, access, refresh, audit, held, grants>>

\* Steps 5 and 6: load the user, sign the access token.
ExGenerate(w, a) ==
    /\ ex[w].pc = "sign"
    /\ GenerateAccessToken(a, ex[w].user)
    /\ ex' = [ex EXCEPT ![w].pc = "store", ![w].acc = a]
    /\ UNCHANGED <<now, clients, codes, access, refresh, audit, held, grants>>

\* Step 7, and the condition of step 8.
ExCreateAccessToken(w) ==
    /\ ex[w].pc = "store"
    /\ \E e \in RowExpiry(ex[w].acc) :
          CreateAccessToken(ex[w].acc,
              [client |-> ex[w].client, user |-> ex[w].user,
               expires |-> e, revoked |-> FALSE])
    /\ ex' = [ex EXCEPT ![w].pc = IF ex[w].allow /\ ex[w].offline
                                  THEN "refresh" ELSE "respond"]
    /\ grants' = grants \cup {<<ex[w].code, ex[w].acc>>}
    /\ UNCHANGED <<now, clients, codes, jwt, refresh, audit, held>>

\* Mutant: the grant joins the family that the user already has with the client.
ExJoinFamily(w, r) ==
    /\ ex[w].pc = "refresh"
    /\ \E f \in RefreshIds :
          /\ f = r \/ (Live(f) /\ refresh[f].client = ex[w].client)
          /\ CreateRefreshToken(r,
                [family |-> f, client |-> ex[w].client, user |-> ex[w].user,
                 access |-> ex[w].acc, prev |-> None,
                 expires |-> now + RefreshTTL, revoked |-> FALSE,
                 reason |-> None])
    /\ ex' = [ex EXCEPT ![w].pc = "log", ![w].ref = r]
    /\ UNCHANGED <<now, clients, codes, jwt, access, audit, held, grants>>

\* Step 8: a refresh token that starts a new family.  The foreign key to
\* access_tokens makes the INSERT fail when that row is gone.
ExCreateRefreshToken(w, r) ==
    /\ ex[w].pc = "refresh"
    /\ IF IsAccess(ex[w].acc)
       THEN /\ CreateRefreshToken(r,
                  [family |-> r, client |-> ex[w].client, user |-> ex[w].user,
                   access |-> ex[w].acc, prev |-> None,
                   expires |-> now + RefreshTTL, revoked |-> FALSE,
                   reason |-> None])
            /\ ex' = [ex EXCEPT ![w].pc = "log", ![w].ref = r]
       ELSE /\ ex' = [ex EXCEPT ![w] = ExIdle]
            /\ UNCHANGED refresh
    /\ UNCHANGED <<now, clients, codes, jwt, access, audit, held, grants>>

ExLogIssued(w) ==
    /\ ex[w].pc = "log"
    /\ LogEvent("refresh_token_issued", ex[w].ref)
    /\ ex' = [ex EXCEPT ![w].pc = "respond"]
    /\ UNCHANGED <<now, clients, codes, jwt, access, refresh, held, grants>>

\* Mutant: a missing refresh token is handed out as an empty one.
ExRespondBoth(w) ==
    /\ ex[w].pc = "respond"
    /\ held' = held \cup {ex[w].acc, ex[w].ref}
    /\ ex' = [ex EXCEPT ![w] = ExIdle]
    /\ UNCHANGED <<now, clients, codes, jwt, access, refresh, audit, grants>>

ExRespond(w) ==
    /\ ex[w].pc = "respond"
    /\ held' = held \cup ({ex[w].acc, ex[w].ref} \ {None})
    /\ ex' = [ex EXCEPT ![w] = ExIdle]
    /\ UNCHANGED <<now, clients, codes, jwt, access, refresh, audit, grants>>

\* A statement fails, the request is cancelled, the process dies, or the
\* response is lost.  What the request has written so far stays.
ExFail(w) ==
    /\ ex[w].pc # "idle"
    /\ ex' = [ex EXCEPT ![w] = ExIdle]
    /\ UNCHANGED <<storeVars, grants>>

ExNext ==
    \/ \E k \in Codes, c \in Clients, u \in Users, uri \in Uris, off \in BOOLEAN :
          IssueCode(k, c, u, uri, off)
    \/ \E w \in Exchangers :
          \/ \E k \in Codes, c \in Clients, uri \in Uris : ExGetClient(w, k, c, uri)
          \/ ExGetAuthorizationCode(w)
          \/ ExMarkUsed(w)
          \/ \E a \in AccessIds : ExGenerate(w, a)
          \/ ExCreateAccessToken(w)
          \/ \E r \in RefreshIds : ExCreateRefreshToken(w, r)
          \/ ExLogIssued(w)
          \/ ExRespond(w)
          \/ ExFail(w)

---------------------------------------------------------------------------
(* Properties                                                              *)

\* A request that arrives when its code is already used, revoked, expired,
\* deleted or bound to another client or redirect URI never gets past the checks
\* of ExchangeCodeForToken, whatever other requests do meanwhile.
NoLateRedemption ==
    \A w \in Exchangers : ex[w].pc \in ExAccepted => ~ex[w].dead

\* No access token exists whose code is still redeemable: ExchangeCodeForToken
\* writes used_at before it mints anything, so a crash between two statements can
\* lose a grant and never leaves a spent code open.
BurnBeforeMint ==
    \A g \in grants : codes[g[1]] = Purged \/ (IsCode(g[1]) /\ codes[g[1]].used)

\* No two requests in flight present the same code.
CodesApart ==
    \A v, w \in Exchangers :
        ex[v].pc # "idle" /\ ex[w].pc # "idle" /\ ex[v].code = ex[w].code => v = w

\* "Single-use enforcement" of step 4: at most one access token per code.
SingleUse ==
    \A g, h \in grants : g[1] = h[1] => g = h
=============================================================================
