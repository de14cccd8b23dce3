---------------------------- MODULE Revocation ----------------------------
(***************************************************************************)
(* POST /api/v1/auth/revoke (Service.RevokeAnyToken), one action per       *)
(* statement, and the administrator's and maintenance operations that are  *)
(* a single statement.  rev[w] is the revocation that worker w serves.     *)
(***************************************************************************)
EXTENDS Store

CONSTANTS
    Revokers,   \* revocation requests that can be in flight at the same time
    AdminOps    \* the administrator and maintenance operations in use

VARIABLES
    rev,       \* rev[w]: program counter and locals of a request
    reported   \* history: <<refresh token, its access token>> reported as revoked

revVars == <<rev, reported>>

RevIdle == [pc |-> "idle"]

(* acc is the access token to revoke: the one presented, or the one the    *)
(* refresh token row links to                                              *)
RevRequest ==
    [pc : {"refresh", "revokeRefresh", "logRefresh",
           "access", "revokeAccess", "logAccess"},
     tok : RefreshIds \cup AccessIds, acc : AccessIds \cup {None}]

RevTypeOK ==
    /\ rev \in [Revokers -> RevRequest \cup {RevIdle}]
    /\ \A w \in Revokers :
          /\ rev[w].pc \in {"revokeRefresh", "logRefresh"} => rev[w].tok \in RefreshIds
          /\ rev[w].pc \in {"revokeAccess", "logAccess"} => rev[w].acc \in AccessIds
    /\ reported \subseteq RefreshIds \X AccessIds

RevInit ==
    /\ rev = [w \in Revokers |-> RevIdle]
    /\ reported = {}

\* RevokeAnyToken returns nil for refresh token t, which is linked to a.
RevReport(t, a) ==
    reported' = IF t \in RefreshIds /\ a # None
                THEN reported \cup {<<t, a>>} ELSE reported

---------------------------------------------------------------------------

\* authenticateRevokeRequest: client credentials, or a valid bearer token.
RevokeCallerOK ==
    \/ \E c \in Clients : clients[c].active
    \/ \E b \in held \cap AccessIds :
          now < jwt[b].exp /\ ~(IsAccess(b) /\ access[b].revoked)

\* The caller presents token t; token_type_hint=access_token skips the lookup
\* among the refresh tokens.
RevBegin(w, t, hinted) ==
    /\ rev[w].pc = "idle"
    /\ t \in held
    /\ RevokeCallerOK
    /\ rev' = [rev EXCEPT ![w] =
                 [pc |-> IF hinted THEN "access" ELSE "refresh",
                  tok |-> t, acc |-> IF t \in AccessIds THEN t ELSE None]]
    /\ UNCHANGED <<storeVars, reported>>

\* GetRefreshTokenByHash: a token without a row may still be an access token; a
\* revoked row is left alone; the link to the access token is taken from the row.
RevLookupRefresh(w) ==
    /\ rev[w].pc = "refresh"
    /\ LET t == rev[w].tok IN
       \/ /\ t \notin RefreshIds
          /\ rev' = [rev EXCEPT ![w].pc = "access"]
          /\ UNCHANGED reported
       \/ /\ t \in RefreshIds
          /\ ~refresh[t].revoked
          /\ rev' = [rev EXCEPT ![w].pc = "revokeRefresh", ![w].acc = refresh[t].access]
          /\ UNCHANGED reported
       \/ /\ t \in RefreshIds
          /\ refresh[t].revoked
          /\ rev' = [rev EXCEPT ![w] = RevIdle]
          /\ IF refresh[t].reason = "client_revoked"
             THEN RevReport(t, refresh[t].access) ELSE UNCHANGED reported
    /\ UNCHANGED storeVars

\* Mutant: the event is written although the statement failed.
RevRevokeRefreshUnchecked(w) ==
    /\ rev[w].pc = "revokeRefresh"
    /\ rev' = [rev EXCEPT ![w].pc = "logRefresh"]
    /\ UNCHANGED <<storeVars, reported>>

RevRevokeRefresh(w) ==
    /\ rev[w].pc = "revokeRefresh"
    /\ RevokeRefreshToken(rev[w].tok, "client_revoked")
    /\ rev' = [rev EXCEPT ![w].pc = "logRefresh"]
    /\ UNCHANGED <<now, clients, codes, jwt, access, audit, held, reported>>

RevLogRefresh(w) ==
    /\ rev[w].pc = "logRefresh"
    /\ LogEvent("refresh_token_revoked", rev[w].tok)
    /\ rev' = [rev EXCEPT ![w].pc = "access"]
    /\ UNCHANGED <<now, clients, codes, jwt, access, refresh, held, reported>>

\* GetAccessToken or GetAccessTokenByID: nothing to do when there is no row or it
\* is revoked.
RevLookupAccess(w) ==
    /\ rev[w].pc = "access"
    /\ LET a == rev[w].acc IN
       IF a # None /\ IsAccess(a) /\ ~access[a].revoked
       THEN /\ rev' = [rev EXCEPT ![w].pc = "revokeAccess"]
            /\ UNCHANGED reported
       ELSE /\ rev' = [rev EXCEPT ![w] = RevIdle]
            /\ RevReport(rev[w].tok, a)
    /\ UNCHANGED storeVars

\* The error of the statement is discarded when the token presented was a refresh
\* token.
RevRevokeAccess(w) ==
    /\ rev[w].pc = "revokeAccess"
    /\ \/ /\ RevokeAccessToken(rev[w].acc)
          /\ rev' = [rev EXCEPT ![w].pc = "logAccess"]
          /\ UNCHANGED reported
       \/ /\ rev[w].tok \in RefreshIds
          /\ rev' = [rev EXCEPT ![w] = RevIdle]
          /\ RevReport(rev[w].tok, rev[w].acc)
          /\ UNCHANGED access
    /\ UNCHANGED <<now, clients, codes, jwt, refresh, audit, held>>

RevLogAccess(w) ==
    /\ rev[w].pc = "logAccess"
    /\ LogEvent("access_token_revoked", rev[w].acc)
    /\ rev' = [rev EXCEPT ![w] = RevIdle]
    /\ RevReport(rev[w].tok, rev[w].acc)
    /\ UNCHANGED <<now, clients, codes, jwt, access, refresh, held>>

RevFail(w) ==
    /\ rev[w].pc # "idle"
    /\ rev' = [rev EXCEPT ![w] = RevIdle]
    /\ UNCHANGED <<storeVars, reported>>

RevNext ==
    \E w \in Revokers :
       \/ \E t \in held, hinted \in BOOLEAN : RevBegin(w, t, hinted)
       \/ RevLookupRefresh(w)
       \/ RevRevokeRefresh(w)
       \/ RevLogRefresh(w)
       \/ RevLookupAccess(w)
       \/ RevRevokeAccess(w)
       \/ RevLogAccess(w)
       \/ RevFail(w)

---------------------------------------------------------------------------
(* Administrator and maintenance.  A read precedes some of these           *)
(* statements; it only answers 404 where the statement would match no row. *)

AdminRevokeAuthorizationCode(k) ==
    /\ IsCode(k)
    /\ RevokeAuthorizationCode(k)
    /\ UNCHANGED <<now, clients, jwt, access, refresh, audit, held>>

AdminRevokeAccessToken(a) ==
    /\ IsAccess(a)
    /\ RevokeAccessToken(a)
    /\ UNCHANGED <<now, clients, codes, jwt, refresh, audit, held>>

\* RevokeUserSessions of the admin API: the user's refresh tokens, not the access
\* tokens; then an audit event.
AdminRevokeUserSessions(u) ==
    /\ RevokeRefreshTokensByUser(u, "admin_revoked")
    /\ LogEvent("admin_session_revoked", u)
    /\ UNCHANGED <<now, clients, codes, jwt, access, held>>

\* DeleteClient is a soft delete.
DeleteClient(c) ==
    /\ clients' = [clients EXCEPT ![c].active = FALSE]
    /\ UNCHANGED <<now, codes, jwt, access, refresh, audit, held>>

\* UpdateClient leaves AllowRefreshTokens unset in the parameters of the UPDATE,
\* which writes the column: it becomes false.
UpdateClient(c) ==
    /\ clients' = [clients EXCEPT ![c].allowRefresh = FALSE]
    /\ UNCHANGED <<now, codes, jwt, access, refresh, audit, held>>

CleanupExpiredCodes ==
    /\ DeleteExpiredAuthorizationCodes
    /\ UNCHANGED <<now, clients, jwt, access, refresh, audit, held>>

CleanupExpiredTokens ==
    /\ DeleteExpiredAccessTokens
    /\ UNCHANGED <<now, clients, codes, jwt, audit, held>>

AdminNext ==
    \/ "revokeCode" \in AdminOps /\ \E k \in Codes : AdminRevokeAuthorizationCode(k)
    \/ "revokeAccess" \in AdminOps /\ \E a \in AccessIds : AdminRevokeAccessToken(a)
    \/ "revokeUser" \in AdminOps /\ \E u \in Users : AdminRevokeUserSessions(u)
    \/ "deleteClient" \in AdminOps /\ \E c \in Clients : DeleteClient(c)
    \/ "updateClient" \in AdminOps /\ \E c \in Clients : UpdateClient(c)
    \/ "cleanupCodes" \in AdminOps /\ CleanupExpiredCodes
    \/ "cleanupTokens" \in AdminOps /\ CleanupExpiredTokens

---------------------------------------------------------------------------
(* Properties                                                              *)

\* "When a refresh token is successfully revoked its linked access token (if any)
\* is also revoked": once RevokeAnyToken has returned without an error, neither of
\* the two is in force.
RevokesLinked ==
    \A p \in reported :
        refresh[p[1]].revoked /\ (IsAccess(p[2]) => access[p[2]].revoked)

\* What an audit event says of a revocation.  The token that an event of
\* RevokeAnyToken names is revoked: the event is written only after the statement.
\* RotateRefreshToken writes refresh_token_family_revoked even when the UPDATE of the
\* family failed; what the event does show is that a token of the family was
\* presented after it had been revoked, so that one of them is.
RevocationAuditTruthful ==
    \A e \in audit :
        /\ e.event = "refresh_token_revoked" => refresh[e.subject].revoked
        /\ e.event = "access_token_revoked" =>
              (IsAccess(e.subject) => access[e.subject].revoked)
        /\ e.event = "refresh_token_family_revoked" =>
              \E r \in RefreshIds : /\ IsRefresh(r) /\ refresh[r].revoked
                                    /\ refresh[r].family = e.subject
=============================================================================
