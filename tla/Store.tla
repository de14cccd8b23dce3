------------------------------- MODULE Store -------------------------------
(***************************************************************************)
(* The PostgreSQL tables shared by the token endpoints, and the SQL        *)
(* statements (internal/repository) that the services run on them.         *)
(*                                                                         *)
(* No service opens a transaction, so every statement is atomic by itself  *)
(* and a handler is a sequence of statements that interleaves with the     *)
(* handlers of other requests, in this process or in another replica.      *)
(*                                                                         *)
(* A raw token and the row that stores its hash share one identifier       *)
(* (SHA-256 is taken to be injective), and a token family is named by its  *)
(* first refresh token (the code draws a fresh UUID for it).               *)
(***************************************************************************)
EXTENDS Naturals

CONSTANTS
    Clients,      \* OAuth clients
    Users,        \* user accounts
    Uris,         \* redirect URIs
    Codes,        \* authorization codes that can be issued
    AccessIds,    \* access tokens that can be generated
    RefreshIds,   \* refresh tokens that can be generated
    None,         \* SQL NULL
    NoRow,        \* an identifier that was never inserted
    Purged,       \* a row that was inserted and deleted since
    CodeTTL, AccessTTL, RefreshTTL,  \* configured lifetimes
    AuditEnabled, \* an audit service is configured (auditSvc # nil)
    MaxTime       \* bound of the clock

ASSUME StoreAssumption ==
    /\ CodeTTL \in Nat /\ AccessTTL \in Nat /\ RefreshTTL \in Nat
    /\ MaxTime \in Nat /\ AuditEnabled \in BOOLEAN
    /\ None \notin Clients \cup Users \cup AccessIds \cup RefreshIds
    /\ AccessIds \cap RefreshIds = {}
    /\ NoRow # Purged

VARIABLES
    now,       \* the clock; the replicas and the database agree on it
    clients,   \* clients table
    codes,     \* authorization_codes table
    jwt,       \* the claims of every access token generated so far
    access,    \* access_tokens table
    refresh,   \* refresh_tokens table
    audit,     \* audit_log table, append-only
    held       \* tokens some caller has received in a response

storeVars == <<now, clients, codes, jwt, access, refresh, audit, held>>

---------------------------------------------------------------------------
(* Rows: the columns that the token endpoints read or write.               *)

ClientRow == [active : BOOLEAN, allowRefresh : BOOLEAN]

CodeRow == [client : Clients, user : Users, uri : Uris,
            offline : BOOLEAN,   \* scope contains "offline_access"
            expires : Nat, used : BOOLEAN, revoked : BOOLEAN]

Claims == [user : Users, exp : Nat]

AccessRow == [client : Clients \cup {None}, user : Users,
              expires : Nat, revoked : BOOLEAN]

RevokeReasons == {"used", "client_revoked", "replay_detected",
                  "password_change", "logout", "admin_revoked"}

RefreshRow == [family : RefreshIds, client : Clients, user : Users,
               access : AccessIds \cup {None}, prev : RefreshIds \cup {None},
               expires : Nat, revoked : BOOLEAN,
               reason : RevokeReasons \cup {None}]

AuditRow == [event : {"refresh_token_issued", "refresh_token_rotated",
                      "refresh_token_revoked", "access_token_revoked",
                      "replay_detected", "refresh_token_family_revoked",
                      "admin_session_revoked", "user_password_changed",
                      "force_password_change_satisfied"},
             subject : RefreshIds \cup AccessIds \cup Users]

\* NULL markers are not rows.
ASSUME RowAssumption ==
    \A x \in {NoRow, Purged} :
        x \notin CodeRow /\ x \notin Claims /\ x \notin AccessRow /\ x \notin RefreshRow

IsCode(k) == codes[k] \notin {NoRow, Purged}
IsAccess(a) == access[a] \notin {NoRow, Purged}
IsRefresh(r) == refresh[r] # NoRow

\* A refresh token that RotateRefreshToken would take for a valid one.
Live(r) == IsRefresh(r) /\ ~refresh[r].revoked

---------------------------------------------------------------------------
(* authorization_codes                                                     *)

CreateAuthorizationCode(k, row) ==
    /\ codes[k] = NoRow
    /\ codes' = [codes EXCEPT ![k] = row]

\* UPDATE ... WHERE id = $1: no condition on used_at.
MarkAuthorizationCodeUsed(k) ==
    codes' = [codes EXCEPT ![k].used = TRUE]

RevokeAuthorizationCode(k) ==
    codes' = [codes EXCEPT ![k].revoked = TRUE]

DeleteExpiredAuthorizationCodes ==
    codes' = [k \in Codes |->
                IF IsCode(k) /\ codes[k].expires < now THEN Purged ELSE codes[k]]

(* access_tokens                                                           *)

CreateAccessToken(a, row) ==
    /\ access[a] = NoRow
    /\ access' = [access EXCEPT ![a] = row]

\* Mutant: the flag is toggled.
ToggleAccessToken(a) ==
    access' = [access EXCEPT ![a] = IF IsAccess(a)
                                    THEN [@ EXCEPT !.revoked = ~@] ELSE @]

\* UPDATE ... WHERE id = $1, which matches nothing once the row is gone.
RevokeAccessToken(a) ==
    access' = [access EXCEPT ![a] = IF IsAccess(a)
                                    THEN [@ EXCEPT !.revoked = TRUE] ELSE @]

\* Mutant: direct-login tokens, which have no client, are left out.
RevokeOAuthTokensByUser(u) ==
    access' = [a \in AccessIds |->
                IF IsAccess(a) /\ access[a].user = u /\ access[a].client # None
                THEN [access[a] EXCEPT !.revoked = TRUE] ELSE access[a]]

RevokeAccessTokensByUser(u) ==
    access' = [a \in AccessIds |->
                IF IsAccess(a) /\ access[a].user = u
                THEN [access[a] EXCEPT !.revoked = TRUE] ELSE access[a]]

\* The foreign key refresh_tokens.access_token_id is ON DELETE SET NULL.
DeleteExpiredAccessTokens ==
    LET Expired == {a \in AccessIds : IsAccess(a) /\ access[a].expires < now}
    IN  /\ access' = [a \in AccessIds |->
                        IF a \in Expired THEN Purged ELSE access[a]]
        /\ refresh' = [r \in RefreshIds |->
                        IF IsRefresh(r) /\ refresh[r].access \in Expired
                        THEN [refresh[r] EXCEPT !.access = None] ELSE refresh[r]]

(* refresh_tokens (no statement the services run ever deletes a row)       *)

CreateRefreshToken(r, row) ==
    /\ refresh[r] = NoRow
    /\ refresh' = [refresh EXCEPT ![r] = row]

MarkRefreshTokenUsed(r) ==
    refresh' = [refresh EXCEPT ![r].revoked = TRUE, ![r].reason = "used"]

RevokeRefreshToken(r, reason) ==
    refresh' = [refresh EXCEPT ![r].revoked = TRUE, ![r].reason = reason]

\* Mutant: only the first token of the family.
RevokeFamilyRoot(f, reason) ==
    refresh' = [refresh EXCEPT ![f].revoked = TRUE, ![f].reason = reason]

RevokeRefreshTokenFamily(f, reason) ==
    refresh' = [r \in RefreshIds |->
                 IF IsRefresh(r) /\ refresh[r].family = f
                 THEN [refresh[r] EXCEPT !.revoked = TRUE, !.reason = reason]
                 ELSE refresh[r]]

RevokeRefreshTokensByUser(u, reason) ==
    refresh' = [r \in RefreshIds |->
                 IF Live(r) /\ refresh[r].user = u
                 THEN [refresh[r] EXCEPT !.revoked = TRUE, !.reason = reason]
                 ELSE refresh[r]]

(* audit_log: every caller discards LogEvent's error, so a row may be      *)
(* missing.                                                                *)

LogEvent(event, subject) ==
    \/ /\ AuditEnabled
       /\ audit' = audit \cup {[event |-> event, subject |-> subject]}
    \/ audit' = audit

---------------------------------------------------------------------------
(* Tokens                                                                  *)

\* GenerateAccessToken: sign a new token for user u.
GenerateAccessToken(a, u) ==
    /\ jwt[a] = NoRow
    /\ jwt' = [jwt EXCEPT ![a] = [user |-> u, exp |-> now + AccessTTL]]

\* The values that time.Now().Add(Expiry()) can take when the row of token a is
\* written: the clock is read after the token was signed and before the INSERT.
RowExpiry(a) == jwt[a].exp .. (now + AccessTTL)

\* No handler sets allow_refresh_tokens; an operator does, in the database.
StoreInit ==
    /\ now = 0
    /\ clients \in [Clients -> {c \in ClientRow : c.active}]
    /\ codes = [k \in Codes |-> NoRow]
    /\ jwt = [a \in AccessIds |-> NoRow]
    /\ access = [a \in AccessIds |-> NoRow]
    /\ refresh = [r \in RefreshIds |-> NoRow]
    /\ audit = {}
    /\ held = {}

StoreTypeOK ==
    /\ now \in Nat
    /\ clients \in [Clients -> ClientRow]
    /\ codes \in [Codes -> CodeRow \cup {NoRow, Purged}]
    /\ jwt \in [AccessIds -> Claims \cup {NoRow}]
    /\ access \in [AccessIds -> AccessRow \cup {NoRow, Purged}]
    /\ refresh \in [RefreshIds -> RefreshRow \cup {NoRow}]
    /\ audit \subseteq AuditRow
    /\ held \subseteq AccessIds \cup RefreshIds
=============================================================================
