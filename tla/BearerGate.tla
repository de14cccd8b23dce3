---------------------------- MODULE BearerGate ----------------------------
(***************************************************************************)
(* AuthMiddleware, which admits a request by the access token it carries,  *)
(* and Logout, the handler behind it that changes the token tables.        *)
(* gate[w] is the request that worker w serves.                            *)
(***************************************************************************)
EXTENDS Store

CONSTANT Bearers   \* authenticated requests that can be in flight at the same time

VARIABLE gate   \* gate[w]: program counter and locals of a request

GateIdle == [pc |-> "idle"]

(* dead is history: the token was already revoked when the request came in *)
GateRequest ==
    [pc : {"revoked", "admitted", "logoutRefresh"}, tok : AccessIds, dead : BOOLEAN]

GateTypeOK == gate \in [Bearers -> GateRequest \cup {GateIdle}]

GateInit == gate = [w \in Bearers |-> GateIdle]

---------------------------------------------------------------------------

\* Revoked, or removed since (only expired rows are).
Spent(a) == access[a] = Purged \/ (IsAccess(a) /\ access[a].revoked)

\* ValidateAccessToken: signature and expiry.
GateValidate(w, a) ==
    /\ gate[w].pc = "idle"
    /\ a \in held
    /\ now < jwt[a].exp
    /\ gate' = [gate EXCEPT ![w] = [pc |-> "revoked", tok |-> a, dead |-> Spent(a)]]
    /\ UNCHANGED storeVars

\* Mutant: the flag of the row is not read.
NeverRevoked(a) == FALSE

\* IsTokenRevoked: a token without a row counts as not revoked.
IsTokenRevoked(a) == IsAccess(a) /\ access[a].revoked

GateCheckRevoked(w) ==
    /\ gate[w].pc = "revoked"
    /\ gate' = [gate EXCEPT ![w] = IF IsTokenRevoked(gate[w].tok)
                                   THEN GateIdle
                                   ELSE [@ EXCEPT !.pc = "admitted"]]
    /\ UNCHANGED storeVars

\* The handler behind the gate: any but Logout leaves the tokens alone.
GateServe(w) ==
    /\ gate[w].pc = "admitted"
    /\ gate' = [gate EXCEPT ![w] = GateIdle]
    /\ UNCHANGED storeVars

\* Logout, first statement: revoke the bearer token.  A failure is only logged.
LogoutRevokeToken(w) ==
    /\ gate[w].pc = "admitted"
    /\ RevokeAccessToken(gate[w].tok) \/ UNCHANGED access
    /\ gate' = [gate EXCEPT ![w].pc = "logoutRefresh"]
    /\ UNCHANGED <<now, clients, codes, jwt, refresh, audit, held>>

\* Logout, second statement: revoke the user's refresh tokens.  A failure is only
\* logged.
LogoutRevokeRefreshTokens(w) ==
    /\ gate[w].pc = "logoutRefresh"
    /\ \/ RevokeRefreshTokensByUser(jwt[gate[w].tok].user, "logout")
       \/ UNCHANGED refresh
    /\ gate' = [gate EXCEPT ![w] = GateIdle]
    /\ UNCHANGED <<now, clients, codes, jwt, access, audit, held>>

GateFail(w) ==
    /\ gate[w].pc # "idle"
    /\ gate' = [gate EXCEPT ![w] = GateIdle]
    /\ UNCHANGED storeVars

GateNext ==
    \E w \in Bearers :
       \/ \E a \in AccessIds : GateValidate(w, a)
       \/ GateCheckRevoked(w)
       \/ GateServe(w)
       \/ LogoutRevokeToken(w)
       \/ LogoutRevokeRefreshTokens(w)
       \/ GateFail(w)

---------------------------------------------------------------------------
(* Properties                                                              *)

\* Every token a caller holds has a row, or had one that was deleted after the
\* token expired: a revocation always finds what it has to mark, and reading "no
\* row" as "not revoked" in IsTokenRevoked never admits a token that is in force.
HeldIsRecorded ==
    \A a \in held \cap AccessIds :
        \/ IsAccess(a) /\ access[a].user = jwt[a].user
        \/ access[a] = Purged /\ jwt[a].exp < now

\* A request whose token was revoked before it came in is not admitted, unless the
\* token's own lifetime ended while the request was between AuthMiddleware's two
\* checks.
NoLateAdmission ==
    \A w \in Bearers :
        gate[w].pc = "admitted" /\ gate[w].dead => jwt[gate[w].tok].exp < now
=============================================================================
