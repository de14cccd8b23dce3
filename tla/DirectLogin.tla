--------------------------- MODULE DirectLogin ----------------------------
(***************************************************************************)
(* The two requests that open a session without a client.  POST            *)
(* /api/v1/auth/login, once VerifyCredentials has succeeded for a user     *)
(* without a pending password change, ends the user's other sessions and   *)
(* opens a new one.  POST /api/v1/auth/change-password, once the new hash  *)
(* is written and the flag cleared (module Accounts), ends the user's      *)
(* refresh tokens and opens a session beside the others.  login[w] is the  *)
(* request of worker w.                                                    *)
(***************************************************************************)
EXTENDS Store

CONSTANT Logins   \* such requests that can be in flight at the same time

VARIABLES
    login,    \* login[w]: program counter and locals of a request
    beside    \* history: <<a, b>> when session a was opened without ending b

loginVars == <<login, beside>>

LoginIdle == [pc |-> "idle"]

\* "open" is ChangePassword's INSERT, "store" the login's.
LoginHolding == {"revokeAll", "store", "open", "respond"}

LoginSigning == [pc : {"sign", "endRefresh", "logChange", "renew"}, user : Users]
LoginSigned == [pc : LoginHolding, user : Users, acc : AccessIds]

LoginTypeOK ==
    /\ login \in [Logins -> {LoginIdle} \cup LoginSigning \cup LoginSigned]
    /\ beside \subseteq AccessIds \X AccessIds

LoginInit ==
    /\ login = [w \in Logins |-> LoginIdle]
    /\ beside = {}

---------------------------------------------------------------------------

LoginVerified(w, u) ==
    /\ login[w].pc = "idle"
    /\ login' = [login EXCEPT ![w] = [pc |-> "sign", user |-> u]]
    /\ UNCHANGED <<storeVars, beside>>

\* ChangePassword has written the hash and the flag.
PasswordChanged(w, u) ==
    /\ login[w].pc = "idle"
    /\ login' = [login EXCEPT ![w] = [pc |-> "endRefresh", user |-> u]]
    /\ UNCHANGED <<storeVars, beside>>

\* The error of the statement is discarded.
ChangeRevokeRefreshTokens(w) ==
    /\ login[w].pc = "endRefresh"
    /\ \/ RevokeRefreshTokensByUser(login[w].user, "password_change")
       \/ UNCHANGED refresh
    /\ login' = [login EXCEPT ![w].pc = "logChange"]
    /\ UNCHANGED <<now, clients, codes, jwt, access, audit, held, beside>>

\* Two audit events, either of which can be lost.
ChangeLog(w) ==
    /\ login[w].pc = "logChange"
    /\ \E written \in SUBSET {"user_password_changed", "force_password_change_satisfied"} :
          /\ written # {} => AuditEnabled
          /\ audit' = audit \cup {[event |-> e, subject |-> login[w].user] : e \in written}
    /\ login' = [login EXCEPT ![w].pc = "renew"]
    /\ UNCHANGED <<now, clients, codes, jwt, access, refresh, held, beside>>

LoginGenerate(w, a) ==
    /\ login[w].pc \in {"sign", "renew"}
    /\ GenerateAccessToken(a, login[w].user)
    /\ login' = [login EXCEPT ![w] =
                   [pc |-> IF login[w].pc = "sign" THEN "revokeAll" ELSE "open",
                    user |-> login[w].user, acc |-> a]]
    /\ UNCHANGED <<now, clients, codes, access, refresh, audit, held, beside>>

\* RevokeAllUserAccessTokens: every access token of the user, those that OAuth
\* clients obtained included.
LoginRevokeAll(w) ==
    /\ login[w].pc = "revokeAll"
    /\ RevokeAccessTokensByUser(login[w].user)
    /\ login' = [login EXCEPT ![w].pc = "store"]
    /\ UNCHANGED <<now, clients, codes, jwt, refresh, audit, held, beside>>

\* User u's direct-login tokens that are in force.
Sessions(u) ==
    {a \in AccessIds : /\ IsAccess(a) /\ ~access[a].revoked
                       /\ access[a].client = None /\ access[a].user = u}

\* The sessions that stay in force beside the one that request w opens: a login
\* that has run its UPDATE and not its INSERT escapes, and a change of password
\* ends no session.
Spared(w) ==
    {b \in AccessIds :
        \/ \E v \in Logins \ {w} : /\ login[v].pc = "store" /\ login[v].acc = b
                                    /\ login[v].user = login[w].user
        \/ login[w].pc = "open" /\ b \in Sessions(login[w].user)}

\* Mutant: the handler answers although the row could not be written.
SkipDirectLoginToken(w) ==
    /\ login[w].pc \in {"store", "open"}
    /\ login' = [login EXCEPT ![w].pc = "respond"]
    /\ UNCHANGED <<storeVars, beside>>

StoreDirectLoginToken(w) ==
    /\ login[w].pc \in {"store", "open"}
    /\ \E e \in RowExpiry(login[w].acc) :
          CreateAccessToken(login[w].acc,
              [client |-> None, user |-> login[w].user,
               expires |-> e, revoked |-> FALSE])
    /\ beside' = beside \cup {login[w].acc} \X Spared(w)
    /\ login' = [login EXCEPT ![w].pc = "respond"]
    /\ UNCHANGED <<now, clients, codes, jwt, refresh, audit, held>>

LoginRespond(w) ==
    /\ login[w].pc = "respond"
    /\ held' = held \cup {login[w].acc}
    /\ login' = [login EXCEPT ![w] = LoginIdle]
    /\ UNCHANGED <<now, clients, codes, jwt, access, refresh, audit, beside>>

LoginFail(w) ==
    /\ login[w].pc # "idle"
    /\ login' = [login EXCEPT ![w] = LoginIdle]
    /\ UNCHANGED <<storeVars, beside>>

LoginNext ==
    \E w \in Logins :
       \/ \E u \in Users : LoginVerified(w, u)
       \/ \E u \in Users : PasswordChanged(w, u)
       \/ ChangeRevokeRefreshTokens(w)
       \/ ChangeLog(w)
       \/ \E a \in AccessIds : LoginGenerate(w, a)
       \/ LoginRevokeAll(w)
       \/ StoreDirectLoginToken(w)
       \/ LoginRespond(w)
       \/ LoginFail(w)

---------------------------------------------------------------------------
(* Properties                                                              *)

\* "Single-session semantics", as far as the statements allow.  Two direct-login
\* tokens of one user are both in force only in two cases: ChangePassword, which
\* ends no session, stored one while the other was there; or one was stored while
\* the login that stores the other was between RevokeAllUserAccessTokens and
\* StoreDirectLoginToken.  No other overlap, order or failure leaves two.
SingleSession ==
    \A u \in Users : \A a, b \in Sessions(u) :
        a = b \/ <<a, b>> \in beside \/ <<b, a>> \in beside
=============================================================================
