-------------------------------- MODULE Csrf --------------------------------
(***************************************************************************)
(* The double-submit cookie of CSRFMiddleware as the tabs of one browser   *)
(* meet it.  A script reads the cookie csrf_token and later sends a        *)
(* request with what it read in the header X-CSRF-Token; the browser adds  *)
(* the cookie as it is then, and stores the cookie of the answer when that *)
(* arrives.                                                                *)
(***************************************************************************)
EXTENDS Naturals

CONSTANTS
    Scripts,        \* requests of the browser that can be in flight
    Tokens,         \* tokens that can be generated
    NoToken         \* no cookie, no header

VARIABLES
    jar,            \* the browser's csrf_token cookie
    made,           \* tokens generated so far
    call            \* script |-> its request

csrfVars == <<jar, made, call>>

CallIdle == [pc |-> "idle"]

Cookies == Tokens \cup {NoToken}

\* calm is a history field: the script read the cookie while it was settled, and
\* the cookie did not expire before the request was sent.
Calls ==
    {CallIdle}
    \cup [pc: {"send"}, header: Cookies, calm: BOOLEAN]
    \cup [pc: {"serve"}, header: Cookies, cookie: Cookies, calm: BOOLEAN,
          write: BOOLEAN]
    \cup [pc: {"answer"}, set: Tokens, ok: BOOLEAN, calm: BOOLEAN]

CsrfTypeOK ==
    /\ jar \in Cookies
    /\ made \subseteq Tokens
    /\ call \in [Scripts -> Calls]

CsrfInit ==
    /\ jar = NoToken
    /\ made = {}
    /\ call = [s \in Scripts |-> CallIdle]

\* The browser has a cookie, and every request under way was sent with that one:
\* no answer to a request without a cookie is still to come.
Settled ==
    /\ jar # NoToken
    /\ \A s \in Scripts : /\ call[s].pc = "serve" => call[s].cookie = jar
                          /\ call[s].pc = "answer" => call[s].set = jar

-----------------------------------------------------------------------------
ReadCookie(s) ==
    /\ call[s].pc = "idle"
    /\ call' = [call EXCEPT ![s] = [pc |-> "send", header |-> jar, calm |-> Settled]]
    /\ UNCHANGED <<jar, made>>

Send(s) ==
    /\ call[s].pc = "send"
    /\ \E w \in BOOLEAN :
         call' = [call EXCEPT ![s] =
                    [pc |-> "serve", header |-> call[s].header, cookie |-> jar,
                     calm |-> call[s].calm, write |-> w]]
    /\ UNCHANGED <<jar, made>>

\* Mutant: every request gets a new token.
CookieTokensRotated(c) == Tokens \ made

\* The token of the request's cookie, or a new one.
CookieTokens(c) == IF c.cookie # NoToken THEN {c.cookie} ELSE Tokens \ made

\* The header of a request that changes state is compared with the token.
Passes(c, token) == c.write => c.header # NoToken /\ c.header = token

\* The answer sets the cookie in either case.
Serve(s) ==
    /\ call[s].pc = "serve"
    /\ \E token \in CookieTokens(call[s]) :
         /\ made' = made \cup {token}
         /\ call' = [call EXCEPT ![s] =
                       [pc |-> "answer", set |-> token,
                        ok |-> Passes(call[s], token), calm |-> call[s].calm]]
    /\ UNCHANGED jar

\* No token could be generated, or another check came first: the answer sets
\* no cookie.
TurnedAway(s) ==
    /\ call[s].pc = "serve"
    /\ call' = [call EXCEPT ![s] = CallIdle]
    /\ UNCHANGED <<jar, made>>

Receive(s) ==
    /\ call[s].pc = "answer"
    /\ jar' = call[s].set
    /\ call' = [call EXCEPT ![s] = CallIdle]
    /\ UNCHANGED made

\* The cookie lives for an hour after the last answer.
JarExpires ==
    /\ jar # NoToken
    /\ jar' = NoToken
    /\ call' = [s \in Scripts |->
                  IF call[s].pc = "send" THEN [call[s] EXCEPT !.calm = FALSE] ELSE call[s]]
    /\ UNCHANGED made

CsrfNext ==
    \/ \E s \in Scripts : ReadCookie(s) \/ Send(s) \/ Serve(s)
                         \/ TurnedAway(s) \/ Receive(s)
    \/ JarExpires

CsrfSpec == CsrfInit /\ [][CsrfNext]_csrfVars

-----------------------------------------------------------------------------
(* Properties.                                                             *)

\* Once the browser has a cookie and no answer that could bring another one is
\* under way, a script that reads the cookie is not turned away, unless the cookie
\* expires before the request is sent: however many requests are in flight and in
\* whatever order their answers arrive, the answers refresh the token and never
\* change it.
SettledNeverRefused ==
    \A s \in Scripts : call[s].pc = "answer" /\ call[s].calm => call[s].ok
=============================================================================
