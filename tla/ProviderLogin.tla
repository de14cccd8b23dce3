---------------------------- MODULE ProviderLogin ----------------------------
(***************************************************************************)
(* Login through an OAuth provider, from GET .../login to the redirect that *)
(* carries an authorization code, while administrators change clients and  *)
(* providers.  The tabs of one browser share the signed cookie that holds   *)
(* the session of a login; a Set-Cookie takes effect when the answer        *)
(* arrives.  The provider is external: it answers or not, as anybody.       *)
(***************************************************************************)
EXTENDS Registry

CONSTANTS
    Tabs,           \* tabs of the browser
    States,         \* state parameters (CSRF nonces)
    Subs,           \* subjects at the providers
    Emails,         \* email addresses
    UserIds         \* ids of the table users

VARIABLES
    users,          \* user id |-> row
    cookie,         \* the browser's oauth_session cookie, or None
    flow,           \* tab |-> its login
    used,           \* state parameters generated so far
    issued,         \* authorization codes inserted, with what led to them
    registered      \* history: client id |-> URIs it ever had registered

loginVars == <<users, cookie, flow, used, issued, registered>>
vars == <<regVars, loginVars>>

UserRows == [name: Names \cup {None}, sub: Subs \cup {None}, email: Emails]
Sessions == [st: States, c: Clients, n: Names, uri: Uris]
People   == [sub: Subs, email: Emails]
Issues   == [c: Clients, n: Names, uri: Uris, wanted: Uris, user: UserIds,
             who: People]

\* The markers are neither rows, sessions nor tabs.
ASSUME LoginAssumption ==
    /\ NoRow \notin UserRows
    /\ None \notin Sessions /\ None \notin Tabs

FlowIdle == [pc |-> "idle"]

\* The callback's steps, in order.
CallbackSteps ==
    {"cbClient", "cbProvider", "exchange", "userInfo", "lookup", "touch",
     "create", "insert"}

\* c, n and uri are the login's, to is the redirect URI of the cookie that came
\* with the callback.  lone and off are history fields: nobody else touched the
\* cookie since this login set it, and what has been unusable ever since the
\* callback arrived.
Flows ==
    {FlowIdle, [pc |-> "answer"]}
    \cup [pc: {"provider"}, c: Clients, n: Names, uri: Uris]
    \cup [pc: {"redirect", "idp", "return"}, c: Clients, n: Names, uri: Uris,
          st: States, lone: BOOLEAN, who: People \cup {None}]
    \cup [pc: CallbackSteps, c: Clients, n: Names, uri: Uris, to: Uris,
          who: People, p: ProviderIds \cup {None}, user: UserIds \cup {None},
          off: SUBSET {"client", "provider"}]

LoginTypeOK ==
    /\ users \in [UserIds -> UserRows \cup {NoRow}]
    /\ cookie \in Sessions \cup {None}
    /\ flow \in [Tabs -> Flows]
    /\ used \subseteq States
    /\ issued \subseteq Issues
    /\ registered \in [Clients -> SUBSET Uris]

\* There may be an account that was not created by a provider login.
LoginInit ==
    /\ users \in {[u \in UserIds |-> NoRow]} \cup
                 {[u \in UserIds |-> IF u = v
                      THEN [name |-> None, sub |-> None, email |-> e]
                      ELSE NoRow] : v \in UserIds, e \in Emails}
    /\ cookie = None
    /\ flow = [t \in Tabs |-> FlowIdle]
    /\ used = {}
    /\ issued = {}
    /\ registered = [c \in Clients |-> {}]

-----------------------------------------------------------------------------
At(t, pc) == flow[t].pc = pc
Goes(t, pc) == flow' = [flow EXCEPT ![t].pc = pc]
Ends(t) == flow' = [flow EXCEPT ![t] = FlowIdle]

InCallback(f) == f.pc \in CallbackSteps

\* The cookie becomes v by tab t's doing: the other logins are not alone.
SetCookie(t, v, f) ==
    /\ cookie' = v
    /\ flow' = [s \in Tabs |->
                  IF s = t THEN f
                  ELSE IF flow[s].pc \in {"idp", "return"}
                       THEN [flow[s] EXCEPT !.lone = FALSE]
                       ELSE flow[s]]

EnabledProviders(c, n) == {p \in ProvidersNamed(c, n) : providers[p].enabled}

\* What is unusable now of a client and its provider of a name.
Off ==
    [c \in Clients |-> [n \in Names |->
        (IF Active(c) THEN {} ELSE {"client"})
        \cup (IF EnabledProviders(c, n) # {} THEN {} ELSE {"provider"})]]

-----------------------------------------------------------------------------
(* GET /web/auth/:client_id/:provider/login                                *)

\* InitiateAuthorization, client and redirect URI; a refusal changes nothing.
InitiateClient(t) ==
    /\ At(t, "idle")
    /\ \E c \in Clients, n \in Names, uri \in Uris :
         /\ Active(c)
         /\ uri \in clients[c].uris
         /\ flow' = [flow EXCEPT ![t] =
                       [pc |-> "provider", c |-> c, n |-> n, uri |-> uri]]
    /\ UNCHANGED <<users, cookie, used, issued, registered>>

\* InitiateAuthorization, provider; the answer has a fresh state and the cookie.
InitiateProvider(t) ==
    /\ At(t, "provider")
    /\ LET f == flow[t]
       IN  \/ /\ EnabledProviders(f.c, f.n) # {}
              /\ \E st \in States \ used :
                   /\ used' = used \cup {st}
                   /\ flow' = [flow EXCEPT ![t] =
                        [pc |-> "redirect", c |-> f.c, n |-> f.n,
                         uri |-> f.uri, st |-> st, lone |-> FALSE,
                         who |-> None]]
           \/ /\ EnabledProviders(f.c, f.n) = {}
              /\ Ends(t)
              /\ UNCHANGED used
    /\ UNCHANGED <<users, cookie, issued, registered>>

\* Mutant: the session of a login in progress is kept.
RedirectKeepsCookie(t) ==
    /\ At(t, "redirect")
    /\ LET f == flow[t]
       IN  SetCookie(t, IF cookie # None THEN cookie
                        ELSE [st |-> f.st, c |-> f.c, n |-> f.n, uri |-> f.uri],
                     [f EXCEPT !.pc = "idp", !.lone = TRUE])
    /\ UNCHANGED <<users, used, issued, registered>>

\* The browser stores the cookie and goes to the provider.
Redirect(t) ==
    /\ At(t, "redirect")
    /\ LET f == flow[t]
       IN  SetCookie(t, [st |-> f.st, c |-> f.c, n |-> f.n, uri |-> f.uri],
                     [f EXCEPT !.pc = "idp", !.lone = TRUE])
    /\ UNCHANGED <<users, used, issued, registered>>

\* Somebody signs in at the provider, which redirects to the callback.
SignIn(t) ==
    /\ At(t, "idp")
    /\ \E w \in People :
         flow' = [flow EXCEPT ![t].pc = "return", ![t].who = w]
    /\ UNCHANGED <<users, cookie, used, issued, registered>>

\* The user gives up, or the provider redirects with an error, which the
\* callback reports before it looks at the cookie.
Denied(t) ==
    /\ At(t, "idp")
    /\ Ends(t)
    /\ UNCHANGED <<users, cookie, used, issued, registered>>

\* The cookie lives for ten minutes.
CookieExpires ==
    /\ cookie # None
    /\ SetCookie(None, None, FlowIdle)
    /\ UNCHANGED <<users, used, issued, registered>>

-----------------------------------------------------------------------------
(* GET /web/auth/:client_id/:provider/callback                             *)

\* Mutant: the state parameter is not compared with the cookie's.
SessionMatchesPath(ses, f) == ses.c = f.c /\ ses.n = f.n

\* The state parameter and the path agree with the session of the cookie.
SessionMatches(ses, f) == ses.st = f.st /\ ses.c = f.c /\ ses.n = f.n

\* The handler's checks before it does any work.  Without a cookie the answer
\* leaves the browser as it is; from then on every answer clears the cookie.
CallbackArrives(t) ==
    /\ At(t, "return")
    /\ LET f == flow[t]
       IN  flow' = [flow EXCEPT ![t] =
             IF cookie = None THEN FlowIdle
             ELSE IF ~SessionMatches(cookie, f) THEN [pc |-> "answer"]
             ELSE [pc |-> "cbClient", c |-> f.c, n |-> f.n, uri |-> f.uri,
                   to |-> cookie.uri, who |-> f.who, p |-> None,
                   user |-> None, off |-> Off[f.c][f.n]]]
    /\ UNCHANGED <<users, cookie, used, issued, registered>>

\* HandleProviderCallback: the client is active, or the callback is refused.
CallbackClient(t) ==
    /\ At(t, "cbClient")
    /\ IF Active(flow[t].c) THEN Goes(t, "cbProvider")
       ELSE flow' = [flow EXCEPT ![t] = [pc |-> "answer"]]
    /\ UNCHANGED <<users, cookie, used, issued, registered>>

\* Mutant: whether the provider is enabled was checked by the login.
CallbackAnyProvider(t) ==
    /\ At(t, "cbProvider")
    /\ LET f == flow[t]
       IN  \/ \E p \in ProvidersNamed(f.c, f.n) :
                flow' = [flow EXCEPT ![t].pc = "exchange", ![t].p = p]
           \/ /\ ProvidersNamed(f.c, f.n) = {}
              /\ flow' = [flow EXCEPT ![t] = [pc |-> "answer"]]
    /\ UNCHANGED <<users, cookie, used, issued, registered>>

\* The provider exists and is enabled, or the callback is refused.
CallbackProvider(t) ==
    /\ At(t, "cbProvider")
    /\ LET f == flow[t]
       IN  \/ \E p \in EnabledProviders(f.c, f.n) :
                flow' = [flow EXCEPT ![t].pc = "exchange", ![t].p = p]
           \/ /\ EnabledProviders(f.c, f.n) = {}
              /\ flow' = [flow EXCEPT ![t] = [pc |-> "answer"]]
    /\ UNCHANGED <<users, cookie, used, issued, registered>>

\* The provider's token endpoint answers exchangeProviderCode, or never does: the
\* request has no deadline.
ProviderAnswers(t) ==
    /\ At(t, "exchange")
    /\ Goes(t, "userInfo")
    /\ UNCHANGED <<users, cookie, used, issued, registered>>

\* fetchUserInfo succeeds.
FetchUserInfo(t) ==
    /\ At(t, "userInfo")
    /\ Goes(t, "lookup")
    /\ UNCHANGED <<users, cookie, used, issued, registered>>

\* Mutant: users are matched by their email address.
UserByEmail(f) ==
    {u \in UserIds : users[u] # NoRow /\ users[u].email = f.who.email}

\* GetUserByProviderID: the users row of the provider name and subject.
UserByProviderID(f) ==
    {u \in UserIds : users[u] # NoRow /\ users[u].name = f.n
                                      /\ users[u].sub = f.who.sub}

\* Mutant: the row found is assigned to a variable of the inner scope.
LookupUserShadowed(t) ==
    /\ At(t, "lookup")
    /\ Goes(t, IF UserByProviderID(flow[t]) = {} THEN "create" ELSE "touch")
    /\ UNCHANGED <<users, cookie, used, issued, registered>>

\* upsertUser, the lookup.
LookupUser(t) ==
    /\ At(t, "lookup")
    /\ \/ \E u \in UserByProviderID(flow[t]) :
            flow' = [flow EXCEPT ![t].pc = "touch", ![t].user = u]
       \/ UserByProviderID(flow[t]) = {} /\ Goes(t, "create")
    /\ UNCHANGED <<users, cookie, used, issued, registered>>

\* upsertUser, UpdateLastLogin: no column that is modelled.
TouchUser(t) ==
    /\ At(t, "touch")
    /\ Goes(t, "insert")
    /\ UNCHANGED <<users, cookie, used, issued, registered>>

\* The unique indexes on email and on (provider, provider_id).
Collides(f) ==
    \E u \in UserIds :
        /\ users[u] # NoRow
        /\ \/ users[u].email = f.who.email
           \/ users[u].name = f.n /\ users[u].sub = f.who.sub

\* upsertUser, CreateUser: refused when another row has the identity or the
\* email address.
CreateUser(t) ==
    /\ At(t, "create")
    /\ LET f == flow[t]
       IN  \/ /\ Collides(f)
              /\ flow' = [flow EXCEPT ![t] = [pc |-> "answer"]]
              /\ UNCHANGED users
           \/ /\ ~Collides(f)
              /\ \E u \in UserIds :
                   /\ users[u] = NoRow
                   /\ users' = [users EXCEPT ![u] =
                        [name |-> f.n, sub |-> f.who.sub, email |-> f.who.email]]
                   /\ flow' = [flow EXCEPT ![t].pc = "insert", ![t].user = u]
    /\ UNCHANGED <<cookie, used, issued, registered>>

\* CreateAuthorizationCode, refused by the foreign key once the provider is
\* deleted.
InsertCode(t) ==
    /\ At(t, "insert")
    /\ LET f == flow[t]
       IN  issued' = IF Stored(f.p)
                     THEN issued \cup {[c |-> f.c, n |-> f.n, uri |-> f.to,
                                        wanted |-> f.uri, user |-> f.user,
                                        who |-> f.who]}
                     ELSE issued
    /\ flow' = [flow EXCEPT ![t] = [pc |-> "answer"]]
    /\ UNCHANGED <<users, cookie, used, registered>>

\* The answer, a redirect with the code or an error, clears the cookie.
CallbackAnswered(t) ==
    /\ At(t, "answer")
    /\ SetCookie(t, None, FlowIdle)
    /\ UNCHANGED <<users, used, issued, registered>>

\* A statement or a call to the provider fails.
LoginFail(t) ==
    /\ flow[t].pc \in CallbackSteps \cup {"provider"}
    /\ flow' = [flow EXCEPT ![t] =
                  IF @.pc = "provider" THEN FlowIdle ELSE [pc |-> "answer"]]
    /\ UNCHANGED <<users, cookie, used, issued, registered>>

-----------------------------------------------------------------------------
LoginStep(t) ==
    \/ InitiateClient(t) \/ InitiateProvider(t) \/ Redirect(t)
    \/ SignIn(t) \/ Denied(t)
    \/ CallbackArrives(t) \/ CallbackClient(t) \/ CallbackProvider(t)
    \/ ProviderAnswers(t) \/ FetchUserInfo(t)
    \/ LookupUser(t) \/ TouchUser(t) \/ CreateUser(t)
    \/ InsertCode(t) \/ CallbackAnswered(t) \/ LoginFail(t)

\* What an administrator's step means for the histories.
Observe ==
    /\ registered' = [c \in Clients |->
            registered[c] \cup (IF clients'[c] = NoRow THEN {}
                                ELSE clients'[c].uris)]
    /\ flow' = [t \in Tabs |->
            IF InCallback(flow[t])
            THEN [flow[t] EXCEPT !.off = @ \cap Off'[flow[t].c][flow[t].n]]
            ELSE flow[t]]

Init == RegInit /\ LoginInit

Next ==
    \/ \E t \in Tabs : LoginStep(t) /\ UNCHANGED regVars
    \/ CookieExpires /\ UNCHANGED regVars
    \/ RegNext /\ Observe /\ UNCHANGED <<users, cookie, used, issued>>

Spec == Init /\ [][Next]_vars

\* The tables, the requests of administrators and the tabs' logins keep their
\* types.
TypeOK == RegTypeOK /\ LoginTypeOK

-----------------------------------------------------------------------------
(* Properties.                                                             *)

\* A code goes to the redirect URI of the login it completes, whatever other
\* tabs do to the shared cookie, and that URI was registered for the client.
CodeGoesWhereAsked ==
    \A i \in issued : i.uri = i.wanted /\ i.uri \in registered[i.c]

\* A code is issued for the account of the subject that signed in, although the
\* lookup and the INSERT of upsertUser are two statements that race with those
\* of other callbacks.
CodeForWhoSignedIn ==
    \A i \in issued : /\ users[i.user] # NoRow
                      /\ users[i.user].name = i.n
                      /\ users[i.user].sub = i.who.sub

\* No code is issued by a callback during all of which the client was inactive
\* or the provider disabled or deleted, even if the login began before that.
NoCodeWhileOff ==
    [][\A t \in Tabs : At(t, "insert") /\ issued' # issued
                          => flow[t].off = {} \/ flow'[t] = flow[t]]_vars

\* A callback is turned away for its cookie only if another login, callback or
\* the cookie's expiry came between: a login on its own is never lost.
OnlyOverlapLosesLogin ==
    [][\A t \in Tabs : At(t, "return") /\ flow[t].lone
                          => flow'[t].pc \in {"return", "cbClient"}]_vars
=============================================================================
