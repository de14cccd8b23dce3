-------------------------- MODULE MCTokenService --------------------------
(***************************************************************************)
(* Small instances of TokenService.  A configuration checks several mixes  *)
(* of requests in one run: mix is chosen at the start and says which       *)
(* requests come in, and which columns the administrator touches.          *)
(***************************************************************************)
EXTENDS TokenService, FiniteSets, TLC

CONSTANT Mixes   \* the mixes of a configuration

VARIABLE mix

Busy(W, q) == Cardinality({w \in W : q[w].pc # "idle"})

\* At most e exchanges, r rotations, v revocations, l logins or changes of password,
\* and b authenticated requests are in flight.
InFlight(e, r, v, l, b) ==
    /\ Busy(Exchangers, ex) <= e
    /\ Busy(Rotators, rot) <= r
    /\ Busy(Revokers, rev) <= v
    /\ Busy(Logins, login) <= l
    /\ Busy(Bearers, gate) <= b

\* One request of a kind is in flight at a time.
Alone(W, q) == \A v, w \in W : q[v].pc # "idle" /\ q[w].pc # "idle" => v = w

Used(S, row) == Cardinality({x \in S : row[x] # NoRow})

NoAccessEnded == \A a \in AccessIds : access[a] # Purged /\ (IsAccess(a) => ~access[a].revoked)
NoCodeEnded == \A k \in Codes : codes[k] # Purged /\ (IsCode(k) => ~codes[k].revoked)
NoRefreshEnded == \A r \in RefreshIds : Live(r) \/ refresh[r] = NoRow
AllActive == \A c \in Clients : clients[c].active

\* Worker names are arbitrary: two requests of different kinds have the same.
Paired(V, p, W, q) ==
    \A v \in V, w \in W : p[v].pc # "idle" /\ q[w].pc # "idle" => v = w

OneName ==
    \E w \in Exchangers : \A v \in Exchangers \ {w} :
        /\ ex[v].pc = "idle" /\ rot[v].pc = "idle"
        /\ rev[v].pc = "idle" /\ login[v].pc = "idle"

LoginsOnly ==
    /\ \A c \in Clients : clients[c].active /\ clients[c].allowRefresh
    /\ Used(Codes, codes) = 0 /\ audit = {}

\* A client that no code was issued to is active and may have refresh tokens: its flags
\* decide nothing, since its exchanges are refused for the code's client at the latest.
OthersPlain ==
    \A c \in Clients :
        \/ clients[c].active /\ clients[c].allowRefresh
        \/ \A k \in Codes : IsCode(k) => codes[k].client = c

\* One client acts for one user.
OnePrincipal ==
    \A k \in Codes : IsCode(k) =>
        /\ \A j \in Codes : IsCode(j) =>
              codes[j].client = codes[k].client /\ codes[j].user = codes[k].user
        /\ \A w \in Exchangers : ex[w].pc # "idle" => ex[w].client = codes[k].client
        /\ \A w \in Rotators : rot[w].pc # "idle" => rot[w].client = codes[k].client
        /\ \A c \in Clients : clients[c].allowRefresh \/ c = codes[k].client

Within ==
    CASE mix = "exchange" ->
            InFlight(2, 0, 0, 0, 0) /\ NoAccessEnded /\ NoRefreshEnded
            /\ Used(AccessIds, jwt) <= 2
            /\ OthersPlain
      [] mix = "revoke" ->
            InFlight(1, 0, 2, 0, 0) /\ OnePrincipal /\ NoCodeEnded /\ AllActive
            /\ Busy(Exchangers, ex) + Busy(Revokers, rev) <= 2
            /\ \A c \in Clients : clients[c].allowRefresh
      [] mix = "gate" ->
            InFlight(0, 0, 0, 1, 2) /\ Used(AccessIds, jwt) <= 2 /\ LoginsOnly
            /\ \A w \in Logins : login[w].pc # "endRefresh"
      [] mix = "sessions" ->
            InFlight(0, 0, 0, 2, 0) /\ LoginsOnly /\ now = 0
      [] mix = "replay" ->
            InFlight(1, 1, 1, 1, 0) /\ OnePrincipal /\ now = 0
            /\ NoCodeEnded /\ NoAccessEnded /\ AllActive /\ Used(AccessIds, jwt) <= 2
            /\ Busy(Exchangers, ex) + Busy(Rotators, rot) + Busy(Revokers, rev)
               + Busy(Logins, login) <= 2
            /\ OneName
            /\ \A w \in Logins : login[w].pc # "sign"
            /\ \A c \in Clients : clients[c].allowRefresh
            /\ audit \subseteq
                 [event : {"refresh_token_revoked", "refresh_token_family_revoked"},
                  subject : RefreshIds]
      [] mix = "rotation" ->
            InFlight(1, 2, 0, 0, 0) /\ now = 0 /\ Used(Codes, codes) <= 1
            /\ \A c \in Clients : clients[c].allowRefresh
      [] mix = "serial" ->
            Alone(Exchangers, ex) /\ Alone(Rotators, rot)
            /\ Paired(Exchangers, ex, Rotators, rot) /\ OnePrincipal
            /\ (now = 0 \/ Used(Codes, codes) <= 1)
            /\ \A r \in RefreshIds : IsRefresh(r) => refresh[r].reason # "admin_revoked"

\* Codes and tokens are interchangeable too: they are drawn in the order of their numbers.
InOrder(S, row) == \A x, y \in S : x < y /\ row[y] # NoRow => row[x] # NoRow

MCInit == Init /\ mix \in Mixes /\ Within

MCNext ==
    /\ Next
    /\ UNCHANGED mix
    /\ (Within /\ InOrder(Codes, codes)
        /\ InOrder(AccessIds, jwt) /\ InOrder(RefreshIds, refresh))'

MCSpec == MCInit /\ [][MCNext]_<<vars, mix>>

\* With one exchange and one rotation at a time, failing anywhere, what concurrent
\* requests break holds: a code is exchanged once, ...
SerialSingleUse == mix = "serial" => SingleUse

\* ... a refresh token has one successor, ...
SerialRotatedOnce == mix = "serial" => RotatedOnce

\* ... a family has one valid token, ...
SerialOneLive == mix = "serial" => OneLivePerFamily

\* ... and a replay ends the family.
SerialReplayEnds == mix = "serial" => ReplayEndsFamily

\* Workers and principals are interchangeable; the kinds of requests share one
\* set of worker names.
Symmetry ==
    Permutations(Clients) \cup Permutations(Users) \cup Permutations(Exchangers)
=============================================================================
