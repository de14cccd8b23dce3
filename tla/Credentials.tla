---------------------------- MODULE Credentials ----------------------------
(***************************************************************************)
(* What the token service promises about the credentials it issues, with   *)
(* no requests in flight, no clock and no failures: a credential is issued *)
(* once, ends, and never comes back; a token is minted from a code that    *)
(* has ended; and a refresh token succeeds one that has ended, for the     *)
(* same owner and in the same family.  TokenService implements this.       *)
(***************************************************************************)
CONSTANTS
    Codes, AccessIds, RefreshIds,   \* credentials that can be issued
    Owners,                         \* whom a refresh token is issued to
    None                            \* not issued, or the first of its family

VARIABLES
    code,     \* code[k]: "unissued", "good" or "ended"
    token,    \* token[a]: the same of an access token
    family,   \* family[r]: a refresh token, or None
    minted    \* pairs <<code, access token minted from it>>

vars == <<code, token, family, minted>>

Init ==
    /\ code = [k \in Codes |-> "unissued"]
    /\ token = [a \in AccessIds |-> "unissued"]
    /\ family = [r \in RefreshIds |-> None]
    /\ minted = {}

\* The members of S end; st is code or token.
Ended(st, S) == [x \in DOMAIN st |-> IF x \in S THEN "ended" ELSE st[x]]

IssueCode(k) ==
    /\ code[k] = "unissued"
    /\ code' = [code EXCEPT ![k] = "good"]
    /\ UNCHANGED <<token, family, minted>>

EndCodes(S) ==
    /\ \A k \in S : code[k] = "good"
    /\ code' = Ended(code, S)
    /\ UNCHANGED <<token, family, minted>>

\* A login or a rotation opens a session ...
OpenSession(a) ==
    /\ token[a] = "unissued"
    /\ token' = [token EXCEPT ![a] = "good"]
    /\ UNCHANGED <<code, family, minted>>

\* ... and so does a code that can no longer be used.
Mint(k, a) ==
    /\ code[k] = "ended"
    /\ token[a] = "unissued"
    /\ token' = [token EXCEPT ![a] = "good"]
    /\ minted' = minted \cup {<<k, a>>}
    /\ UNCHANGED <<code, family>>

EndTokens(S) ==
    /\ \A a \in S : token[a] = "good"
    /\ token' = Ended(token, S)
    /\ UNCHANGED <<code, family, minted>>

StartFamily(r, o) ==
    /\ family[r] = None
    /\ family' = [family EXCEPT ![r] = [good |-> TRUE, root |-> r, prev |-> None, owner |-> o]]
    /\ UNCHANGED <<code, token, minted>>

Succeed(r, p) ==
    /\ family[r] = None
    /\ family[p] # None
    /\ ~family[p].good
    /\ family' = [family EXCEPT ![r] = [good |-> TRUE, root |-> family[p].root,
                                        prev |-> p, owner |-> family[p].owner]]
    /\ UNCHANGED <<code, token, minted>>

EndRefreshTokens(S) ==
    /\ \A r \in S : family[r] # None
    /\ family' = [r \in RefreshIds |->
                    IF r \in S THEN [family[r] EXCEPT !.good = FALSE] ELSE family[r]]
    /\ UNCHANGED <<code, token, minted>>

Next ==
    \/ \E k \in Codes : IssueCode(k)
    \/ \E S \in SUBSET Codes : EndCodes(S)
    \/ \E a \in AccessIds : OpenSession(a)
    \/ \E k \in Codes, a \in AccessIds : Mint(k, a)
    \/ \E S \in SUBSET AccessIds : EndTokens(S)
    \/ \E r \in RefreshIds, o \in Owners : StartFamily(r, o)
    \/ \E r, p \in RefreshIds : Succeed(r, p)
    \/ \E S \in SUBSET RefreshIds : EndRefreshTokens(S)

Spec == Init /\ [][Next]_vars
=============================================================================
