-------------------------- MODULE MCProviderLogin --------------------------
(***************************************************************************)
(* A small instance of ProviderLogin.  The mix of a behaviour never changes *)
(* and says who is busy: two administrators with clients or with providers, *)
(* one administrator and one login, or two tabs after the setup.            *)
(***************************************************************************)
EXTENDS ProviderLogin, TLC

VARIABLE mix

Mixes == {"clients", "providers", "changes", "tabs"}

OneClientOneProvider ==
    /\ Cardinality({c \in Clients : clients'[c] # NoRow}) <= 1
    /\ Cardinality({p \in ProviderIds : providers'[p] # NoRow}) <= 1

\* Clients, and for logins a provider, in working order.
SetUp(a) ==
    /\ used = {} /\ \A t \in Tabs : At(t, "idle")
    /\ CreateClient(a) \/ ReturnSecret(a) \/ (mix = "tabs" /\ CreateProvider(a))
    /\ \A c \in Clients : clients'[c] # NoRow =>
           clients'[c].active /\ clients'[c].uris = Uris
    /\ mix = "tabs" => /\ OneClientOneProvider
                       /\ \A p \in ProviderIds : providers'[p] # NoRow =>
                              providers'[p].enabled

\* Failures that lose no secret; the lost ones are the mix of clients' subject.
Fail(a) == admin[a].pc # "respond" /\ AdminFail(a)

\* Changes while somebody logs in; the secrets are the other mixes' subject.
Change(a) ==
    /\ \A b \in Admins \ {a} : admin[b].pc = "idle"
    /\ \/ ProviderStep(a) \/ Fail(a)
       \/ ClientStep(a) /\ admin'[a].pc # "regenWrite"
    /\ OneClientOneProvider
    /\ admin'[a].pc = "updWrite" => admin'[a].new = None

AdminStep(a) ==
    \/ mix = "clients" /\ (ClientStep(a) \/ AdminFail(a))
    \/ mix = "providers" /\ (SetUp(a) \/ ProviderStep(a) \/ Fail(a))
    \/ mix = "changes" /\ Change(a)
    \/ mix = "tabs" /\ SetUp(a)

TabStep(t) ==
    /\ mix \in {"changes", "tabs"}
    /\ LoginStep(t)
    /\ mix = "changes" => /\ \A s \in Tabs \ {t} : At(s, "idle")
                          /\ Cardinality(used') <= 1

MCInit ==
    /\ Init
    /\ mix \in Mixes
    /\ mix \in {"clients", "providers"} => \A u \in UserIds : users[u] = NoRow

MCNext ==
    /\ \/ \E t \in Tabs : TabStep(t) /\ UNCHANGED regVars
       \/ mix = "tabs" /\ CookieExpires /\ UNCHANGED regVars
       \/ /\ \E a \in Admins : AdminStep(a)
          /\ Observe /\ UNCHANGED <<users, cookie, used, issued>>
    /\ UNCHANGED mix

MCSpec == MCInit /\ [][MCNext]_<<vars, mix>>

\* Identifiers and requests of a kind are interchangeable.
Symmetry ==
    Permutations(Clients) \cup Permutations(Hashes) \cup Permutations(Secrets)
    \cup Permutations(Admins) \cup Permutations(Tabs)
    \cup Permutations(States) \cup Permutations(UserIds)
=============================================================================
