------------------------------ MODULE Registry ------------------------------
(***************************************************************************)
(* The administration of client applications and of their OAuth providers: *)
(* the tables clients and oauth_providers and the requests of concurrent   *)
(* administrators, one action per SQL statement.  A client is only ever    *)
(* deactivated; a provider is deleted for good.  What validation refuses   *)
(* changes nothing and is left out: the inputs below are valid ones.       *)
(***************************************************************************)
EXTENDS Naturals, FiniteSets

CONSTANTS
    Clients,        \* ids of the table clients
    ProviderIds,    \* ids of the table oauth_providers
    Names,          \* provider names, as in the login path
    Uris,           \* redirect URIs
    Hashes,         \* client secrets, each with its own hash
    Secrets,        \* provider client secrets (encrypted at rest)
    Admins,         \* administrator requests in flight
    None,           \* an empty field
    NoRow,          \* an id not inserted yet
    Deleted         \* an id whose row was deleted: ids are never reused

VARIABLES
    clients,        \* client id |-> row
    providers,      \* provider id |-> row
    admin,          \* administrator request |-> its progress
    shown,          \* history: client id |-> secrets returned to administrators
    lost            \* history: secrets whose request ended before the answer

regVars == <<clients, providers, admin, shown, lost>>

ClientRows == [active: BOOLEAN, uris: SUBSET Uris, hash: Hashes]

ProviderRows ==
    [client: Clients, name: Names, enabled: BOOLEAN, secret: Secrets]

\* The markers are not rows.
ASSUME RegistryAssumption ==
    /\ NoRow \notin ClientRows
    /\ NoRow \notin ProviderRows /\ Deleted \notin ProviderRows /\ NoRow # Deleted

AdminIdle == [pc |-> "idle"]

\* raced is a history field: another request wrote the provider since old was
\* read.
AdminStates ==
    {AdminIdle}
    \cup [pc: {"regenWrite", "deleteClient"}, c: Clients]
    \cup [pc: {"respond"}, c: Clients, s: Hashes]
    \cup [pc: {"updWrite"}, p: ProviderIds, c: Clients, old: Secrets,
          new: Secrets \cup {None}, enabled: BOOLEAN, raced: BOOLEAN]
    \cup [pc: {"deleteProvider"}, p: ProviderIds, c: Clients]

RegTypeOK ==
    /\ clients \in [Clients -> ClientRows \cup {NoRow}]
    /\ providers \in [ProviderIds -> ProviderRows \cup {NoRow, Deleted}]
    /\ admin \in [Admins -> AdminStates]
    /\ shown \in [Clients -> SUBSET Hashes]
    /\ lost \subseteq Hashes

RegInit ==
    /\ clients = [c \in Clients |-> NoRow]
    /\ providers = [p \in ProviderIds |-> NoRow]
    /\ admin = [a \in Admins |-> AdminIdle]
    /\ shown = [c \in Clients |-> {}]
    /\ lost = {}

-----------------------------------------------------------------------------
(* Rows and lookups.                                                       *)

Stored(p) == providers[p] \notin {NoRow, Deleted}

\* GetOAuthProviderByClientAndName: the rows it selects, at most one by the
\* unique index on (client_id, name).
ProvidersNamed(c, n) ==
    {p \in ProviderIds : Stored(p) /\ providers[p].client = c
                                   /\ providers[p].name = n}

\* GetClient selects the row, active or not.
Active(c) == clients[c] # NoRow /\ clients[c].active

\* The statements on clients and on oauth_providers.
InsertClient(c, row) ==
    /\ clients[c] = NoRow
    /\ clients' = [clients EXCEPT ![c] = row]

\* Neither the secret nor is_active is among the columns.
UpdateClientRow(c, us) ==
    /\ clients[c] # NoRow
    /\ clients' = [clients EXCEPT ![c].uris = us]

RegenerateClientSecret(c, s) == clients' = [clients EXCEPT ![c].hash = s]

\* A soft delete.
DeleteClientRow(c) == clients' = [clients EXCEPT ![c].active = FALSE]

\* Refused by the foreign key on clients and by the unique index.
CreateOAuthProvider(p, row) ==
    /\ providers[p] = NoRow
    /\ clients[row.client] # NoRow
    /\ ProvidersNamed(row.client, row.name) = {}
    /\ providers' = [providers EXCEPT ![p] = row]

UpdateOAuthProvider(p, on, s) ==
    providers' = [providers EXCEPT ![p].enabled = on, ![p].secret = s]

\* Without effect when the row is gone.
DeleteOAuthProvider(p) == providers' = [providers EXCEPT ![p] = Deleted]

\* What the validation of a client's redirect URIs lets pass: one or more.
ValidUris == SUBSET Uris \ {{}}

\* util.GenerateSecureToken: a secret nobody has seen.
FreshHashes ==
    Hashes \ (UNION {shown[c] : c \in Clients} \cup lost
              \cup {admin[a].s : a \in {b \in Admins : admin[b].pc = "respond"}})

Becomes(a, st) == admin' = [admin EXCEPT ![a] = st]

\* A write of provider p by request a overtakes the updates that have read it.
Overtake(a, p, st) ==
    admin' = [b \in Admins |->
                IF b = a THEN st
                ELSE IF admin[b].pc = "updWrite" /\ admin[b].p = p
                     THEN [admin[b] EXCEPT !.raced = TRUE]
                     ELSE admin[b]]

-----------------------------------------------------------------------------
(* Clients.                                                                *)

\* The INSERT of a new secret's hash.
CreateClient(a) ==
    /\ admin[a].pc = "idle"
    /\ \E c \in Clients, on \in BOOLEAN, us \in ValidUris, s \in FreshHashes :
         /\ InsertClient(c, [active |-> on, uris |-> us, hash |-> s])
         /\ Becomes(a, [pc |-> "respond", c |-> c, s |-> s])
    /\ UNCHANGED <<providers, shown, lost>>

UpdateClient(a) ==
    /\ admin[a].pc = "idle"
    /\ \E c \in Clients, us \in ValidUris : UpdateClientRow(c, us)
    /\ UNCHANGED <<providers, admin, shown, lost>>

\* RegenerateSecret and DeleteClient first make sure that the row exists.
GetClient(a) ==
    /\ admin[a].pc = "idle"
    /\ \E c \in Clients, k \in {"regenWrite", "deleteClient"} :
         /\ clients[c] # NoRow
         /\ Becomes(a, [pc |-> k, c |-> c])
    /\ UNCHANGED <<clients, providers, shown, lost>>

RegenerateSecret(a) ==
    /\ admin[a].pc = "regenWrite"
    /\ \E s \in FreshHashes :
         /\ RegenerateClientSecret(admin[a].c, s)
         /\ Becomes(a, [pc |-> "respond", c |-> admin[a].c, s |-> s])
    /\ UNCHANGED <<providers, shown, lost>>

\* Mutant: an audit event that cannot be written fails the request.
ReturnSecretAudited(a) ==
    /\ admin[a].pc = "respond"
    /\ \E logged \in BOOLEAN :
         shown' = IF logged
                  THEN [shown EXCEPT ![admin[a].c] = @ \cup {admin[a].s}]
                  ELSE shown
    /\ Becomes(a, AdminIdle)
    /\ UNCHANGED <<clients, providers, lost>>

\* The error of a regeneration's audit event is discarded; the answer of either
\* request shows the secret, this once.
ReturnSecret(a) ==
    /\ admin[a].pc = "respond"
    /\ shown' = [shown EXCEPT ![admin[a].c] = @ \cup {admin[a].s}]
    /\ Becomes(a, AdminIdle)
    /\ UNCHANGED <<clients, providers, lost>>

DeleteClient(a) ==
    /\ admin[a].pc = "deleteClient"
    /\ DeleteClientRow(admin[a].c)
    /\ Becomes(a, AdminIdle)
    /\ UNCHANGED <<providers, shown, lost>>

-----------------------------------------------------------------------------
(* Providers.  The path names a client and a provider, and the provider    *)
(* has to be that client's.                                                *)

CreateProvider(a) ==
    /\ admin[a].pc = "idle"
    /\ \E p \in ProviderIds, c \in Clients, n \in Names, on \in BOOLEAN,
          s \in Secrets :
         CreateOAuthProvider(p,
             [client |-> c, name |-> n, enabled |-> on, secret |-> s])
    /\ UNCHANGED <<clients, admin, shown, lost>>

\* Mutant: the provider only has to exist.
OwnsAny(c, p) == Stored(p)

\* ErrProviderNotFound and ErrProviderClientMismatch end the request.
Owns(c, p) == Stored(p) /\ providers[p].client = c

\* UpdateProvider reads the row for the ownership check and for its secret.
UpdateProviderRead(a) ==
    /\ admin[a].pc = "idle"
    /\ \E p \in ProviderIds, c \in Clients, new \in Secrets \cup {None},
          on \in BOOLEAN :
         /\ Owns(c, p)
         /\ Becomes(a, [pc |-> "updWrite", p |-> p, c |-> c,
                        old |-> providers[p].secret, new |-> new,
                        enabled |-> on, raced |-> FALSE])
    /\ UNCHANGED <<clients, providers, shown, lost>>

\* Mutant: an empty secret in the request is stored as the provider's first.
SecretToStoreEmpty(r) ==
    IF r.new = None THEN CHOOSE s \in Secrets : TRUE ELSE r.new

\* The secret an update stores: an empty one in the request keeps what was read.
SecretToStore(r) == IF r.new = None THEN r.old ELSE r.new

\* Mutant: the UPDATE as an INSERT ... ON CONFLICT DO UPDATE.
UpdateProviderUpsert(a) ==
    /\ admin[a].pc = "updWrite"
    /\ LET r == admin[a]  p == admin[a].p
       IN  /\ providers' = [providers EXCEPT ![p] =
                 [client |-> r.c, name |-> CHOOSE n \in Names : TRUE,
                  enabled |-> r.enabled, secret |-> SecretToStore(r)]]
           /\ Overtake(a, p, AdminIdle)
    /\ UNCHANGED <<clients, shown, lost>>

\* The UPDATE by id; it finds no row, and the request fails, once the provider
\* is deleted.
UpdateProviderWrite(a) ==
    /\ admin[a].pc = "updWrite"
    /\ LET r == admin[a]  p == admin[a].p
       IN  \/ /\ Stored(p)
              /\ UpdateOAuthProvider(p, r.enabled, SecretToStore(r))
              /\ Overtake(a, p, AdminIdle)
           \/ /\ ~Stored(p)
              /\ Becomes(a, AdminIdle)
              /\ UNCHANGED providers
    /\ UNCHANGED <<clients, shown, lost>>

\* DeleteProvider's ownership check.
ValidateOwnership(a) ==
    /\ admin[a].pc = "idle"
    /\ \E p \in ProviderIds, c \in Clients :
         /\ Owns(c, p)
         /\ Becomes(a, [pc |-> "deleteProvider", p |-> p, c |-> c])
    /\ UNCHANGED <<clients, providers, shown, lost>>

DeleteProvider(a) ==
    /\ admin[a].pc = "deleteProvider"
    /\ DeleteOAuthProvider(admin[a].p)
    /\ Overtake(a, admin[a].p, AdminIdle)
    /\ UNCHANGED <<clients, shown, lost>>

\* A statement fails and the request ends with an error, or its answer never
\* arrives.
AdminFail(a) ==
    /\ admin[a].pc # "idle"
    /\ lost' = IF admin[a].pc = "respond" THEN lost \cup {admin[a].s} ELSE lost
    /\ Becomes(a, AdminIdle)
    /\ UNCHANGED <<clients, providers, shown>>

\* The routes under /clients and under /clients/:id/providers.
ClientStep(a) ==
    \/ CreateClient(a) \/ UpdateClient(a) \/ GetClient(a)
    \/ RegenerateSecret(a) \/ ReturnSecret(a) \/ DeleteClient(a)

ProviderStep(a) ==
    \/ CreateProvider(a) \/ UpdateProviderRead(a) \/ UpdateProviderWrite(a)
    \/ ValidateOwnership(a) \/ DeleteProvider(a)

RegStep(a) == ClientStep(a) \/ ProviderStep(a) \/ AdminFail(a)

RegNext == \E a \in Admins : RegStep(a)

-----------------------------------------------------------------------------
(* Properties.                                                             *)

\* A client is locked out only by an answer that was lost: the secret in force has
\* been returned to the administrator whose request made it, is about to be, or
\* belongs to a request that ended between its statement and its answer.
\* Concurrent regenerations, failed statements and audit events that cannot be
\* written never put a secret in force that nobody is shown.
SecretReachable ==
    \A c \in Clients :
        clients[c] # NoRow =>
            clients[c].hash \in shown[c] \cup lost \cup
                {admin[a].s : a \in {b \in Admins :
                    admin[b].pc = "respond" /\ admin[b].c = c}}

\* An update without a secret that no other write of the provider overtakes
\* leaves the stored secret as it is.
RetainsUnlessOvertaken ==
    [][\A a \in Admins :
          /\ admin[a].pc = "updWrite" /\ admin[a].new = None
          /\ ~admin[a].raced
          /\ admin'[a].pc = "idle"
          => providers'[admin[a].p].secret = providers[admin[a].p].secret]_regVars

\* A provider keeps its client and its name, and a deleted one stays deleted,
\* even when an update that read the row before the deletion writes after it.
ProviderIdentityFixed ==
    [][\A p \in ProviderIds :
          /\ Stored(p) =>
               \/ providers'[p] = Deleted
               \/ /\ providers'[p].client = providers[p].client
                  /\ providers'[p].name = providers[p].name
          /\ providers[p] = Deleted => providers'[p] = Deleted]_regVars

\* A stored provider is changed or deleted only by the end of a request whose
\* path named the provider's client, although the check and the write are two
\* statements.
OwnersOnly ==
    [][\A p \in ProviderIds :
          Stored(p) /\ providers'[p] # providers[p] =>
              \E a \in Admins :
                  /\ admin[a].pc \in {"updWrite", "deleteProvider"}
                  /\ admin[a].p = p /\ admin[a].c = providers[p].client
                  /\ admin'[a].pc = "idle"]_regVars
=============================================================================
