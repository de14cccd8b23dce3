------------------------ MODULE ProviderLoginProofs ------------------------
(***************************************************************************)
(* The registry of clients and providers and the logins through it, for    *)
(* any number of administrators, tabs, clients, providers and users.       *)
(*                                                                         *)
(* A request that has checked something and writes in a later statement    *)
(* relies on what nobody else can undo: a client's row is never removed,   *)
(* a provider keeps its client and its name, a state parameter is never    *)
(* used twice, and a user's row never changes.                             *)
(***************************************************************************)
EXTENDS ProviderLogin, TLAPS

\* Zenon proves the leaves that cite no other prover.
USE Zenon

---------------------------------------------------------------------------
(* The registry                                                            *)

\* What a request knows of the rows that it has read.
AdminSafe(a) ==
    /\ admin[a].pc \in {"regenWrite", "deleteClient"} => clients[admin[a].c] # NoRow
    /\ admin[a].pc \in {"updWrite", "deleteProvider"} =>
          \/ providers[admin[a].p] = Deleted
          \/ Stored(admin[a].p) /\ providers[admin[a].p].client = admin[a].c
    /\ admin[a].pc = "updWrite" /\ ~admin[a].raced =>
          Stored(admin[a].p) /\ providers[admin[a].p].secret = admin[a].old

RegInv == RegTypeOK /\ SecretReachable /\ \A a \in Admins : AdminSafe(a)

\* The secrets whose requests have ended.
Ended(c) == shown[c] \cup lost

\* What a step does to the rows: a client stays, a provider keeps its identity, and
\* a deleted one stays deleted.
RowsStep ==
    /\ \A c \in Clients : clients[c] # NoRow => clients'[c] # NoRow
    /\ \A p \in ProviderIds :
          /\ Stored(p) => \/ providers'[p] = Deleted
                          \/ /\ Stored(p)'
                             /\ providers'[p].client = providers[p].client
                             /\ providers'[p].name = providers[p].name
          /\ providers[p] = Deleted => providers'[p] = Deleted

\* What a step of request a does to request b: it does not move, and an update of
\* a provider that is written meanwhile is marked.
Passed(a, b) ==
    /\ \/ admin'[b] = admin[b]
       \/ admin[b].pc = "updWrite" /\ admin'[b] = [admin[b] EXCEPT !.raced = TRUE]
    /\ admin[b].pc = "updWrite" /\ Stored(admin[b].p) =>
          \/ admin'[b].raced
          \/ providers'[admin[b].p] = providers[admin[b].p]

\* Where a request is says which fields it has.
LEMMA AdminShape ==
    ASSUME RegTypeOK, NEW a \in Admins
    PROVE  /\ admin[a].pc \in {"regenWrite", "deleteClient"} => admin[a].c \in Clients
           /\ admin[a].pc = "respond" => admin[a].c \in Clients /\ admin[a].s \in Hashes
           /\ admin[a].pc = "updWrite" =>
                 admin[a] \in [pc: {"updWrite"}, p: ProviderIds, c: Clients, old: Secrets,
                               new: Secrets \cup {None}, enabled: BOOLEAN, raced: BOOLEAN]
           /\ admin[a].pc = "deleteProvider" => admin[a].p \in ProviderIds /\ admin[a].c \in Clients
           /\ admin[a].pc \in {"idle", "regenWrite", "deleteClient", "respond", "updWrite",
                               "deleteProvider"}
  BY SMT DEF RegTypeOK, AdminStates, AdminIdle

\* A request that does not move still knows what it knew.
LEMMA AdminKept ==
    ASSUME RegTypeOK, RowsStep, NEW a \in Admins, NEW b \in Admins, AdminSafe(b), Passed(a, b)
    PROVE  AdminSafe(b)'
  <1>1. CASE admin[b].pc = "updWrite"
    <2>1. admin[b].p \in ProviderIds
      BY <1>1, AdminShape
    <2>2. /\ admin'[b].pc = "updWrite" /\ admin'[b].p = admin[b].p /\ admin'[b].c = admin[b].c
          /\ admin'[b].old = admin[b].old
          /\ ~admin'[b].raced => ~admin[b].raced
      BY <1>1, AdminShape DEF Passed
    <2>3. \/ providers'[admin[b].p] = Deleted
          \/ /\ providers'[admin[b].p] \notin {NoRow, Deleted}
             /\ providers'[admin[b].p].client = admin[b].c
      BY <1>1, <2>1 DEF AdminSafe, RowsStep, Stored
    <2>4. ~admin'[b].raced => /\ providers'[admin[b].p] \notin {NoRow, Deleted}
                              /\ providers'[admin[b].p].secret = admin[b].old
      BY <1>1, <2>1, <2>2 DEF AdminSafe, Passed, Stored
    <2> QED BY <2>2, <2>3, <2>4 DEF AdminSafe, Stored
  <1>2. CASE admin[b].pc # "updWrite"
    <2>1. admin'[b] = admin[b]
      BY <1>2 DEF Passed
    <2> QED BY <1>2, <2>1, AdminShape, SMT DEF AdminSafe, RowsStep, Stored
  <1> QED BY <1>1, <1>2

\* The secret in force stays reachable while request a moves, if a does not lose the
\* secret that it is about to return.
LEMMA SecretsKept ==
    ASSUME RegTypeOK, RegTypeOK', SecretReachable, NEW a \in Admins,
           \A b \in Admins \ {a} : Passed(a, b),
           \A c \in Clients : Ended(c) \subseteq Ended(c)',
           admin[a].pc = "respond" => admin[a].s \in shown'[admin[a].c] \cup lost',
           \A c \in Clients :
              /\ clients'[c] # NoRow
              /\ ~(clients[c] # NoRow /\ clients'[c].hash = clients[c].hash)
              => \/ clients'[c].hash \in Ended(c)'
                 \/ admin'[a].pc = "respond" /\ admin'[a].c = c
                    /\ admin'[a].s = clients'[c].hash
    PROVE  SecretReachable'
  <1> SUFFICES ASSUME NEW c \in Clients, clients'[c] # NoRow
               PROVE  \/ clients'[c].hash \in Ended(c)'
                      \/ \E b \in Admins : /\ admin'[b].pc = "respond"
                                           /\ admin'[b].c = c /\ admin'[b].s = clients'[c].hash
    BY SMT DEF SecretReachable, Ended
  <1>1. CASE clients[c] # NoRow /\ clients'[c].hash = clients[c].hash
    <2>1. CASE clients[c].hash \in Ended(c)
      BY <1>1, <2>1
    <2>2. CASE \E b \in Admins : /\ admin[b].pc = "respond" /\ admin[b].c = c
                                 /\ admin[b].s = clients[c].hash
      <3>1. PICK b \in Admins : /\ admin[b].pc = "respond" /\ admin[b].c = c
                                /\ admin[b].s = clients[c].hash
        BY <2>2
      <3>2. b # a => admin'[b] = admin[b]
        BY <3>1 DEF Passed
      <3> QED BY <1>1, <3>1, <3>2, ZenonT(30) DEF Ended
    <2> QED BY <1>1, <2>1, <2>2, ZenonT(30) DEF SecretReachable, Ended
  <1>2. CASE ~(clients[c] # NoRow /\ clients'[c].hash = clients[c].hash)
    BY <1>2
  <1> QED BY <1>1, <1>2

\* What is left to show of a step of request a.
LEMMA RegMove ==
    ASSUME RegInv, RegTypeOK', NEW a \in Admins, RowsStep, AdminSafe(a)',
           \A b \in Admins \ {a} : Passed(a, b),
           \A c \in Clients : Ended(c) \subseteq Ended(c)',
           admin[a].pc = "respond" => admin[a].s \in shown'[admin[a].c] \cup lost',
           \A c \in Clients :
              /\ clients'[c] # NoRow
              /\ ~(clients[c] # NoRow /\ clients'[c].hash = clients[c].hash)
              => \/ clients'[c].hash \in Ended(c)'
                 \/ admin'[a].pc = "respond" /\ admin'[a].c = c
                    /\ admin'[a].s = clients'[c].hash
    PROVE  RegInv'
  <1>1. SecretReachable'
    BY SecretsKept DEF RegInv
  <1>2. \A b \in Admins \ {a} : AdminSafe(b)'
    BY AdminKept DEF RegInv
  <1> QED BY <1>1, <1>2 DEF RegInv

\* A request that reads, or ends, without a write.
LEMMA RegRead ==
    ASSUME RegInv, NEW a \in Admins, NEW st \in AdminStates, Becomes(a, st),
           UNCHANGED <<clients, providers, shown, lost>>, admin[a].pc # "respond", AdminSafe(a)'
    PROVE  RegInv' /\ RowsStep
  <1>1. RegTypeOK'
    BY DEF RegInv, RegTypeOK, Becomes
  <1>2. RowsStep
    BY DEF RowsStep, Stored
  <1>3. \A b \in Admins \ {a} : Passed(a, b)
    BY DEF Passed, Becomes, RegInv, RegTypeOK
  <1> QED BY <1>1, <1>2, <1>3, RegMove DEF Ended

\* Every step of an administrator's request keeps RegInv and does to the rows what
\* RowsStep allows.
LEMMA RegStepInv ==
    ASSUME RegInv, NEW a \in Admins, RegStep(a)
    PROVE  RegInv' /\ RowsStep
  <1> DEFINE Goal == RegInv' /\ RowsStep
  <1> USE DEF RegInv
  <1>1. ASSUME CreateClient(a)
        PROVE  Goal
    <2>1. PICK c \in Clients, on \in BOOLEAN, us \in ValidUris, s \in FreshHashes :
             /\ InsertClient(c, [active |-> on, uris |-> us, hash |-> s])
             /\ Becomes(a, [pc |-> "respond", c |-> c, s |-> s])
      BY <1>1 DEF CreateClient
    <2> DEFINE new == [active |-> on, uris |-> us, hash |-> s]
    <2>2. new \in ClientRows /\ new.hash = s /\ s \in Hashes
      BY DEF ClientRows, ValidUris, FreshHashes
    <2>3. /\ clients[c] = NoRow /\ clients' = [clients EXCEPT ![c] = new]
          /\ admin[a].pc = "idle" /\ UNCHANGED <<providers, shown, lost>>
      BY <1>1, <2>1 DEF CreateClient, InsertClient
    <2>4. [pc |-> "respond", c |-> c, s |-> s] \in AdminStates
      BY <2>2 DEF AdminStates
    <2>5. /\ admin'[a].pc = "respond" /\ admin'[a].c = c /\ admin'[a].s = s
          /\ \A b \in Admins \ {a} : admin'[b] = admin[b]
      BY <2>1 DEF Becomes, RegTypeOK
    <2> HIDE DEF new
    <2>6. RegTypeOK'
      BY <2>1, <2>2, <2>3, <2>4 DEF RegTypeOK, Becomes
    <2>7. RowsStep
      BY <2>3 DEF RowsStep, Stored, RegTypeOK
    <2>8. \A b \in Admins \ {a} : Passed(a, b)
      BY <2>3, <2>5 DEF Passed
    <2>9. AdminSafe(a)'
      BY <2>5 DEF AdminSafe
    <2>10. \A d \in Clients :
              \/ clients'[d] = clients[d]
              \/ d = c /\ clients'[d].hash = s
      BY <2>2, <2>3 DEF RegTypeOK
    <2> QED BY <2>3, <2>5, <2>6, <2>7, <2>8, <2>9, <2>10, RegMove DEF Ended
  <1>2. ASSUME UpdateClient(a)
        PROVE  Goal
    <2>1. PICK c \in Clients, us \in ValidUris : UpdateClientRow(c, us)
      BY <1>2 DEF UpdateClient
    <2>2. clients[c] \in ClientRows /\ us \in SUBSET Uris
      BY <2>1 DEF RegTypeOK, UpdateClientRow, ValidUris
    <2>3. /\ clients'[c] \in ClientRows /\ clients'[c].hash = clients[c].hash
          /\ \A d \in Clients \ {c} : clients'[d] = clients[d]
          /\ clients' \in [Clients -> ClientRows \cup {NoRow}]
      BY <2>1, <2>2 DEF UpdateClientRow, RegTypeOK, ClientRows
    <2>4. admin[a].pc = "idle" /\ UNCHANGED <<providers, admin, shown, lost>>
      BY <1>2 DEF UpdateClient
    <2>5. RegTypeOK'
      BY <2>3, <2>4 DEF RegTypeOK
    <2>6. RowsStep
      BY <2>3, <2>4, RegistryAssumption DEF RowsStep, Stored
    <2>7. \A b \in Admins \ {a} : Passed(a, b)
      BY <2>4 DEF Passed
    <2>8. AdminSafe(a)'
      BY <2>4 DEF AdminSafe
    <2>9. \A d \in Clients : clients'[d] # NoRow =>
             clients[d] # NoRow /\ clients'[d].hash = clients[d].hash
      BY <2>1, <2>3 DEF UpdateClientRow
    <2> QED BY <2>4, <2>5, <2>6, <2>7, <2>8, <2>9, RegMove DEF Ended
  <1>3. ASSUME GetClient(a)
        PROVE  Goal
    <2>1. PICK c \in Clients, k \in {"regenWrite", "deleteClient"} :
             clients[c] # NoRow /\ Becomes(a, [pc |-> k, c |-> c])
      BY <1>3 DEF GetClient
    <2>2. [pc |-> k, c |-> c] \in AdminStates
      BY DEF AdminStates
    <2>3. admin'[a] = [pc |-> k, c |-> c] /\ UNCHANGED <<clients, providers, shown, lost>>
      BY <1>3, <2>1 DEF Becomes, RegTypeOK, GetClient
    <2>4. AdminSafe(a)'
      BY <2>1, <2>3, SMT DEF AdminSafe
    <2>5. admin[a].pc = "idle"
      BY <1>3 DEF GetClient
    <2> QED BY <2>1, <2>2, <2>3, <2>4, <2>5, RegRead
  <1>4. ASSUME RegenerateSecret(a)
        PROVE  Goal
    <2>1. PICK s \in FreshHashes :
             /\ RegenerateClientSecret(admin[a].c, s)
             /\ Becomes(a, [pc |-> "respond", c |-> admin[a].c, s |-> s])
      BY <1>4 DEF RegenerateSecret
    <2> DEFINE c == admin[a].c
    <2>2. c \in Clients /\ s \in Hashes /\ admin[a].pc = "regenWrite"
      BY <1>4, AdminShape DEF RegenerateSecret, FreshHashes
    <2>3. clients[c] \in ClientRows
      BY <2>2 DEF RegTypeOK, AdminSafe
    <2>4. /\ clients'[c] \in ClientRows /\ clients'[c].hash = s
          /\ \A d \in Clients \ {c} : clients'[d] = clients[d]
          /\ clients' \in [Clients -> ClientRows \cup {NoRow}]
      BY <2>1, <2>2, <2>3 DEF RegenerateClientSecret, RegTypeOK, ClientRows
    <2>5. UNCHANGED <<providers, shown, lost>>
      BY <1>4 DEF RegenerateSecret
    <2>6. [pc |-> "respond", c |-> c, s |-> s] \in AdminStates
      BY <2>2 DEF AdminStates
    <2>7. /\ admin'[a].pc = "respond" /\ admin'[a].c = c /\ admin'[a].s = s
          /\ \A b \in Admins \ {a} : admin'[b] = admin[b]
      BY <2>1 DEF Becomes, RegTypeOK
    <2>8. RegTypeOK'
      BY <2>1, <2>4, <2>5, <2>6 DEF RegTypeOK, Becomes
    <2> HIDE DEF c
    <2>9. RowsStep
      BY <2>2, <2>4, <2>5, RegistryAssumption DEF RowsStep, Stored
    <2>10. \A b \in Admins \ {a} : Passed(a, b)
      BY <2>5, <2>7 DEF Passed
    <2>11. AdminSafe(a)'
      BY <2>7 DEF AdminSafe
    <2> QED BY <2>2, <2>4, <2>5, <2>7, <2>8, <2>9, <2>10, <2>11, RegMove DEF Ended
  <1>5. ASSUME ReturnSecret(a)
        PROVE  Goal
    <2>1. admin[a].pc = "respond" /\ admin[a].c \in Clients /\ admin[a].s \in Hashes
      BY <1>5, AdminShape DEF ReturnSecret
    <2>2. /\ shown' = [shown EXCEPT ![admin[a].c] = @ \cup {admin[a].s}]
          /\ admin' = [admin EXCEPT ![a] = AdminIdle] /\ UNCHANGED <<clients, providers, lost>>
      BY <1>5 DEF ReturnSecret, Becomes
    <2>3. RegTypeOK'
      BY <2>1, <2>2 DEF RegTypeOK, AdminStates
    <2>4. RowsStep
      BY <2>2 DEF RowsStep, Stored
    <2>5. \A b \in Admins \ {a} : Passed(a, b)
      BY <2>2 DEF Passed, RegTypeOK
    <2>6. AdminSafe(a)'
      BY <2>2 DEF AdminSafe, AdminIdle, RegTypeOK
    <2>7. \A d \in Clients : shown[d] \subseteq shown'[d]
      BY <2>2 DEF RegTypeOK
    <2>8. admin[a].s \in shown'[admin[a].c]
      BY <2>1, <2>2 DEF RegTypeOK
    <2> QED BY <2>2, <2>3, <2>4, <2>5, <2>6, <2>7, <2>8, RegMove DEF Ended
  <1>6. ASSUME DeleteClient(a)
        PROVE  Goal
    <2> DEFINE c == admin[a].c
    <2>1. c \in Clients /\ admin[a].pc = "deleteClient"
      BY <1>6, AdminShape DEF DeleteClient
    <2>2. clients[c] \in ClientRows
      BY <2>1 DEF RegTypeOK, AdminSafe
    <2>3. /\ clients'[c] \in ClientRows /\ clients'[c].hash = clients[c].hash
          /\ \A d \in Clients \ {c} : clients'[d] = clients[d]
          /\ clients' \in [Clients -> ClientRows \cup {NoRow}]
      BY <1>6, <2>1, <2>2 DEF DeleteClient, DeleteClientRow, RegTypeOK, ClientRows
    <2>4. admin' = [admin EXCEPT ![a] = AdminIdle] /\ UNCHANGED <<providers, shown, lost>>
      BY <1>6 DEF DeleteClient, Becomes
    <2> HIDE DEF c
    <2>5. RegTypeOK'
      BY <2>3, <2>4 DEF RegTypeOK, AdminStates
    <2>6. RowsStep
      BY <2>1, <2>3, <2>4, RegistryAssumption DEF RowsStep, Stored
    <2>7. \A b \in Admins \ {a} : Passed(a, b)
      BY <2>4 DEF Passed, RegTypeOK
    <2>8. AdminSafe(a)'
      BY <2>4 DEF AdminSafe, AdminIdle, RegTypeOK
    <2>9. clients[c] # NoRow
      BY <2>2, RegistryAssumption
    <2> QED BY <2>1, <2>3, <2>4, <2>5, <2>6, <2>7, <2>8, <2>9, RegMove DEF Ended
  <1>7. ASSUME CreateProvider(a)
        PROVE  Goal
    <2>1. PICK p \in ProviderIds, row \in ProviderRows : CreateOAuthProvider(p, row)
      BY <1>7 DEF CreateProvider, ProviderRows
    <2>2. admin[a].pc = "idle" /\ UNCHANGED <<clients, admin, shown, lost>>
      BY <1>7 DEF CreateProvider
    <2>3. providers[p] = NoRow /\ providers' = [providers EXCEPT ![p] = row]
      BY <2>1 DEF CreateOAuthProvider
    <2>4. RegTypeOK'
      BY <2>2, <2>3 DEF RegTypeOK
    <2>5. RowsStep
      BY <2>2, <2>3, RegistryAssumption DEF RowsStep, Stored, RegTypeOK
    <2>6. \A b \in Admins \ {a} : Passed(a, b)
      BY <2>2, <2>3, SMT DEF Passed, Stored, RegTypeOK
    <2>7. AdminSafe(a)'
      BY <2>2 DEF AdminSafe
    <2> QED BY <2>2, <2>4, <2>5, <2>6, <2>7, RegMove DEF Ended
  <1>8. ASSUME UpdateProviderRead(a)
        PROVE  Goal
    <2>1. PICK p \in ProviderIds, c \in Clients, new \in Secrets \cup {None}, on \in BOOLEAN :
             /\ Owns(c, p)
             /\ Becomes(a, [pc |-> "updWrite", p |-> p, c |-> c, old |-> providers[p].secret,
                            new |-> new, enabled |-> on, raced |-> FALSE])
      BY <1>8 DEF UpdateProviderRead
    <2> DEFINE st == [pc |-> "updWrite", p |-> p, c |-> c, old |-> providers[p].secret,
                      new |-> new, enabled |-> on, raced |-> FALSE]
    <2>2. providers[p] \in ProviderRows
      BY <2>1 DEF Owns, Stored, RegTypeOK
    <2>3. st \in AdminStates
      BY <2>2 DEF AdminStates, ProviderRows
    <2>4. admin'[a] = st /\ UNCHANGED <<clients, providers, shown, lost>> /\ admin[a].pc = "idle"
      BY <1>8, <2>1 DEF Becomes, RegTypeOK, UpdateProviderRead
    <2>5. AdminSafe(a)'
      BY <2>1, <2>4, SMT DEF AdminSafe, Owns, Stored
    <2> QED BY <2>1, <2>3, <2>4, <2>5, RegRead
  <1>9. ASSUME ValidateOwnership(a)
        PROVE  Goal
    <2>1. PICK p \in ProviderIds, c \in Clients :
             Owns(c, p) /\ Becomes(a, [pc |-> "deleteProvider", p |-> p, c |-> c])
      BY <1>9 DEF ValidateOwnership
    <2>2. [pc |-> "deleteProvider", p |-> p, c |-> c] \in AdminStates
      BY DEF AdminStates
    <2>3. /\ admin'[a] = [pc |-> "deleteProvider", p |-> p, c |-> c]
          /\ UNCHANGED <<clients, providers, shown, lost>> /\ admin[a].pc = "idle"
      BY <1>9, <2>1 DEF Becomes, RegTypeOK, ValidateOwnership
    <2>4. AdminSafe(a)'
      BY <2>1, <2>3, SMT DEF AdminSafe, Owns, Stored
    <2> QED BY <2>1, <2>2, <2>3, <2>4, RegRead
  <1>10. ASSUME NEW p \in ProviderIds, NEW row \in ProviderRows \cup {Deleted},
                providers[p] # NoRow,
                Stored(p) => row = Deleted \/ (row.client = providers[p].client
                                               /\ row.name = providers[p].name),
                ~Stored(p) => row = Deleted,
                admin[a].pc \in {"updWrite", "deleteProvider"},
                providers' = [providers EXCEPT ![p] = row], Overtake(a, p, AdminIdle),
                UNCHANGED <<clients, shown, lost>>
         PROVE  Goal
    <2>1. /\ admin' \in [Admins -> AdminStates] /\ admin'[a] = AdminIdle
          /\ \A b \in Admins \ {a} :
                admin'[b] = IF admin[b].pc = "updWrite" /\ admin[b].p = p
                            THEN [admin[b] EXCEPT !.raced = TRUE] ELSE admin[b]
      <3>1. ASSUME NEW b \in Admins, admin[b].pc = "updWrite"
            PROVE  [admin[b] EXCEPT !.raced = TRUE] \in AdminStates
        BY <3>1, AdminShape, ZenonT(30) DEF AdminStates
      <3> QED BY <1>10, <3>1 DEF Overtake, RegTypeOK, AdminStates
    <2>2. RegTypeOK'
      BY <1>10, <2>1 DEF RegTypeOK
    <2>3. RowsStep
      BY <1>10, RegistryAssumption DEF RowsStep, Stored, RegTypeOK
    <2>4. \A b \in Admins \ {a} : Passed(a, b)
      <3> SUFFICES ASSUME NEW b \in Admins \ {a}
                   PROVE  Passed(a, b)
        OBVIOUS
      <3>1. CASE admin[b].pc = "updWrite" /\ admin[b].p = p
        <4>1. admin'[b] = [admin[b] EXCEPT !.raced = TRUE] /\ admin'[b].raced
          BY <2>1, <3>1, AdminShape
        <4> QED BY <3>1, <4>1 DEF Passed
      <3>2. CASE ~(admin[b].pc = "updWrite" /\ admin[b].p = p)
        <4>1. admin'[b] = admin[b]
          BY <2>1, <3>2
        <4>2. admin[b].pc = "updWrite" =>
                 admin[b].p # p /\ providers'[admin[b].p] = providers[admin[b].p]
          BY <1>10, <3>2, AdminShape DEF RegTypeOK
        <4> QED BY <4>1, <4>2 DEF Passed
      <3> QED BY <3>1, <3>2
    <2>5. AdminSafe(a)'
      BY <2>1, SMT DEF AdminSafe, AdminIdle
    <2> QED BY <1>10, <2>2, <2>3, <2>4, <2>5, RegMove DEF Ended
  <1>11. ASSUME UpdateProviderWrite(a)
         PROVE  Goal
    <2>1. /\ admin[a].pc = "updWrite" /\ admin[a].p \in ProviderIds
          /\ admin[a].enabled \in BOOLEAN /\ SecretToStore(admin[a]) \in Secrets
      BY <1>11, AdminShape DEF UpdateProviderWrite, SecretToStore
    <2>2. CASE Stored(admin[a].p)
      <3> DEFINE p == admin[a].p
                 row == [providers[p] EXCEPT !.enabled = admin[a].enabled,
                                             !.secret = SecretToStore(admin[a])]
      <3>1. providers[p] \in ProviderRows
        BY <2>1, <2>2 DEF Stored, RegTypeOK
      <3>2. row \in ProviderRows /\ row.client = providers[p].client /\ row.name = providers[p].name
        BY <2>1, <3>1 DEF ProviderRows
      <3>3. providers' = [providers EXCEPT ![p] = row]
        BY <1>11, <2>1, <2>2, <3>1 DEF UpdateProviderWrite, UpdateOAuthProvider, RegTypeOK, ProviderRows
      <3>4. Overtake(a, p, AdminIdle) /\ UNCHANGED <<clients, shown, lost>>
        BY <1>11, <2>2 DEF UpdateProviderWrite
      <3>5. providers[p] # NoRow
        BY <2>2 DEF Stored
      <3> HIDE DEF row, p
      <3> QED BY <1>10, <2>1, <2>2, <3>2, <3>3, <3>4, <3>5 DEF p
    <2>3. CASE ~Stored(admin[a].p)
      <3>1. Becomes(a, AdminIdle) /\ UNCHANGED <<clients, providers, shown, lost>>
        BY <1>11, <2>3 DEF UpdateProviderWrite
      <3>2. AdminIdle \in AdminStates /\ AdminSafe(a)'
        BY <3>1 DEF AdminStates, AdminSafe, AdminIdle, Becomes, RegTypeOK
      <3> QED BY <2>1, <3>1, <3>2, RegRead
    <2> QED BY <2>2, <2>3
  <1>12. ASSUME DeleteProvider(a)
         PROVE  Goal
    <2>1. admin[a].pc = "deleteProvider" /\ admin[a].p \in ProviderIds
      BY <1>12, AdminShape DEF DeleteProvider
    <2>2. providers[admin[a].p] # NoRow
      BY <2>1, RegistryAssumption DEF AdminSafe, Stored
    <2> QED BY <1>10, <1>12, <2>1, <2>2 DEF DeleteProvider, DeleteOAuthProvider
  <1>13. ASSUME AdminFail(a)
         PROVE  Goal
    <2>1. /\ admin' = [admin EXCEPT ![a] = AdminIdle] /\ UNCHANGED <<clients, providers, shown>>
          /\ lost' = IF admin[a].pc = "respond" THEN lost \cup {admin[a].s} ELSE lost
      BY <1>13 DEF AdminFail, Becomes
    <2>2. RegTypeOK'
      BY <2>1, AdminShape DEF RegTypeOK, AdminStates
    <2>3. RowsStep
      BY <2>1 DEF RowsStep, Stored
    <2>4. \A b \in Admins \ {a} : Passed(a, b)
      BY <2>1 DEF Passed, RegTypeOK
    <2>5. AdminSafe(a)'
      BY <2>1 DEF AdminSafe, AdminIdle, RegTypeOK
    <2> QED BY <2>1, <2>2, <2>3, <2>4, <2>5, RegMove DEF Ended
  <1> QED BY <1>1, <1>2, <1>3, <1>4, <1>5, <1>6, <1>7, <1>8, <1>9, <1>11, <1>12, <1>13
      DEF RegStep, ClientStep, ProviderStep

\* Who writes a provider's row: a request that checked the path's client, and an
\* update without a secret that was not overtaken writes back the stored one.
LEMMA RegWrites ==
    ASSUME RegInv, NEW a \in Admins, RegStep(a)
    PROVE  /\ \A b \in Admins :
                 /\ admin[b].pc = "updWrite" /\ admin[b].new = None
                 /\ ~admin[b].raced /\ admin'[b].pc = "idle"
                 => providers'[admin[b].p].secret = providers[admin[b].p].secret
           /\ \A p \in ProviderIds :
                 Stored(p) /\ providers'[p] # providers[p] =>
                    /\ admin[a].pc \in {"updWrite", "deleteProvider"}
                    /\ admin[a].p = p /\ admin[a].c = providers[p].client
                    /\ admin'[a].pc = "idle"
  <1> USE DEF RegInv
  <1>1. CASE UpdateProviderWrite(a) \/ DeleteProvider(a)
    <2> DEFINE p == admin[a].p
    <2>1. admin[a].pc \in {"updWrite", "deleteProvider"} /\ p \in ProviderIds
      BY <1>1, AdminShape DEF UpdateProviderWrite, DeleteProvider
    <2>2. admin'[a].pc = "idle"
      BY <1>1, SMT DEF UpdateProviderWrite, DeleteProvider, Overtake, Becomes, AdminIdle, RegTypeOK
    <2>3. \A b \in Admins \ {a} : admin[b].pc = "updWrite" => admin'[b].pc = "updWrite"
      BY <1>1, AdminShape, SMT DEF UpdateProviderWrite, DeleteProvider, Overtake, Becomes, RegTypeOK
    <2>4. \A q \in ProviderIds \ {p} : providers'[q] = providers[q]
      BY <1>1 DEF UpdateProviderWrite, DeleteProvider, UpdateOAuthProvider, DeleteOAuthProvider,
                  RegTypeOK
    <2>5. Stored(p) => admin[a].c = providers[p].client
      BY <2>1 DEF AdminSafe, Stored
    <2>6. ASSUME admin[a].pc = "updWrite", admin[a].new = None, ~admin[a].raced
          PROVE  providers'[p].secret = providers[p].secret
      <3>1. Stored(p) /\ providers[p] \in ProviderRows /\ providers[p].secret = admin[a].old
        BY <2>1, <2>6 DEF AdminSafe, Stored, RegTypeOK
      <3>2. UpdateOAuthProvider(p, admin[a].enabled, admin[a].old)
        BY <1>1, <2>6, <3>1 DEF UpdateProviderWrite, DeleteProvider, SecretToStore
      <3> QED BY <2>1, <3>1, <3>2 DEF UpdateOAuthProvider, RegTypeOK, ProviderRows
    <2> HIDE DEF p
    <2> QED BY <2>1, <2>2, <2>3, <2>4, <2>5, <2>6 DEF p
  <1>2. CASE CreateProvider(a)
    <2>1. PICK p \in ProviderIds, row \in ProviderRows : CreateOAuthProvider(p, row)
      BY <1>2 DEF CreateProvider, ProviderRows
    <2>2. UNCHANGED admin
      BY <1>2 DEF CreateProvider
    <2>3. providers[p] = NoRow /\ \A q \in ProviderIds \ {p} : providers'[q] = providers[q]
      BY <2>1 DEF CreateOAuthProvider, RegTypeOK
    <2> QED BY <2>2, <2>3 DEF Stored
  <1>3. CASE ~(UpdateProviderWrite(a) \/ DeleteProvider(a) \/ CreateProvider(a))
    <2>1. providers' = providers
      BY <1>3 DEF RegStep, ClientStep, ProviderStep, AdminFail, CreateClient, UpdateClient,
                  GetClient, RegenerateSecret, ReturnSecret, DeleteClient, UpdateProviderRead,
                  ValidateOwnership
    <2> QED BY <2>1
  <1> QED BY <1>1, <1>2, <1>3

\* Nothing is stored and no request is under way at the start.
LEMMA RegInitInv ==
    ASSUME RegInit
    PROVE  RegInv
  BY DEF RegInit, RegInv, RegTypeOK, SecretReachable, AdminSafe, AdminStates, AdminIdle

---------------------------------------------------------------------------
(* The logins                                                              *)

Outbound == {"redirect", "idp", "return"}

SessionOf(f) == [st |-> f.st, c |-> f.c, n |-> f.n, uri |-> f.uri]

\* What a login knows, by how far it is: where it goes was registered, its state is
\* its own, a cookie with its state is its session, its user is the account of who
\* signed in, and what was off all along has been looked at.
FlowSafe(f) ==
    /\ f.pc \in {"provider"} \cup Outbound \cup CallbackSteps => f.uri \in registered[f.c]
    /\ f.pc \in Outbound => /\ f.st \in used
                            /\ cookie # None /\ cookie.st = f.st => cookie = SessionOf(f)
    /\ f.pc = "return" => f.who \in People
    /\ f.pc \in {"idp", "return"} /\ f.lone => cookie = SessionOf(f)
    /\ f.pc \in CallbackSteps => f.to = f.uri /\ f.off \subseteq Off[f.c][f.n]
    /\ f.pc \in CallbackSteps \ {"cbClient"} => "client" \notin f.off
    /\ f.pc \in CallbackSteps \ {"cbClient", "cbProvider"} =>
          "provider" \notin f.off /\ f.p \in ProviderIds
    /\ f.pc \in {"touch", "insert"} => /\ f.user \in UserIds /\ users[f.user] # NoRow
                                       /\ users[f.user].name = f.n
                                       /\ users[f.user].sub = f.who.sub

\* No two logins under way have a state in common.
OwnStates ==
    \A s, t \in Tabs : /\ s # t
                       /\ flow[s].pc \in Outbound /\ flow[t].pc \in Outbound
                       => flow[s].st # flow[t].st

LoginSafe ==
    /\ \A t \in Tabs : FlowSafe(flow[t])
    /\ OwnStates
    /\ cookie # None => cookie.st \in used
    /\ \A c \in Clients : clients[c] # NoRow => clients[c].uris \subseteq registered[c]
    /\ CodeGoesWhereAsked
    /\ CodeForWhoSignedIn

LInv == RegInv /\ LoginTypeOK /\ LoginSafe

OutFlows == [pc: Outbound, c: Clients, n: Names, uri: Uris, st: States, lone: BOOLEAN,
             who: People \cup {None}]

CbFlows == [pc: CallbackSteps, c: Clients, n: Names, uri: Uris, to: Uris, who: People,
            p: ProviderIds \cup {None}, user: UserIds \cup {None},
            off: SUBSET {"client", "provider"}]

\* Where a login is says which fields it has.
LEMMA FlowShape ==
    ASSUME LoginTypeOK, NEW t \in Tabs
    PROVE  /\ flow[t] \in Flows
           /\ flow[t].pc = "provider" =>
                 flow[t].c \in Clients /\ flow[t].n \in Names /\ flow[t].uri \in Uris
           /\ flow[t].pc \in Outbound => flow[t] \in OutFlows
           /\ flow[t].pc \in CallbackSteps => flow[t] \in CbFlows
  BY SMT DEF LoginTypeOK, Flows, FlowIdle, CallbackSteps, Outbound, OutFlows, CbFlows

\* What is unusable depends on the rows alone.
LEMMA OffKept ==
    ASSUME UNCHANGED <<clients, providers>>
    PROVE  Off' = Off
  BY DEF Off, Active, EnabledProviders, ProvidersNamed, Stored

\* A login that does not move while others generate states and create users knows
\* what it knew.
LEMMA FlowStays ==
    ASSUME LoginTypeOK, NEW f \in Flows, FlowSafe(f),
           UNCHANGED <<clients, providers, cookie, registered>>, used \subseteq used',
           \A u \in UserIds : users[u] # NoRow => users'[u] = users[u]
    PROVE  FlowSafe(f)'
  <1>1. Off' = Off
    BY OffKept
  <1> QED BY <1>1 DEF FlowSafe

\* What is left to show of a step of tab t that leaves the cookie alone.
LEMMA LoginMove ==
    ASSUME LInv, NEW t \in Tabs, NEW f \in Flows, flow' = [flow EXCEPT ![t] = f],
           UNCHANGED <<regVars, cookie, registered>>,
           used \subseteq used', used' \subseteq States,
           users' \in [UserIds -> UserRows \cup {NoRow}],
           \A u \in UserIds : users[u] # NoRow => users'[u] = users[u],
           issued' \subseteq Issues,
           \A i \in issued' \ issued :
              /\ i.uri = i.wanted /\ i.uri \in registered[i.c]
              /\ users'[i.user] # NoRow /\ users'[i.user].name = i.n
              /\ users'[i.user].sub = i.who.sub,
           FlowSafe(f)',
           f.pc \in Outbound => \/ f.st \notin used
                                \/ flow[t].pc \in Outbound /\ flow[t].st = f.st
    PROVE  LInv'
  <1>1. RegInv'
    BY SMT DEF LInv, RegInv, RegTypeOK, SecretReachable, AdminSafe, Stored, regVars
  <1>2. LoginTypeOK'
    BY DEF LInv, LoginTypeOK
  <1>3. \A s \in Tabs : FlowSafe(flow[s])'
    <2> SUFFICES ASSUME NEW s \in Tabs
                 PROVE  FlowSafe(flow[s])'
      OBVIOUS
    <2>1. CASE s = t
      <3>1. flow'[s] = f
        BY <2>1 DEF LInv, LoginTypeOK
      <3> QED BY <3>1 DEF FlowSafe
    <2>2. CASE s # t
      <3>1. flow'[s] = flow[s] /\ flow[s] \in Flows /\ FlowSafe(flow[s])
        BY <2>2 DEF LInv, LoginTypeOK, LoginSafe
      <3>2. PICK g \in Flows : g = flow[s] /\ g = flow'[s]
        BY <3>1
      <3>3. FlowSafe(g)
        BY <3>1, <3>2, ZenonT(30) DEF FlowSafe
      <3>4. FlowSafe(g)'
        BY <3>3, FlowStays DEF LInv, regVars
      <3> QED BY <3>2, <3>4, ZenonT(30) DEF FlowSafe
    <2> QED BY <2>1, <2>2
  <1>4. OwnStates'
    <2>1. \A s \in Tabs \ {t} : flow'[s] = flow[s] /\ (flow[s].pc \in Outbound => flow[s].st \in used)
      BY DEF LInv, LoginTypeOK, LoginSafe, FlowSafe
    <2>2. flow'[t] = f
      BY DEF LInv, LoginTypeOK
    <2> QED BY <2>1, <2>2, SMT DEF OwnStates, LInv, LoginSafe
  <1>5. CodeGoesWhereAsked' /\ CodeForWhoSignedIn'
    <2>1. \A i \in issued : i.user \in UserIds
      BY DEF LInv, LoginTypeOK, Issues
    <2> QED BY <2>1 DEF CodeGoesWhereAsked, CodeForWhoSignedIn, LInv, LoginSafe
  <1>6. /\ cookie' # None => cookie'.st \in used'
        /\ \A c \in Clients : clients'[c] # NoRow => clients'[c].uris \subseteq registered'[c]
    BY DEF LInv, LoginSafe, regVars
  <1> QED BY <1>1, <1>2, <1>3, <1>4, <1>5, <1>6 DEF LInv, LoginSafe

\* A step of tab t that writes nothing.
LEMMA LoginQuiet ==
    ASSUME LInv, NEW t \in Tabs, NEW f \in Flows, flow' = [flow EXCEPT ![t] = f],
           UNCHANGED <<regVars, users, cookie, used, issued, registered>>, FlowSafe(f),
           f.pc \in Outbound => flow[t].pc \in Outbound /\ flow[t].st = f.st
    PROVE  LInv'
  <1>1. FlowSafe(f)'
    BY FlowStays DEF LInv, regVars
  <1>2. /\ used' \subseteq States /\ users' \in [UserIds -> UserRows \cup {NoRow}]
        /\ issued' \subseteq Issues
    BY DEF LInv, LoginTypeOK
  <1> QED BY <1>1, <1>2, LoginMove

\* A step that sets the cookie to v, if tab t's new login f fits it.
LEMMA CookieMove ==
    ASSUME LInv, NEW t \in Tabs \cup {None}, NEW v \in Sessions \cup {None}, NEW f \in Flows,
           SetCookie(t, v, f), UNCHANGED <<regVars, users, used, issued, registered>>,
           FlowSafe(f)', v # None => v.st \in used,
           v # None => \A s \in Tabs \ {t} : flow[s].pc \in Outbound => flow[s].st # v.st,
           f.pc \in Outbound => flow[t].pc \in Outbound /\ flow[t].st = f.st
    PROVE  LInv'
  <1>1. RegInv'
    BY ZenonT(30) DEF LInv, RegInv, RegTypeOK, SecretReachable, AdminSafe, Stored, regVars
  <1>2. ASSUME NEW s \in Tabs \ {t}
        PROVE  /\ flow'[s] \in Flows /\ flow'[s].pc = flow[s].pc
               /\ flow[s].pc \in Outbound => flow'[s].st = flow[s].st
               /\ FlowSafe(flow[s])'
    <2>1. FlowSafe(flow[s]) /\ flow[s] \in Flows
      BY DEF LInv, LoginSafe, LoginTypeOK
    <2>2. CASE flow[s].pc \in {"idp", "return"}
      <3> DEFINE g == [flow[s] EXCEPT !.lone = FALSE]
      <3>1. flow[s] \in OutFlows
        BY <2>2, FlowShape DEF LInv, Outbound
      <3>2. /\ g \in Flows /\ g.pc = flow[s].pc /\ g.st = flow[s].st /\ g.c = flow[s].c
            /\ g.uri = flow[s].uri /\ g.who = flow[s].who /\ ~g.lone
        BY <2>2, <3>1 DEF OutFlows, Flows
      <3>3. flow'[s] = g
        BY <2>2 DEF SetCookie
      <3> HIDE DEF g
      <3>4. cookie' = v /\ flow[s].pc \in Outbound
        BY <2>2 DEF SetCookie, Outbound
      <3>5. FlowSafe(flow[s])'
        BY <2>1, <2>2, <3>2, <3>3, <3>4 DEF FlowSafe, Outbound, CallbackSteps
      <3> QED BY <3>2, <3>3, <3>5
    <2>3. CASE flow[s].pc \notin {"idp", "return"}
      <3>1. flow'[s] = flow[s] /\ cookie' = v
        BY <2>3 DEF SetCookie
      <3>2. Off' = Off
        BY OffKept DEF regVars
      <3> QED BY <2>1, <2>3, <3>1, <3>2 DEF FlowSafe
    <2> QED BY <2>2, <2>3
  <1>3. t \in Tabs => flow'[t] = f
    BY DEF SetCookie
  <1>4. flow' \in [Tabs -> Flows]
    <2>1. flow' = [s \in Tabs |-> flow'[s]]
      BY DEF SetCookie
    <2> QED BY <1>2, <1>3, <2>1
  <1>5. LoginTypeOK'
    BY <1>4 DEF LInv, LoginTypeOK, SetCookie
  <1>6. ASSUME t \in Tabs
        PROVE  FlowSafe(flow[t])'
    <2>1. flow'[t] = f /\ FlowSafe(f)'
      BY <1>3, <1>6
    <2> QED BY <2>1 DEF FlowSafe
  <1>7. OwnStates'
    BY <1>2, <1>3, SMT DEF OwnStates, LInv, LoginSafe
  <1>8. CodeGoesWhereAsked' /\ CodeForWhoSignedIn'
    BY DEF CodeGoesWhereAsked, CodeForWhoSignedIn, LInv, LoginSafe
  <1>9. /\ cookie' # None => cookie'.st \in used'
        /\ \A c \in Clients : clients'[c] # NoRow => clients'[c].uris \subseteq registered'[c]
    BY DEF LInv, LoginSafe, regVars, SetCookie
  <1>10. ASSUME NEW s \in Tabs
         PROVE  FlowSafe(flow[s])'
    <2>1. CASE s = t
      BY <1>6, <2>1
    <2>2. CASE s # t
      BY <1>2, <2>2
    <2> QED BY <2>1, <2>2
  <1>11. LoginSafe'
    BY <1>7, <1>8, <1>9, <1>10 DEF LoginSafe
  <1> QED BY <1>1, <1>5, <1>11 DEF LInv

\* A login that is over, or whose answer is on its way, knows nothing.
LEMMA NothingKnown ==
    /\ FlowIdle \in Flows /\ FlowSafe(FlowIdle) /\ FlowSafe(FlowIdle)'
    /\ [pc |-> "answer"] \in Flows /\ FlowSafe([pc |-> "answer"])
    /\ FlowIdle.pc = "idle" /\ [pc |-> "answer"].pc = "answer"
    /\ "idle" \notin Outbound /\ "answer" \notin Outbound
  BY DEF FlowIdle, Flows, FlowSafe, Outbound, CallbackSteps

\* What Off says.
LEMMA OffSays ==
    ASSUME NEW c \in Clients, NEW n \in Names
    PROVE  /\ Off[c][n] \in SUBSET {"client", "provider"}
           /\ Active(c) => "client" \notin Off[c][n]
           /\ EnabledProviders(c, n) # {} => "provider" \notin Off[c][n]
  <1>1. Off[c][n] = (IF Active(c) THEN {} ELSE {"client"})
                    \cup (IF EnabledProviders(c, n) # {} THEN {} ELSE {"provider"})
    BY DEF Off
  <1> QED BY <1>1

\* A callback's login keeps all but where it is, its provider and its user.
Same(f, g) ==
    /\ g.c = f.c /\ g.n = f.n /\ g.uri = f.uri /\ g.to = f.to
    /\ g.who = f.who /\ g.off = f.off

\* What is left to show of a step of a callback that goes on.
LEMMA CallbackMove ==
    ASSUME LInv, NEW t \in Tabs, flow[t].pc \in CallbackSteps, NEW g \in CbFlows,
           flow' = [flow EXCEPT ![t] = g], Same(flow[t], g),
           UNCHANGED <<regVars, cookie, used, issued, registered>>,
           users' \in [UserIds -> UserRows \cup {NoRow}],
           \A u \in UserIds : users[u] # NoRow => users'[u] = users[u],
           g.pc # "cbClient" => "client" \notin g.off,
           g.pc \notin {"cbClient", "cbProvider"} => "provider" \notin g.off /\ g.p \in ProviderIds,
           g.pc \in {"touch", "insert"} => /\ g.user \in UserIds /\ users'[g.user] # NoRow
                                          /\ users'[g.user].name = g.n
                                          /\ users'[g.user].sub = g.who.sub
    PROVE  LInv'
  <1>1. FlowSafe(flow[t]) /\ used \subseteq States /\ issued \subseteq Issues
    BY DEF LInv, LoginSafe, LoginTypeOK
  <1>2. g \in Flows /\ g.pc \in CallbackSteps /\ g.pc \notin Outbound
    BY DEF CbFlows, Flows, CallbackSteps, Outbound
  <1>3. Off' = Off
    BY OffKept DEF regVars
  <1>4. g.uri \in registered[g.c] /\ g.to = g.uri
    BY <1>1 DEF FlowSafe, Same
  <1>5. g.off \subseteq Off[g.c][g.n]
    BY <1>1 DEF FlowSafe, Same
  <1>6. g.pc \notin {"return", "idp"}
    BY <1>2 DEF Outbound
  <1>7. FlowSafe(g)'
    BY <1>2, <1>3, <1>4, <1>5, <1>6 DEF FlowSafe
  <1> QED BY <1>1, <1>2, <1>7, LoginMove

\* The ways in which the callback of t goes on.
Stepped(t, k, q, u) ==
    \E g \in CbFlows : /\ flow' = [flow EXCEPT ![t] = g] /\ Same(flow[t], g)
                      /\ g.pc = k /\ g.p = q /\ g.user = u

\* To the next step.
LEMMA CallbackGoes ==
    ASSUME LInv, NEW t \in Tabs, flow[t].pc \in CallbackSteps, NEW k \in CallbackSteps, Goes(t, k)
    PROVE  Stepped(t, k, flow[t].p, flow[t].user)
  <1> DEFINE g == [flow[t] EXCEPT !.pc = k]
  <1>1. flow[t] \in CbFlows /\ flow \in [Tabs -> Flows]
    BY FlowShape DEF LInv, LoginTypeOK
  <1>2. flow' = [flow EXCEPT ![t] = g]
    BY <1>1 DEF Goes
  <1>3. g \in CbFlows /\ g.pc = k /\ g.p = flow[t].p /\ g.user = flow[t].user /\ Same(flow[t], g)
    BY <1>1 DEF CbFlows, Same
  <1> HIDE DEF g
  <1> QED BY <1>2, <1>3 DEF Stepped

\* With the provider found.
LEMMA CallbackFindsProvider ==
    ASSUME LInv, NEW t \in Tabs, flow[t].pc \in CallbackSteps, NEW k \in CallbackSteps, NEW q \in ProviderIds,
           flow' = [flow EXCEPT ![t].pc = k, ![t].p = q]
    PROVE  Stepped(t, k, q, flow[t].user)
  <1> DEFINE g == [flow[t] EXCEPT !.pc = k, !.p = q]
  <1>1. flow[t] \in CbFlows /\ flow \in [Tabs -> Flows]
    BY FlowShape DEF LInv, LoginTypeOK
  <1>2. flow' = [flow EXCEPT ![t] = g]
    BY <1>1
  <1>3. g \in CbFlows /\ g.pc = k /\ g.p = q /\ g.user = flow[t].user /\ Same(flow[t], g)
    BY <1>1 DEF CbFlows, Same
  <1> HIDE DEF g
  <1> QED BY <1>2, <1>3 DEF Stepped

\* With the user found or created.
LEMMA CallbackFindsUser ==
    ASSUME LInv, NEW t \in Tabs, flow[t].pc \in CallbackSteps, NEW k \in CallbackSteps, NEW u \in UserIds,
           flow' = [flow EXCEPT ![t].pc = k, ![t].user = u]
    PROVE  Stepped(t, k, flow[t].p, u)
  <1> DEFINE g == [flow[t] EXCEPT !.pc = k, !.user = u]
  <1>1. flow[t] \in CbFlows /\ flow \in [Tabs -> Flows]
    BY FlowShape DEF LInv, LoginTypeOK
  <1>2. flow' = [flow EXCEPT ![t] = g]
    BY <1>1
  <1>3. g \in CbFlows /\ g.pc = k /\ g.p = flow[t].p /\ g.user = u /\ Same(flow[t], g)
    BY <1>1 DEF CbFlows, Same
  <1> HIDE DEF g
  <1> QED BY <1>2, <1>3 DEF Stepped

\* The steps of GET .../login and of the browser keep the invariant.
LEMMA OutboundStepInv ==
    ASSUME LInv, NEW t \in Tabs, UNCHANGED regVars,
           InitiateClient(t) \/ InitiateProvider(t) \/ Redirect(t) \/ SignIn(t) \/ Denied(t)
    PROVE  LInv'
  <1> DEFINE f == flow[t]
  <1>0. FlowSafe(f) /\ flow \in [Tabs -> Flows] /\ f \in Flows
    BY DEF LInv, LoginSafe, LoginTypeOK
  <1>1. CASE InitiateClient(t)
    <2>1. PICK c \in Clients, n \in Names, uri \in Uris :
             /\ Active(c) /\ uri \in clients[c].uris
             /\ flow' = [flow EXCEPT ![t] = [pc |-> "provider", c |-> c, n |-> n, uri |-> uri]]
      BY <1>1 DEF InitiateClient
    <2> DEFINE g == [pc |-> "provider", c |-> c, n |-> n, uri |-> uri]
    <2>2. g \in Flows /\ g.pc = "provider" /\ g.c = c /\ g.uri = uri
      BY DEF Flows
    <2>3. uri \in registered[c]
      BY <2>1 DEF Active, LInv, LoginSafe
    <2>4. FlowSafe(g)
      BY <2>2, <2>3 DEF FlowSafe, Outbound, CallbackSteps
    <2>5. flow' = [flow EXCEPT ![t] = g] /\ g.pc \notin Outbound
      BY <2>1, <2>2 DEF Outbound
    <2> HIDE DEF g
    <2> QED BY <1>1, <2>2, <2>4, <2>5, LoginQuiet DEF InitiateClient
  <1>2. CASE InitiateProvider(t)
    <2>1. f.c \in Clients /\ f.n \in Names /\ f.uri \in Uris /\ f.uri \in registered[f.c]
      BY <1>0, <1>2, FlowShape DEF InitiateProvider, At, LInv, FlowSafe
    <2>2. CASE EnabledProviders(f.c, f.n) = {}
      BY <1>2, <2>2, NothingKnown, LoginQuiet DEF InitiateProvider, Ends
    <2>3. CASE EnabledProviders(f.c, f.n) # {}
      <3>1. PICK st \in States \ used :
               /\ used' = used \cup {st}
               /\ flow' = [flow EXCEPT ![t] =
                     [pc |-> "redirect", c |-> f.c, n |-> f.n, uri |-> f.uri, st |-> st,
                      lone |-> FALSE, who |-> None]]
        BY <1>2, <2>3 DEF InitiateProvider
      <3> DEFINE g == [pc |-> "redirect", c |-> f.c, n |-> f.n, uri |-> f.uri, st |-> st,
                       lone |-> FALSE, who |-> None]
      <3>2. /\ g \in Flows /\ g.pc = "redirect" /\ g.c = f.c /\ g.uri = f.uri /\ g.st = st
        BY <2>1 DEF Flows
      <3>3. PICK h \in Flows : h = g
        BY <3>2
      <3>4. cookie # None => cookie.st # st
        BY DEF LInv, LoginSafe
      <3>5. UNCHANGED <<users, cookie, issued, registered>>
        BY <1>2 DEF InitiateProvider
      <3>6. h.pc = "redirect" /\ h.uri \in registered[h.c] /\ h.st = st /\ flow' = [flow EXCEPT ![t] = h]
        BY <2>1, <3>1, <3>2, <3>3
      <3>7. FlowSafe(h)'
        BY <3>1, <3>4, <3>5, <3>6 DEF FlowSafe, Outbound, CallbackSteps
      <3>8. /\ used \subseteq used' /\ used' \subseteq States /\ issued' \subseteq Issues
            /\ users' \in [UserIds -> UserRows \cup {NoRow}]
        BY <3>1, <3>5 DEF LInv, LoginTypeOK
      <3> HIDE DEF g
      <3> QED BY <3>1, <3>5, <3>6, <3>7, <3>8, LoginMove
    <2> QED BY <2>2, <2>3
  <1>3. CASE Redirect(t)
    <2> DEFINE g == [f EXCEPT !.pc = "idp", !.lone = TRUE]
    <2>1. f \in OutFlows /\ f.pc = "redirect"
      BY <1>3, FlowShape DEF Redirect, At, LInv, Outbound
    <2>2. /\ g \in Flows /\ g.pc = "idp" /\ g.st = f.st /\ g.c = f.c /\ g.n = f.n /\ g.uri = f.uri
      BY <2>1 DEF Flows, OutFlows
    <2>3. SessionOf(f) \in Sessions /\ SessionOf(f).st = f.st
      BY <2>1 DEF SessionOf, Sessions, OutFlows
    <2>4. SetCookie(t, SessionOf(f), g) /\ UNCHANGED <<users, used, issued, registered>>
      BY <1>3 DEF Redirect, SessionOf
    <2>5. PICK h \in Flows : h = g
      BY <2>2
    <2>6. cookie' = SessionOf(f) /\ SessionOf(h) = SessionOf(f)
      BY <2>2, <2>4, <2>5 DEF SetCookie, SessionOf
    <2>7. f.uri \in registered[f.c] /\ f.st \in used
      BY <1>0, <2>1 DEF FlowSafe, Outbound
    <2>8. h.pc = "idp" /\ h.st \in used /\ h.uri \in registered[h.c] /\ SetCookie(t, SessionOf(f), h)
      BY <2>2, <2>4, <2>5, <2>7
    <2>9. FlowSafe(h)'
      BY <2>4, <2>6, <2>8 DEF FlowSafe, Outbound, CallbackSteps, SessionOf
    <2>10. \A s \in Tabs \ {t} : flow[s].pc \in Outbound => flow[s].st # f.st
      BY <2>1 DEF LInv, LoginSafe, OwnStates, Outbound
    <2>11. h.st = f.st /\ f.pc \in Outbound
      BY <2>1, <2>2, <2>5 DEF Outbound
    <2> HIDE DEF g, f
    <2>12. flow[t] = f
      BY DEF f
    <2> QED BY <2>3, <2>4, <2>7, <2>8, <2>9, <2>10, <2>11, <2>12, CookieMove
  <1>4. CASE SignIn(t)
    <2>1. PICK w \in People : flow' = [flow EXCEPT ![t].pc = "return", ![t].who = w]
      BY <1>4 DEF SignIn
    <2> DEFINE g == [f EXCEPT !.pc = "return", !.who = w]
    <2>2. f \in OutFlows /\ f.pc = "idp"
      BY <1>4, FlowShape DEF SignIn, At, LInv, Outbound
    <2>3. flow' = [flow EXCEPT ![t] = g]
      BY <1>0, <2>1
    <2>4. /\ g \in Flows /\ g.pc = "return" /\ g.st = f.st /\ g.c = f.c /\ g.n = f.n /\ g.uri = f.uri
          /\ g.lone = f.lone /\ g.who = w
      BY <2>2 DEF Flows, OutFlows
    <2>5. SessionOf(g) = SessionOf(f)
      BY <2>4 DEF SessionOf
    <2> HIDE DEF g
    <2>6. FlowSafe(g)
      BY <1>0, <2>2, <2>4, <2>5 DEF FlowSafe, Outbound, CallbackSteps
    <2>7. f.pc \in Outbound
      BY <2>2 DEF Outbound
    <2> QED BY <1>4, <2>3, <2>4, <2>6, <2>7, LoginQuiet DEF SignIn
  <1>5. CASE Denied(t)
    BY <1>5, NothingKnown, LoginQuiet DEF Denied, Ends
  <1> QED BY <1>1, <1>2, <1>3, <1>4, <1>5

\* The callback's checks before any work: a cookie with the login's state is its
\* session.
LEMMA CallbackArrivesInv ==
    ASSUME LInv, NEW t \in Tabs, UNCHANGED regVars, CallbackArrives(t)
    PROVE  LInv'
  <1> DEFINE f == flow[t]
  <1>0. FlowSafe(f) /\ f \in OutFlows /\ f.pc = "return" /\ f.pc \in Outbound
    BY FlowShape DEF LInv, LoginSafe, CallbackArrives, At, Outbound
  <1>1. UNCHANGED <<users, cookie, used, issued, registered>>
    BY DEF CallbackArrives
  <1>2. CASE cookie = None
    BY <1>1, <1>2, NothingKnown, LoginQuiet DEF CallbackArrives
  <1>3. CASE cookie # None /\ ~SessionMatches(cookie, f)
    BY <1>1, <1>3, NothingKnown, LoginQuiet DEF CallbackArrives
  <1>4. CASE cookie # None /\ SessionMatches(cookie, f)
    <2>1. cookie = SessionOf(f)
      BY <1>0, <1>4 DEF FlowSafe, SessionMatches
    <2>2. cookie.uri = f.uri
      BY <2>1 DEF SessionOf
    <2>3. /\ f.c \in Clients /\ f.n \in Names /\ f.uri \in Uris /\ f.uri \in registered[f.c]
          /\ f.who \in People
      BY <1>0 DEF FlowSafe, OutFlows
    <2>4. Off[f.c][f.n] \in SUBSET {"client", "provider"}
      BY <2>3, OffSays
    <2> DEFINE g == [pc |-> "cbClient", c |-> f.c, n |-> f.n, uri |-> f.uri, to |-> cookie.uri,
                     who |-> f.who, p |-> None, user |-> None, off |-> Off[f.c][f.n]]
    <2>5. flow' = [flow EXCEPT ![t] = g]
      BY <1>4 DEF CallbackArrives
    <2>6. g \in CbFlows
      BY <2>2, <2>3, <2>4 DEF CbFlows, CallbackSteps
    <2>7. /\ g.pc = "cbClient" /\ g.c = f.c /\ g.n = f.n /\ g.uri = f.uri /\ g.to = f.uri
          /\ g.off = Off[f.c][f.n]
      BY <2>2
    <2> HIDE DEF g
    <2>8. g \in Flows /\ g.pc \notin Outbound
      BY <2>6, <2>7 DEF CbFlows, Flows, Outbound
    <2>9. FlowSafe(g)
      BY <2>3, <2>7 DEF FlowSafe, Outbound, CallbackSteps
    <2> QED BY <1>1, <2>5, <2>8, <2>9, LoginQuiet
  <1> QED BY <1>2, <1>3, <1>4

\* The steps of the callback from the client's check to the user's row.
LEMMA CallbackStepInv ==
    ASSUME LInv, NEW t \in Tabs, UNCHANGED regVars,
           \/ CallbackClient(t) \/ CallbackProvider(t) \/ ProviderAnswers(t) \/ FetchUserInfo(t)
           \/ LookupUser(t) \/ TouchUser(t) \/ CreateUser(t)
    PROVE  LInv'
  <1> DEFINE f == flow[t]
  <1>0. f.pc \in CallbackSteps /\ f \in CbFlows
    BY FlowShape DEF LInv, CallbackClient, CallbackProvider, ProviderAnswers, FetchUserInfo,
                     LookupUser, TouchUser, CreateUser, At, CallbackSteps
  <1>1. /\ FlowSafe(f) /\ f.c \in Clients /\ f.n \in Names /\ f.who \in People
        /\ f.off \subseteq Off[f.c][f.n]
    BY <1>0 DEF LInv, LoginSafe, FlowSafe, CbFlows
  <1>2. users \in [UserIds -> UserRows \cup {NoRow}]
    BY DEF LInv, LoginTypeOK
  <1>k. \A k \in {"cbProvider", "exchange", "userInfo", "lookup", "touch", "create", "insert"} :
           k \in CallbackSteps
    BY DEF CallbackSteps
  <1>3. ASSUME flow' = [flow EXCEPT ![t] = [pc |-> "answer"]],
               UNCHANGED <<users, cookie, used, issued, registered>>
        PROVE  LInv'
    BY <1>3, NothingKnown, LoginQuiet
  <1>4. CASE CallbackClient(t)
    <2>1. CASE ~Active(f.c)
      BY <1>3, <1>4, <2>1 DEF CallbackClient
    <2>2. CASE Active(f.c)
      <3>1. Goes(t, "cbProvider") /\ UNCHANGED <<users, cookie, used, issued, registered>>
        BY <1>4, <2>2 DEF CallbackClient
      <3>2. PICK g \in CbFlows : flow' = [flow EXCEPT ![t] = g] /\ Same(f, g) /\ g.pc = "cbProvider"
        <5>1. Stepped(t, "cbProvider", f.p, f.user)
          BY <1>k, <1>0, <3>1, CallbackGoes
        <5> QED BY <5>1 DEF Stepped
      <3>3. "client" \notin g.off
        BY <1>1, <2>2, <3>2, OffSays, ZenonT(30) DEF Same
      <3> QED BY <1>0, <1>2, <3>1, <3>2, <3>3, CallbackMove
    <2> QED BY <2>1, <2>2
  <1>5. CASE CallbackProvider(t)
    <2>1. f.pc = "cbProvider" /\ UNCHANGED <<users, cookie, used, issued, registered>>
      BY <1>5 DEF CallbackProvider, At
    <2>2. CASE EnabledProviders(f.c, f.n) = {}
      BY <1>3, <1>5, <2>1, <2>2 DEF CallbackProvider
    <2>3. CASE EnabledProviders(f.c, f.n) # {}
      <3>1. PICK p \in EnabledProviders(f.c, f.n) :
               flow' = [flow EXCEPT ![t].pc = "exchange", ![t].p = p]
        BY <1>5, <2>3 DEF CallbackProvider
      <3>2. p \in ProviderIds
        BY <3>1 DEF EnabledProviders, ProvidersNamed
      <3>3. PICK g \in CbFlows : /\ flow' = [flow EXCEPT ![t] = g] /\ Same(f, g)
                                 /\ g.pc = "exchange" /\ g.p = p
        <5>1. Stepped(t, "exchange", p, f.user)
          BY <1>k, <1>0, <3>1, <3>2, CallbackFindsProvider
        <5> QED BY <5>1 DEF Stepped
      <3>4. "provider" \notin g.off
        BY <1>1, <2>3, <3>3, OffSays DEF Same
      <3>5. "client" \notin g.off
        BY <1>1, <2>1, <3>3 DEF Same, FlowSafe, CallbackSteps
      <3> QED BY <1>0, <1>2, <2>1, <3>2, <3>3, <3>4, <3>5, CallbackMove
    <2> QED BY <2>2, <2>3
  <1>6. ASSUME f.pc \notin {"cbClient", "cbProvider"}
        PROVE  "client" \notin f.off /\ "provider" \notin f.off /\ f.p \in ProviderIds
    BY <1>0, <1>1, <1>6 DEF FlowSafe
  <1>7. CASE ProviderAnswers(t) \/ FetchUserInfo(t)
    <2>1. PICK k \in {"userInfo", "lookup"} : Goes(t, k)
      BY <1>7 DEF ProviderAnswers, FetchUserInfo
    <2>2. /\ f.pc \in {"exchange", "userInfo"}
          /\ UNCHANGED <<users, cookie, used, issued, registered>>
      BY <1>7 DEF ProviderAnswers, FetchUserInfo, At
    <2>3. PICK g \in CbFlows : /\ flow' = [flow EXCEPT ![t] = g] /\ Same(f, g)
                               /\ g.pc = k /\ g.p = f.p
      <4>1. Stepped(t, k, f.p, f.user)
        BY <1>k, <1>0, <2>1, CallbackGoes
      <4> QED BY <4>1 DEF Stepped
    <2>4. g.off = f.off
      BY <2>3 DEF Same
    <2> QED BY <1>0, <1>2, <1>6, <2>1, <2>2, <2>3, <2>4, CallbackMove
  <1>8. CASE LookupUser(t)
    <2>1. f.pc = "lookup" /\ UNCHANGED <<users, cookie, used, issued, registered>>
      BY <1>8 DEF LookupUser, At
    <2>2. CASE UserByProviderID(f) = {}
      <3>1. Goes(t, "create")
        BY <1>8, <2>2 DEF LookupUser
      <3>2. PICK g \in CbFlows : /\ flow' = [flow EXCEPT ![t] = g] /\ Same(f, g)
                                 /\ g.pc = "create" /\ g.p = f.p
        <5>1. Stepped(t, "create", f.p, f.user)
          BY <1>k, <1>0, <3>1, CallbackGoes
        <5> QED BY <5>1 DEF Stepped
      <3>3. g.off = f.off
        BY <3>2 DEF Same
      <3> QED BY <1>0, <1>2, <1>6, <2>1, <3>2, <3>3, CallbackMove
    <2>3. CASE UserByProviderID(f) # {}
      <3>1. PICK u \in UserByProviderID(f) : flow' = [flow EXCEPT ![t].pc = "touch", ![t].user = u]
        BY <1>8, <2>3 DEF LookupUser
      <3>2. /\ u \in UserIds /\ users[u] # NoRow /\ users[u].name = f.n
            /\ users[u].sub = f.who.sub
        BY <3>1 DEF UserByProviderID
      <3>3. PICK g \in CbFlows : /\ flow' = [flow EXCEPT ![t] = g] /\ Same(f, g)
                                 /\ g.pc = "touch" /\ g.p = f.p /\ g.user = u
        <5>1. Stepped(t, "touch", f.p, u)
          BY <1>k, <1>0, <3>1, <3>2, CallbackFindsUser
        <5> QED BY <5>1 DEF Stepped
      <3>4. g.off = f.off /\ g.n = f.n /\ g.who = f.who
        BY <3>3 DEF Same
      <3> QED BY <1>0, <1>2, <1>6, <2>1, <3>2, <3>3, <3>4, CallbackMove
    <2> QED BY <2>2, <2>3
  <1>9. CASE TouchUser(t)
    <2>1. f.pc = "touch" /\ Goes(t, "insert") /\ UNCHANGED <<users, cookie, used, issued, registered>>
      BY <1>9 DEF TouchUser, At
    <2>2. /\ f.user \in UserIds /\ users[f.user] # NoRow /\ users[f.user].name = f.n
          /\ users[f.user].sub = f.who.sub
      BY <1>1, <2>1 DEF FlowSafe
    <2>3. PICK g \in CbFlows : /\ flow' = [flow EXCEPT ![t] = g] /\ Same(f, g)
                               /\ g.pc = "insert" /\ g.p = f.p /\ g.user = f.user
      <4>1. Stepped(t, "insert", f.p, f.user)
        BY <1>k, <1>0, <2>1, CallbackGoes
      <4> QED BY <4>1 DEF Stepped
    <2>4. g.off = f.off /\ g.n = f.n /\ g.who = f.who
      BY <2>3 DEF Same
    <2> QED BY <1>0, <1>2, <1>6, <2>1, <2>2, <2>3, <2>4, CallbackMove
  <1>10. CASE CreateUser(t)
    <2>1. f.pc = "create" /\ UNCHANGED <<cookie, used, issued, registered>>
      BY <1>10 DEF CreateUser, At
    <2>2. CASE Collides(f)
      BY <1>3, <1>10, <2>1, <2>2 DEF CreateUser
    <2>3. CASE ~Collides(f)
      <3>1. PICK u \in UserIds :
               /\ users[u] = NoRow
               /\ users' = [users EXCEPT ![u] =
                              [name |-> f.n, sub |-> f.who.sub, email |-> f.who.email]]
               /\ flow' = [flow EXCEPT ![t].pc = "insert", ![t].user = u]
        BY <1>10, <2>3 DEF CreateUser
      <3> DEFINE row == [name |-> f.n, sub |-> f.who.sub, email |-> f.who.email]
      <3>2. row \in UserRows /\ row.name = f.n /\ row.sub = f.who.sub /\ row # NoRow
        <4>1. row \in UserRows
          BY <1>1 DEF UserRows, People
        <4> QED BY <4>1, LoginAssumption
      <3>3. users' = [users EXCEPT ![u] = row]
        BY <3>1
      <3> HIDE DEF row
      <3>4. PICK g \in CbFlows : /\ flow' = [flow EXCEPT ![t] = g] /\ Same(f, g)
                                 /\ g.pc = "insert" /\ g.p = f.p /\ g.user = u
        <5>1. Stepped(t, "insert", f.p, u)
          BY <1>k, <1>0, <3>1, CallbackFindsUser
        <5> QED BY <5>1 DEF Stepped
      <3>5. g.off = f.off /\ g.n = f.n /\ g.who = f.who
        BY <3>4 DEF Same
      <3>6. /\ users' \in [UserIds -> UserRows \cup {NoRow}] /\ users'[u] = row
            /\ \A v \in UserIds : users[v] # NoRow => users'[v] = users[v]
        BY <1>2, <3>1, <3>2, <3>3
      <3> QED BY <1>0, <1>6, <2>1, <3>2, <3>4, <3>5, <3>6, CallbackMove
    <2> QED BY <2>2, <2>3
  <1> QED BY <1>4, <1>5, <1>7, <1>8, <1>9, <1>10

\* The last steps of a callback, and its failures.
LEMMA CallbackEndInv ==
    ASSUME LInv, NEW t \in Tabs, UNCHANGED regVars,
           InsertCode(t) \/ CallbackAnswered(t) \/ LoginFail(t)
    PROVE  LInv'
  <1>1. CASE InsertCode(t)
    <2> DEFINE f == flow[t]
               i == [c |-> f.c, n |-> f.n, uri |-> f.to, wanted |-> f.uri, user |-> f.user,
                     who |-> f.who]
    <2>1. f.pc = "insert" /\ f.pc \in CallbackSteps
      BY <1>1 DEF InsertCode, At, CallbackSteps
    <2>2. FlowSafe(f) /\ f \in CbFlows
      BY <2>1, FlowShape DEF LInv, LoginSafe
    <2>3. /\ f.to = f.uri /\ f.uri \in registered[f.c] /\ f.user \in UserIds
          /\ users[f.user] # NoRow /\ users[f.user].name = f.n /\ users[f.user].sub = f.who.sub
      BY <2>1, <2>2 DEF FlowSafe
    <2>4. i \in Issues
      BY <2>2, <2>3 DEF Issues, CbFlows
    <2>5. /\ i.uri = i.wanted /\ i.uri \in registered[i.c]
          /\ users[i.user] # NoRow /\ users[i.user].name = i.n /\ users[i.user].sub = i.who.sub
      BY <2>3
    <2>6. /\ issued' = issued \/ issued' = issued \cup {i}
          /\ flow' = [flow EXCEPT ![t] = [pc |-> "answer"]]
          /\ UNCHANGED <<users, cookie, used, registered>>
      BY <1>1 DEF InsertCode
    <2> HIDE DEF i
    <2>7. /\ issued' \subseteq Issues /\ used' \subseteq States
          /\ users' \in [UserIds -> UserRows \cup {NoRow}]
      BY <2>4, <2>6 DEF LInv, LoginTypeOK
    <2>8. FlowSafe([pc |-> "answer"])'
      BY DEF FlowSafe, Outbound, CallbackSteps
    <2> QED BY <2>5, <2>6, <2>7, <2>8, NothingKnown, LoginMove
  <1>2. CASE CallbackAnswered(t)
    <2>1. SetCookie(t, None, FlowIdle) /\ UNCHANGED <<users, used, issued, registered>>
      BY <1>2 DEF CallbackAnswered
    <2> QED BY <2>1, NothingKnown, CookieMove
  <1>3. CASE LoginFail(t)
    <2>1. /\ \/ flow' = [flow EXCEPT ![t] = [pc |-> "answer"]]
             \/ flow' = [flow EXCEPT ![t] = FlowIdle]
          /\ UNCHANGED <<users, cookie, used, issued, registered>>
      BY <1>3 DEF LoginFail
    <2> QED BY <2>1, NothingKnown, LoginQuiet
  <1> QED BY <1>1, <1>2, <1>3

\* A step of an administrator: what logins know stays true, because URIs stay in
\* the history and what is no longer off is taken from theirs.
LEMMA ObserveInv ==
    ASSUME LInv, RegNext, Observe, UNCHANGED <<users, cookie, used, issued>>
    PROVE  LInv'
  <1>1. RegInv'
    BY RegStepInv DEF LInv, RegNext
  <1>2. /\ registered' \in [Clients -> SUBSET Uris]
        /\ \A c \in Clients : registered[c] \subseteq registered'[c]
        /\ \A c \in Clients : clients'[c] # NoRow => clients'[c].uris \subseteq registered'[c]
    <2>1. \A c \in Clients : clients'[c] # NoRow => clients'[c].uris \in SUBSET Uris
      BY <1>1 DEF RegInv, RegTypeOK, ClientRows
    <2>2. \A c \in Clients : registered'[c] = registered[c] \cup (IF clients'[c] = NoRow THEN {}
                                                                  ELSE clients'[c].uris)
      BY DEF Observe
    <2>3. registered' = [c \in Clients |-> registered'[c]]
      BY DEF Observe
    <2> QED BY <2>1, <2>2, <2>3 DEF LInv, LoginTypeOK
  <1>3. ASSUME NEW t \in Tabs
        PROVE  /\ flow'[t] \in Flows /\ flow'[t].pc = flow[t].pc
               /\ flow[t].pc \in Outbound => flow'[t].st = flow[t].st
               /\ FlowSafe(flow[t])'
    <2>1. FlowSafe(flow[t]) /\ flow[t] \in Flows
      BY DEF LInv, LoginSafe, LoginTypeOK
    <2>2. CASE flow[t].pc \notin CallbackSteps
      <3>1. flow'[t] = flow[t]
        BY <2>2 DEF Observe, InCallback
      <3>2. flow[t].pc \in {"provider"} \cup Outbound => flow[t].c \in Clients
        BY FlowShape DEF LInv, OutFlows
      <3> QED BY <1>2, <2>1, <2>2, <3>1, <3>2 DEF FlowSafe, CallbackSteps
    <2>3. CASE flow[t].pc \in CallbackSteps
      <3> DEFINE off == flow[t].off \cap Off'[flow[t].c][flow[t].n]
                 g == [flow[t] EXCEPT !.off = off]
      <3>1. flow[t] \in CbFlows
        BY <2>3, FlowShape DEF LInv
      <3>2. flow'[t] = g
        BY <2>3 DEF Observe, InCallback
      <3>3. off \subseteq flow[t].off /\ off \subseteq Off'[flow[t].c][flow[t].n]
        OBVIOUS
      <3> HIDE DEF off
      <3>4. /\ g \in CbFlows /\ g.pc = flow[t].pc /\ g.c = flow[t].c /\ g.n = flow[t].n
            /\ g.uri = flow[t].uri /\ g.to = flow[t].to /\ g.who = flow[t].who
            /\ g.p = flow[t].p /\ g.user = flow[t].user /\ g.off = off
        BY <3>1, <3>3 DEF CbFlows
      <3> HIDE DEF g
      <3>5. flow[t].pc \notin Outbound /\ flow[t].pc \notin {"idp", "return", "provider"}
        BY <2>3 DEF Outbound, CallbackSteps
      <3>6. flow[t].c \in Clients
        BY <3>1 DEF CbFlows
      <3>7. FlowSafe(flow[t])'
        BY <1>2, <2>1, <2>3, <3>2, <3>3, <3>4, <3>5, <3>6 DEF FlowSafe
      <3>8. g \in Flows
        BY <3>4 DEF CbFlows, Flows
      <3> QED BY <3>2, <3>4, <3>5, <3>7, <3>8
    <2> QED BY <2>2, <2>3
  <1>4. LoginTypeOK'
    <2>1. flow' = [t \in Tabs |-> flow'[t]]
      BY DEF Observe
    <2>2. flow' \in [Tabs -> Flows]
      BY <1>3, <2>1
    <2> QED BY <1>2, <2>2 DEF LInv, LoginTypeOK
  <1>5. OwnStates'
    BY <1>3, ZenonT(30) DEF OwnStates, LInv, LoginSafe
  <1>6. CodeGoesWhereAsked' /\ CodeForWhoSignedIn'
    <2>1. \A i \in issued : i.c \in Clients
      BY DEF LInv, LoginTypeOK, Issues
    <2> QED BY <1>2, <2>1 DEF CodeGoesWhereAsked, CodeForWhoSignedIn, LInv, LoginSafe
  <1> QED BY <1>1, <1>2, <1>3, <1>4, <1>5, <1>6 DEF LInv, LoginSafe

\* The invariant holds at the start.
LEMMA LoginInitInv ==
    ASSUME Init
    PROVE  LInv
  <1>1. RegInv
    BY RegInitInv DEF Init
  <1>2. users \in [UserIds -> UserRows \cup {NoRow}]
    BY SMT DEF Init, LoginInit, UserRows
  <1>3. /\ \A t \in Tabs : flow[t] = FlowIdle
        /\ flow = [t \in Tabs |-> FlowIdle] /\ cookie = None /\ used = {} /\ issued = {}
        /\ registered = [c \in Clients |-> {}]
    BY DEF Init, LoginInit
  <1>4. LoginTypeOK
    BY <1>2, <1>3, NothingKnown DEF LoginTypeOK
  <1>5. \A c \in Clients : clients[c] = NoRow
    BY DEF Init, RegInit
  <1>6. (\A t \in Tabs : FlowSafe(flow[t])) /\ OwnStates
    BY <1>3, NothingKnown DEF OwnStates
  <1> QED BY <1>1, <1>3, <1>4, <1>5, <1>6
      DEF LInv, LoginSafe, CodeGoesWhereAsked, CodeForWhoSignedIn

\* Every step of the logins and of the administration keeps the invariant.
LEMMA LoginNextInv ==
    ASSUME LInv, [Next]_vars
    PROVE  LInv'
  <1>1. CASE \E t \in Tabs : LoginStep(t) /\ UNCHANGED regVars
    BY <1>1, OutboundStepInv, CallbackArrivesInv, CallbackStepInv, CallbackEndInv DEF LoginStep
  <1>2. CASE CookieExpires /\ UNCHANGED regVars
    <2>1. SetCookie(None, None, FlowIdle) /\ UNCHANGED <<users, used, issued, registered>>
      BY <1>2 DEF CookieExpires
    <2> QED BY <1>2, <2>1, NothingKnown, CookieMove
  <1>3. CASE RegNext /\ Observe /\ UNCHANGED <<users, cookie, used, issued>>
    BY <1>3, ObserveInv
  <1>4. CASE UNCHANGED vars
    <2>1. UNCHANGED <<clients, providers, admin, shown, lost, users, cookie, flow, used, issued, registered>>
      BY <1>4 DEF vars, regVars, loginVars
    <2>2. RegInv'
      BY <2>1, SMT DEF LInv, RegInv, RegTypeOK, SecretReachable, AdminSafe, Stored
    <2>3. LoginTypeOK'
      BY <2>1 DEF LInv, LoginTypeOK
    <2>4. Off' = Off
      BY <2>1, OffKept
    <2>5. \A t \in Tabs : FlowSafe(flow[t])'
      BY <2>1, <2>4, ZenonT(30) DEF LInv, LoginSafe, FlowSafe
    <2>6. OwnStates' /\ CodeGoesWhereAsked' /\ CodeForWhoSignedIn'
      BY <2>1 DEF LInv, LoginSafe, OwnStates, CodeGoesWhereAsked, CodeForWhoSignedIn
    <2> QED BY <2>1, <2>2, <2>3, <2>5, <2>6 DEF LInv, LoginSafe
  <1> QED BY <1>1, <1>2, <1>3, <1>4 DEF Next

\* The invariant always holds.
LEMMA LoginInvariant == Spec => []LInv
  BY LoginInitInv, LoginNextInv, PTL DEF Spec

\* A login that nobody interfered with finds its own session in the cookie.
LEMMA LoneKept ==
    ASSUME LInv, Next, NEW t \in Tabs, At(t, "return"), flow[t].lone
    PROVE  flow'[t].pc \in {"return", "cbClient"}
  <1> DEFINE f == flow[t]
  <1>1. f \in OutFlows /\ f.pc = "return" /\ FlowSafe(f) /\ flow \in [Tabs -> Flows]
    BY FlowShape DEF LInv, LoginSafe, LoginTypeOK, At, Outbound
  <1>2. cookie = SessionOf(f) /\ SessionOf(f) \in Sessions
    BY <1>1 DEF FlowSafe, SessionOf, Sessions, OutFlows
  <1>3. cookie # None /\ SessionMatches(cookie, f)
    BY <1>2, LoginAssumption DEF SessionMatches, SessionOf
  <1>4. \A s, v, g : s # t /\ SetCookie(s, v, g) => flow'[t].pc = "return"
    BY <1>1 DEF SetCookie, OutFlows
  <1>5. CASE \E s \in Tabs : LoginStep(s)
    <2>1. PICK s \in Tabs : LoginStep(s)
      BY <1>5
    <2>2. CASE s = t
      <3>1. CallbackArrives(t)
        BY <1>1, <2>1, <2>2
           DEF LoginStep, InitiateClient, InitiateProvider, Redirect, SignIn, Denied,
               CallbackClient, CallbackProvider, ProviderAnswers, FetchUserInfo, LookupUser,
               TouchUser, CreateUser, InsertCode, CallbackAnswered, LoginFail, At, CallbackSteps
      <3> QED BY <1>1, <1>3, <3>1 DEF CallbackArrives
    <2>3. CASE s # t /\ (Redirect(s) \/ CallbackAnswered(s))
      BY <1>4, <2>3 DEF Redirect, CallbackAnswered
    <2>4. CASE s # t /\ ~(Redirect(s) \/ CallbackAnswered(s))
      <3>1. flow'[t] = flow[t]
        BY <1>1, <2>1, <2>4
           DEF LoginStep, InitiateClient, InitiateProvider, SignIn, Denied, CallbackArrives,
               CallbackClient, CallbackProvider, ProviderAnswers, FetchUserInfo, LookupUser,
               TouchUser, CreateUser, InsertCode, LoginFail, Goes, Ends
      <3> QED BY <1>1, <3>1
    <2> QED BY <2>2, <2>3, <2>4
  <1>6. CASE CookieExpires
    BY <1>4, <1>6, LoginAssumption DEF CookieExpires
  <1>7. CASE Observe
    BY <1>1, <1>7 DEF Observe, InCallback, CallbackSteps
  <1> QED BY <1>5, <1>6, <1>7 DEF Next

---------------------------------------------------------------------------
(* Theorems                                                                *)

\* The tables, the requests and the logins keep their types.
THEOREM LoginTypeCorrect == Spec => []TypeOK
  <1>1. LInv => TypeOK
    BY DEF LInv, RegInv, TypeOK
  <1> QED BY <1>1, LoginInvariant, PTL

\* Concurrent regenerations, failed statements and lost audit events never lock a
\* client out: unless the answer that carried it was lost, the secret in force was
\* returned to an administrator or is about to be.
THEOREM SecretAlwaysReachable == Spec => []SecretReachable
  <1>1. LInv => SecretReachable
    BY DEF LInv, RegInv
  <1> QED BY <1>1, LoginInvariant, PTL

\* A code goes to the redirect URI that its login asked for, which was registered
\* for the client, whatever the other tabs do to the shared cookie.
THEOREM CodesGoWhereAsked == Spec => []CodeGoesWhereAsked
  <1>1. LInv => CodeGoesWhereAsked
    BY DEF LInv, LoginSafe
  <1> QED BY <1>1, LoginInvariant, PTL

\* A code is issued for the account of the subject that signed in, however the
\* statements of concurrent callbacks interleave.
THEOREM CodesForWhoSignedIn == Spec => []CodeForWhoSignedIn
  <1>1. LInv => CodeForWhoSignedIn
    BY DEF LInv, LoginSafe
  <1> QED BY <1>1, LoginInvariant, PTL

\* An update of a provider without a secret that no other write overtakes leaves
\* the stored secret as it is.
THEOREM SecretRetained == Spec => RetainsUnlessOvertaken
  <1> DEFINE Keeps == \A a \in Admins :
                         /\ admin[a].pc = "updWrite" /\ admin[a].new = None
                         /\ ~admin[a].raced
                         /\ admin'[a].pc = "idle"
                         => providers'[admin[a].p].secret = providers[admin[a].p].secret
  <1>1. LInv /\ [Next]_vars => [Keeps]_regVars
    <2> SUFFICES ASSUME LInv, RegNext
                 PROVE  Keeps
      BY DEF Next, vars, regVars
    <2> QED BY RegWrites DEF LInv, RegNext
  <1> QED BY <1>1, LoginInvariant, PTL DEF Spec, RetainsUnlessOvertaken

\* A provider keeps its client and its name until it is deleted, and stays deleted,
\* although an update that read the row may write after the deletion.
THEOREM ProviderIdentityKept == Spec => ProviderIdentityFixed
  <1> DEFINE Keeps == \A p \in ProviderIds :
                         /\ Stored(p) =>
                              \/ providers'[p] = Deleted
                              \/ /\ providers'[p].client = providers[p].client
                                 /\ providers'[p].name = providers[p].name
                         /\ providers[p] = Deleted => providers'[p] = Deleted
  <1>1. LInv /\ [Next]_vars => [Keeps]_regVars
    <2> SUFFICES ASSUME LInv, RegNext
                 PROVE  Keeps
      BY DEF Next, vars, regVars
    <2>1. RowsStep
      BY RegStepInv DEF LInv, RegNext
    <2> QED BY <2>1 DEF RowsStep
  <1> QED BY <1>1, LoginInvariant, PTL DEF Spec, ProviderIdentityFixed

\* A stored provider is changed or deleted only by a request whose path named the
\* provider's client, although check and write are two statements.
THEOREM WrittenByOwnersOnly == Spec => OwnersOnly
  <1> DEFINE Keeps == \A p \in ProviderIds :
                         Stored(p) /\ providers'[p] # providers[p] =>
                            \E a \in Admins :
                               /\ admin[a].pc \in {"updWrite", "deleteProvider"}
                               /\ admin[a].p = p /\ admin[a].c = providers[p].client
                               /\ admin'[a].pc = "idle"
  <1>1. LInv /\ [Next]_vars => [Keeps]_regVars
    <2> SUFFICES ASSUME LInv, RegNext
                 PROVE  Keeps
      BY DEF Next, vars, regVars
    <2> QED BY RegWrites DEF LInv, RegNext
  <1> QED BY <1>1, LoginInvariant, PTL DEF Spec, OwnersOnly

\* No code is issued by a callback during all of which the client was inactive or
\* the provider disabled or deleted.
THEOREM NoCodeThroughWhatIsOff == Spec => NoCodeWhileOff
  <1> DEFINE Keeps == \A t \in Tabs : At(t, "insert") /\ issued' # issued
                                         => flow[t].off = {} \/ flow'[t] = flow[t]
  <1>1. LInv /\ [Next]_vars => [Keeps]_vars
    <2>1. ASSUME LInv, NEW t \in Tabs, At(t, "insert")
          PROVE  flow[t].off = {}
      <3>1. flow[t].pc = "insert" /\ flow[t].pc \in CallbackSteps
        BY <2>1 DEF At, CallbackSteps
      <3>2. flow[t] \in CbFlows /\ FlowSafe(flow[t])
        BY <2>1, <3>1, FlowShape DEF LInv, LoginSafe
      <3>3. flow[t].off \subseteq {"client", "provider"}
        BY <3>2 DEF CbFlows
      <3>4. "client" \notin flow[t].off /\ "provider" \notin flow[t].off
        BY <3>1, <3>2 DEF FlowSafe
      <3> QED BY <3>3, <3>4
    <2> QED BY <2>1
  <1> QED BY <1>1, LoginInvariant, PTL DEF Spec, NoCodeWhileOff

\* A callback is turned away for its cookie only after another login, another
\* callback or the cookie's expiry came between.
THEOREM LoneLoginIsKept == Spec => OnlyOverlapLosesLogin
  <1> DEFINE Keeps == \A t \in Tabs : At(t, "return") /\ flow[t].lone
                                         => flow'[t].pc \in {"return", "cbClient"}
  <1>1. LInv /\ [Next]_vars => [Keeps]_vars
    BY LoneKept
  <1> QED BY <1>1, LoginInvariant, PTL DEF Spec, OnlyOverlapLosesLogin
=============================================================================
