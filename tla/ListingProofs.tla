--------------------------- MODULE ListingProofs ---------------------------
(***************************************************************************)
(* What the administration API rests on: the default administrator and     *)
(* client that start-up creates, for any number of replicas and crashes,   *)
(* and the listings, for tables of any size, any pages and any statements  *)
(* of others between them; and the API as a whole.                         *)
(***************************************************************************)
EXTENDS Bootstrap, MCAdminApi, AdminApiProofs, FiniteSetTheorems, TLAPS

\* Zenon proves the leaves that cite no other prover.
USE Zenon

---------------------------------------------------------------------------
(* Start-up                                                                *)

\* What a replica in the middle of BootstrapDefaultAdmin has already written still
\* holds when it runs its next statement.
Written ==
    \A r \in Replicas :
        /\ pc[r] = "setPassword" => user # NoUser
        /\ pc[r] = "setForce" => user # NoUser /\ user.password
        /\ pc[r] = "promote" => user # NoUser /\ user.password /\ (user.force \/ rotated)

BootInv == BootTypeOK /\ Written /\ AdminMustRotate

\* Nothing was written yet.
LEMMA BootInitInv == BootInit => BootInv
  <1> SUFFICES ASSUME BootInit PROVE BootInv
    OBVIOUS
  <1>1. user = NoUser /\ nclients \in 0 .. MaxClients /\ crashes \in 0 .. MaxCrashes
    BY BootstrapAssumption, SMT DEF BootInit
  <1>2. pc \in [Replicas -> Steps] /\ \A r \in Replicas : pc[r] = "down"
    BY DEF BootInit, Steps
  <1>3. rotated \in BOOLEAN /\ others \in BOOLEAN
    BY DEF BootInit
  <1>4. Written /\ AdminMustRotate
    BY <1>1, <1>2 DEF Written, AdminMustRotate
  <1> QED BY <1>1, <1>2, <1>3, <1>4 DEF BootInv, BootTypeOK

\* Every statement of every replica, a crash and what the admin changes keep
\* BootInv.
LEMMA BootNextInv == BootInv /\ [BootNext]_bootVars => BootInv'
  <1> SUFFICES ASSUME BootInv, [BootNext]_bootVars PROVE BootInv'
    OBVIOUS
  <1> USE BootstrapAssumption DEF BootInv, BootTypeOK, Written, AdminMustRotate, UserRow, Steps, Goto
  <1>1. ASSUME NEW r \in Replicas, StartReplica(r) \/ CountAdminUsers(r) \/ CountClients(r)
                                   \/ LookupAdmin(r)
        PROVE  BootInv'
    <2>1. UNCHANGED <<user, nclients, others, rotated, crashes>>
      BY <1>1 DEF StartReplica, CountAdminUsers, CountClients, LookupAdmin
    <2>2. \E step \in {"countAdmins", "countClients", "createUser", "serving",
                       "lookupAdmin", "createClient", "down"} : Goto(r, step)
      BY <1>1 DEF StartReplica, CountAdminUsers, CountClients, LookupAdmin
    <2> QED BY <2>1, <2>2, ZenonT(30)
  <1>2. ASSUME NEW r \in Replicas, CreateUser(r)
        PROVE  BootInv'
    <2>1. CASE user = NoUser
      <3>1. user' \in UserRow /\ user' # NoUser /\ ~user'.admin
        <4> DEFINE row == [password |-> FALSE, force |-> FALSE, admin |-> FALSE]
        <4>1. user' = row
          BY <1>2, <2>1 DEF CreateUser
        <4>2. row \in UserRow /\ ~row.admin
          OBVIOUS
        <4>3. NoUser \notin UserRow
          OBVIOUS
        <4> HIDE DEF row
        <4> QED BY <4>1, <4>2, <4>3
      <3>2. Goto(r, "setPassword") /\ UNCHANGED <<nclients, others, rotated, crashes>>
        BY <1>2, <2>1 DEF CreateUser
      <3> QED BY <2>1, <3>1, <3>2
    <2>2. CASE user # NoUser
      BY <1>2, <2>2 DEF CreateUser
    <2> QED BY <2>1, <2>2
  <1>3. ASSUME NEW r \in Replicas, UpdatePasswordHash(r)
        PROVE  BootInv'
    BY <1>3 DEF UpdatePasswordHash
  <1>4. ASSUME NEW r \in Replicas, SetForcePasswordChange(r)
        PROVE  BootInv'
    BY <1>4 DEF SetForcePasswordChange
  <1>5. ASSUME NEW r \in Replicas, PromoteUserToAdmin(r)
        PROVE  BootInv'
    BY <1>5 DEF PromoteUserToAdmin
  <1>6. ASSUME NEW r \in Replicas, CreateClient(r)
        PROVE  BootInv'
    BY <1>6, SMT DEF CreateClient
  <1>7. ASSUME NEW r \in Replicas, Crash(r)
        PROVE  BootInv'
    BY <1>7, SMT DEF Crash
  <1>8. ASSUME AdminChangesPassword
        PROVE  BootInv'
    BY <1>8 DEF AdminChangesPassword
  <1>9. ASSUME AdminChangesClients
        PROVE  BootInv'
    <2>1. nclients' \in 0 .. MaxClients
      BY <1>9, SMT DEF AdminChangesClients
    <2>2. others' \in BOOLEAN
      BY <1>9 DEF AdminChangesClients
    <2> QED BY <1>9, <2>1, <2>2 DEF AdminChangesClients
  <1>10. CASE UNCHANGED bootVars
    BY <1>10 DEF bootVars
  <1> QED
    BY <1>1, <1>2, <1>3, <1>4, <1>5, <1>6, <1>7, <1>8, <1>9, <1>10, ZenonT(30) DEF BootNext, Proceed

\* BootstrapDefaultAdmin leaves no account with admin rights under the configured
\* password that does not have to change it, for any number of replicas starting
\* at once and wherever they crash.
THEOREM AdminAlwaysMustRotate == BootSpec => []AdminMustRotate
  <1>1. BootInv => AdminMustRotate
    BY DEF BootInv
  <1> QED BY <1>1, BootInitInv, BootNextInv, PTL DEF BootSpec

\* The start-up keeps its types.
THEOREM BootTypeCorrect == BootSpec => []BootTypeOK
  <1>1. BootInv => BootTypeOK
    BY DEF BootInv
  <1> QED BY <1>1, BootInitInv, BootNextInv, PTL DEF BootSpec

\* The replicas that have counted no client and have not gone past the INSERT: each
\* may still add one.
Counted == {r \in Replicas : pc[r] \in {"lookupAdmin", "createClient"}}

Room == nclients + Cardinality(Counted) <= Cardinality(Replicas)

\* The numbers that Room compares.
LEMMA CountedSets ==
    /\ Cardinality(Replicas) \in Nat
    /\ \A S \in SUBSET Replicas : /\ IsFiniteSet(S) /\ Cardinality(S) \in Nat
                                  /\ Cardinality(S) <= Cardinality(Replicas)
    /\ \A S, T \in SUBSET Replicas : S \subseteq T => Cardinality(S) <= Cardinality(T)
    /\ \A S \in SUBSET Replicas, r \in Replicas :
          r \in S => Cardinality(S \ {r}) = Cardinality(S) - 1
  <1>1. ASSUME NEW S \in SUBSET Replicas
        PROVE  /\ IsFiniteSet(S) /\ Cardinality(S) \in Nat
               /\ Cardinality(S) <= Cardinality(Replicas)
    BY BootstrapAssumption, FS_Subset, FS_CardinalityType
  <1>2. ASSUME NEW S \in SUBSET Replicas, NEW T \in SUBSET Replicas, S \subseteq T
        PROVE  Cardinality(S) <= Cardinality(T)
    BY <1>1, <1>2, FS_Subset
  <1>3. ASSUME NEW S \in SUBSET Replicas, NEW r \in S
        PROVE  Cardinality(S \ {r}) = Cardinality(S) - 1
    BY <1>1, FS_RemoveElement
  <1>4. Cardinality(Replicas) \in Nat
    BY BootstrapAssumption, FS_CardinalityType
  <1> QED BY <1>1, <1>2, <1>3, <1>4

\* While there is a default client nobody else gets into Counted, a replica that
\* inserts one leaves it, and deleting one makes room.
LEMMA RoomKept ==
    ASSUME BootTypeOK, Room, [BootNext]_bootVars
    PROVE  Room'
  <1>1. /\ nclients \in Nat /\ Counted \in SUBSET Replicas /\ Counted' \in SUBSET Replicas
        /\ Cardinality(Counted) \in Nat /\ Cardinality(Counted') \in Nat
        /\ Cardinality(Replicas) \in Nat
    BY CountedSets, SMT DEF BootTypeOK, Counted
  <1>2. ASSUME nclients' = nclients, Counted' \subseteq Counted
        PROVE  Room'
    <2>1. Cardinality(Counted') <= Cardinality(Counted)
      BY <1>1, <1>2, CountedSets
    <2> QED BY <1>1, <1>2, <2>1, SMT DEF Room
  <1>3. ASSUME NEW r \in Replicas, CountClients(r)
        PROVE  Room'
    <2>1. CASE nclients > 0
      BY <1>2, <1>3, <2>1 DEF CountClients, Goto, Counted, BootTypeOK
    <2>2. CASE nclients = 0
      <3>1. nclients' = 0
        BY <1>3, <2>2 DEF CountClients
      <3>2. Cardinality(Counted') <= Cardinality(Replicas)
        BY <1>1, CountedSets
      <3> QED BY <1>1, <3>1, <3>2, SMT DEF Room
    <2> QED BY <1>1, <2>1, <2>2, SMT
  <1>4. ASSUME NEW r \in Replicas, CreateClient(r)
        PROVE  Room'
    <2>1. r \in Counted /\ Counted' = Counted \ {r} /\ nclients' = nclients + 1
      BY <1>4 DEF CreateClient, Goto, Counted, BootTypeOK
    <2>2. Cardinality(Counted') = Cardinality(Counted) - 1
      BY <1>1, <2>1, CountedSets
    <2> QED BY <1>1, <2>1, <2>2, SMT DEF Room
  <1>5. ASSUME NEW r \in Replicas, Proceed(r), ~CountClients(r), ~CreateClient(r)
        PROVE  Room'
    <2>1. nclients' = nclients
      BY <1>5 DEF Proceed, StartReplica, CountAdminUsers, CreateUser, UpdatePasswordHash,
                  SetForcePasswordChange, PromoteUserToAdmin, LookupAdmin
    <2>2. \A s \in Replicas \ {r} : pc'[s] = pc[s]
      BY <1>5 DEF Proceed, StartReplica, CountAdminUsers, CreateUser, UpdatePasswordHash,
                  SetForcePasswordChange, PromoteUserToAdmin, LookupAdmin, Goto, BootTypeOK
    <2>3. pc'[r] \in {"lookupAdmin", "createClient"} => pc[r] = "lookupAdmin"
      BY <1>5 DEF Proceed, StartReplica, CountAdminUsers, CreateUser, UpdatePasswordHash,
                  SetForcePasswordChange, PromoteUserToAdmin, LookupAdmin, Goto, BootTypeOK
    <2> QED BY <1>2, <2>1, <2>2, <2>3 DEF Counted
  <1>6. ASSUME NEW r \in Replicas, Crash(r)
        PROVE  Room'
    BY <1>2, <1>6 DEF Crash, Goto, Counted, BootTypeOK
  <1>7. CASE AdminChangesPassword \/ UNCHANGED bootVars
    BY <1>2, <1>7 DEF AdminChangesPassword, bootVars, Counted
  <1>8. CASE AdminChangesClients
    <2>1. Counted' = Counted /\ (nclients' = nclients \/ nclients' = nclients - 1)
      BY <1>8 DEF AdminChangesClients, Counted
    <2> QED BY <1>1, <2>1, SMT DEF Room
  <1> QED BY <1>3, <1>4, <1>5, <1>6, <1>7, <1>8 DEF BootNext

\* BootstrapDefaultClient never leaves more active default clients than there are
\* replicas, however they interleave, crash and start again, and whichever clients
\* the admin creates and deletes meanwhile.
THEOREM DefaultClientsAlwaysBounded == BootSpec => []DefaultClientsBounded
  <1>1. ASSUME BootInit
        PROVE  Room
    <2>1. nclients = 0 /\ Counted = {}
      BY <1>1 DEF BootInit, Counted
    <2> QED BY <2>1, CountedSets, FS_EmptySet, SMT DEF Room
  <1>2. ASSUME BootTypeOK, Room
        PROVE  DefaultClientsBounded
    <2>1. nclients \in Nat /\ Counted \in SUBSET Replicas
      BY <1>2, SMT DEF BootTypeOK, Counted
    <2>2. Cardinality(Counted) \in Nat /\ Cardinality(Replicas) \in Nat
      BY <2>1, CountedSets
    <2> QED BY <1>2, <2>1, <2>2, SMT DEF Room, DefaultClientsBounded
  <1> QED BY <1>1, <1>2, RoomKept, BootTypeCorrect, PTL DEF BootSpec

---------------------------------------------------------------------------
(* The listings: types                                                     *)

\* A row has a creation time and a status, whichever table it is of, and changing
\* the status changes nothing else.
LEMMA RowFacts ==
    ASSUME kind \in Kinds, NEW r \in TableRows[kind]
    PROVE  /\ r.at \in RowIds /\ r.flag \in BOOLEAN
           /\ [r EXCEPT !.flag = ~r.flag] \in TableRows[kind]
           /\ [r EXCEPT !.flag = ~r.flag].at = r.at
  <1> DEFINE f == [r EXCEPT !.flag = ~r.flag]
  <1>1. CASE kind = "clients"
    BY <1>1 DEF TableRows
  <1>2. CASE kind = "users"
    BY <1>2 DEF TableRows
  <1>3. CASE kind = "codes"
    BY <1>3 DEF TableRows
  <1>4. CASE kind = "tokens"
    BY <1>4 DEF TableRows
  <1> QED BY <1>1, <1>2, <1>3, <1>4 DEF Kinds

\* A row is in the table if its slot is neither free nor emptied.
LEMMA RowsTyped ==
    ASSUME ListTypeOK
    PROVE  \A i \in RowsOf(table) : i \in RowIds /\ table[i] \in TableRows[kind]
  BY DEF ListTypeOK, RowsOf

\* The listing of a request, by the kind of the table.
LEMMA ListedRow ==
    ASSUME ListTypeOK, NEW i \in RowsOf(table)
    PROVE  (\E q \in Queries[kind] : i \in Selected(table, q))
           <=> ~(kind = "tokens" /\ table[i].client = Absent)
  <1>0. table[i] \in TableRows[kind] /\ kind \in Kinds
    BY RowsTyped DEF ListTypeOK
  <1>1. CASE kind = "clients"
    <2> DEFINE q == [flag |-> table[i].flag]
    <2>1. q \in Queries[kind]
      BY <1>0, <1>1 DEF TableRows, Queries, ClientQueries
    <2>2. Filter(q) = [flag |-> table[i].flag]
      BY <1>0, <1>1, ListingAssumption DEF TableRows, Filter, ClientFilter, Given
    <2>3. i \in Selected(table, q)
      BY <2>2, SMT DEF Selected
    <2> QED BY <1>1, <2>1, <2>3
  <1>2. CASE kind = "users"
    <2> DEFINE q == [flag |-> table[i].flag, admin |-> table[i].admin]
    <2>1. q \in Queries[kind]
      BY <1>0, <1>2 DEF TableRows, Queries, UserQueries
    <2>2. Filter(q) = [flag |-> table[i].flag, admin |-> table[i].admin]
      BY <1>0, <1>2, ListingAssumption DEF TableRows, Filter, UserFilter, Given
    <2>3. i \in Selected(table, q)
      BY <2>2, SMT DEF Selected
    <2> QED BY <1>2, <2>1, <2>3
  <1>3. ASSUME kind = "codes" \/ (kind = "tokens" /\ table[i].client # Absent)
        PROVE  \E q \in Queries[kind] : i \in Selected(table, q)
    <2> DEFINE q == [client |-> table[i].client, user |-> table[i].user,
                     flag |-> table[i].flag]
    <2>1. q \in Queries[kind]
      <3>1. CASE kind = "codes"
        BY <1>0, <3>1 DEF TableRows, Queries, CodeQueries
      <3>2. CASE kind = "tokens"
        BY <1>0, <3>2 DEF TableRows, Queries, TokenQueries
      <3> QED BY <1>3, <3>1, <3>2
    <2>2. Filter(q) = [client |-> table[i].client, user |-> table[i].user,
                       flag |-> table[i].flag]
      <3>1. CASE kind = "codes"
        BY <1>0, <3>1, ListingAssumption DEF TableRows, Filter, CodeFilter, Given
      <3>2. CASE kind = "tokens"
        BY <1>0, <1>3, <3>2, ListingAssumption DEF TableRows, Filter, TokenFilter, Given
      <3> QED BY <1>3, <3>1, <3>2
    <2>3. i \in Selected(table, q)
      BY <2>2, SMT DEF Selected
    <2> QED BY <2>1, <2>3
  <1>4. ASSUME kind = "tokens", table[i].client = Absent, NEW q \in Queries[kind],
               i \in Selected(table, q)
        PROVE  FALSE
    <2>1. Filter(q).client # Absent /\ "client" \in DOMAIN Filter(q)
      BY <1>4, ListingAssumption DEF Queries, TokenQueries, Filter, TokenFilter, Given
    <2>2. table[i].client = Filter(q).client
      BY <1>4, <2>1 DEF Selected
    <2> QED BY <1>4, <2>1, <2>2
  <1> QED BY <1>0, <1>1, <1>2, <1>3, <1>4 DEF Kinds

\* The zero UUID, which an absent id becomes, is no row's.
LEMMA NamesBoth ==
    ASSUME ListTypeOK, kind \in {"codes", "tokens"}, NEW q \in Queries[kind],
           NEW i \in Selected(table, q)
    PROVE  q.client # Absent /\ q.user # Absent
  <1>1. i \in RowsOf(table) /\ table[i] \in TableRows[kind]
    BY RowsTyped DEF Selected
  <1>2. /\ "client" \in DOMAIN Filter(q) /\ "user" \in DOMAIN Filter(q)
        /\ Filter(q).client = Given(q.client, ZeroId) /\ Filter(q).user = Given(q.user, ZeroId)
    BY DEF Queries, CodeQueries, TokenQueries, Filter, CodeFilter, TokenFilter
  <1>3. table[i].client = Given(q.client, ZeroId) /\ table[i].user = Given(q.user, ZeroId)
    BY <1>2 DEF Selected
  <1>4. table[i].client \in Ids \cup {Absent} /\ table[i].user \in Ids
    <2>1. CASE kind = "codes"
      BY <1>1, <2>1 DEF TableRows
    <2>2. CASE kind = "tokens"
      BY <1>1, <2>2 DEF TableRows
    <2> QED BY <2>1, <2>2
  <1> QED BY <1>3, <1>4, ListingAssumption DEF Given

\* A walk keeps the fields of its record.
LEMMA WalkShape ==
    ASSUME ListTypeOK, walk.pc # "idle"
    PROVE  /\ walk.pc \in {"list", "count", "done"} /\ walk.q \in Queries[kind]
           /\ walk.limit \in Limits /\ walk.off \in Nat /\ walk.seen \subseteq RowIds
           /\ walk.kept \subseteq RowIds /\ walk.left \in Nat /\ walk.tied \in BOOLEAN
           /\ walk = [pc |-> walk.pc, q |-> walk.q, limit |-> walk.limit, off |-> walk.off,
                      seen |-> walk.seen, kept |-> walk.kept, left |-> walk.left,
                      tied |-> walk.tied]
  BY SMT DEF ListTypeOK, Walks, WalkIdle

\* What a walk may become.
LEMMA WalkTyped ==
    ASSUME kind \in Kinds, NEW p \in {"list", "count", "done"}, NEW q \in Queries[kind],
           NEW limit \in Limits, NEW off \in Nat, NEW seen \in SUBSET RowIds,
           NEW kept \in SUBSET RowIds, NEW left \in Nat, NEW tied \in BOOLEAN
    PROVE  [pc |-> p, q |-> q, limit |-> limit, off |-> off, seen |-> seen,
            kept |-> kept, left |-> left, tied |-> tied] \in Walks
  <1>1. q \in UNION {Queries[k] : k \in Kinds}
    OBVIOUS
  <1> QED BY <1>1 DEF Walks

\* A listing is a finite set of rows.
LEMMA SelectedFinite ==
    ASSUME NEW t, NEW q
    PROVE  /\ Selected(t, q) \subseteq RowIds /\ IsFiniteSet(Selected(t, q))
           /\ Cardinality(Selected(t, q)) \in Nat
           /\ Cardinality(Selected(t, q)) <= Cardinality(RowIds)
  <1>1. Selected(t, q) \in SUBSET RowIds
    BY DEF Selected, RowsOf
  <1> QED BY <1>1, FS_Subset, FS_CardinalityType, ListingAssumption

\* Whoever else works on the table inserts, changes or deletes one row, x, and never
\* moves a row to another time.
OneRow(x) ==
    /\ \A i \in RowIds \ {x} : table'[i] = table[i]
    /\ table[x] \notin {Absent, Gone} /\ table'[x] \notin {Absent, Gone} =>
          table'[x].at = table[x].at
    /\ walk' = Watched(table')
    /\ UNCHANGED kind

\* The three statements that do.
LEMMA ChangesOneRow ==
    ASSUME ListTypeOK, InsertRow \/ ChangeStatus \/ DeleteRow
    PROVE  /\ table' \in [RowIds -> TableRows[kind] \cup {Absent, Gone}]
           /\ \E x \in RowIds : OneRow(x)
  <1>0. kind \in Kinds /\ table \in [RowIds -> TableRows[kind] \cup {Absent, Gone}]
    BY DEF ListTypeOK
  <1>1. CASE InsertRow
    <2>1. PICK i \in RowIds, r \in TableRows[kind] :
             table[i] = Absent /\ Changes([table EXCEPT ![i] = r])
      BY <1>1 DEF InsertRow
    <2>2. table' = [table EXCEPT ![i] = r] /\ walk' = Watched(table') /\ UNCHANGED kind
      BY <2>1 DEF Changes
    <2>3. OneRow(i)
      BY <1>0, <2>1, <2>2 DEF OneRow
    <2> QED BY <1>0, <2>1, <2>2, <2>3
  <1>2. CASE ChangeStatus
    <2>1. PICK i \in RowsOf(table) : Changes([table EXCEPT ![i].flag = ~@])
      BY <1>2 DEF ChangeStatus
    <2> DEFINE r == [table[i] EXCEPT !.flag = ~table[i].flag]
    <2>2. i \in RowIds /\ table[i] \in TableRows[kind]
      BY <2>1, RowsTyped
    <2>3. r \in TableRows[kind] /\ r.at = table[i].at
      BY <1>0, <2>2, RowFacts
    <2>4. table' = [table EXCEPT ![i] = r] /\ walk' = Watched(table') /\ UNCHANGED kind
      BY <2>1 DEF Changes
    <2> HIDE DEF r
    <2>5. OneRow(i)
      BY <1>0, <2>2, <2>3, <2>4 DEF OneRow
    <2> QED BY <1>0, <2>2, <2>3, <2>4, <2>5
  <1>3. CASE DeleteRow
    <2>1. PICK i \in RowsOf(table) : Changes([table EXCEPT ![i] = Gone])
      BY <1>3 DEF DeleteRow
    <2>2. i \in RowIds
      BY DEF RowsOf
    <2>3. table' = [table EXCEPT ![i] = Gone] /\ walk' = Watched(table') /\ UNCHANGED kind
      BY <2>1 DEF Changes
    <2>4. OneRow(i)
      BY <1>0, <2>2, <2>3 DEF OneRow
    <2> QED BY <1>0, <2>2, <2>3, <2>4
  <1> QED BY <1>1, <1>2, <1>3

\* What such a change is to a walk that is under way.
LEMMA WatchedWalk ==
    ASSUME ListTypeOK, walk.pc \in {"list", "count"}, NEW t
    PROVE  LET S == Selected(table, walk.q)
               T == Selected(t, walk.q)
           IN  /\ Cardinality(S \ T) \in Nat
               /\ Watched(t) = [pc |-> walk.pc, q |-> walk.q, limit |-> walk.limit,
                                off |-> walk.off, seen |-> walk.seen,
                                kept |-> walk.kept \cap T,
                                left |-> walk.left + Cardinality(S \ T), tied |-> walk.tied]
  <1> DEFINE S == Selected(table, walk.q)
             T == Selected(t, walk.q)
  <1>1. Cardinality(S \ T) \in Nat
    <2>1. IsFiniteSet(S \ T)
      BY SelectedFinite, FS_Difference
    <2> QED BY <2>1, FS_CardinalityType
  <1>2. Watched(t) = [walk EXCEPT !.kept = walk.kept \cap T,
                                  !.left = walk.left + Cardinality(S \ T)]
    BY DEF Watched
  <1> HIDE DEF S, T
  <1>3. Watched(t) = [pc |-> walk.pc, q |-> walk.q, limit |-> walk.limit,
                      off |-> walk.off, seen |-> walk.seen,
                      kept |-> walk.kept \cap T,
                      left |-> walk.left + Cardinality(S \ T), tied |-> walk.tied]
    BY <1>2, WalkShape
  <1> QED BY <1>1, <1>3 DEF S, T

\* A page is read, or refused.
LEMMA PageRead ==
    ASSUME ListTypeOK, ListPage
    PROVE  /\ walk.pc = "list" /\ UNCHANGED <<kind, table>>
           /\ \/ walk' = WalkIdle
              \/ /\ Int32(walk.off) >= 0
                 /\ \E s \in Ordered(Selected(table, walk.q)), b \in BOOLEAN :
                    /\ ~b => ~walk.tied /\ \A i, j \in Selected(table, walk.q) :
                                              table[i].at = table[j].at => i = j
                    /\ walk' = [pc |-> "count", q |-> walk.q, limit |-> walk.limit,
                                off |-> walk.off + walk.limit,
                                seen |-> walk.seen \cup Page(s, walk.limit, Int32(walk.off)),
                                kept |-> walk.kept, left |-> walk.left, tied |-> b]
  <1>1. walk.pc = "list" /\ UNCHANGED <<kind, table>>
    BY DEF ListPage
  <1>2. CASE walk' = WalkIdle
    BY <1>1, <1>2
  <1>3. CASE walk' # WalkIdle
    <2> DEFINE S == Selected(table, walk.q)
               b == walk.tied \/ \E i, j \in S : i # j /\ table[i].at = table[j].at
    <2>1. PICK s \in Ordered(S) :
             walk' = [walk EXCEPT !.pc = "count", !.off = walk.off + walk.limit,
                                  !.seen = walk.seen \cup Page(s, walk.limit, Int32(walk.off)),
                                  !.tied = b]
      BY <1>3 DEF ListPage
    <2>2. Int32(walk.off) >= 0
      BY <1>3 DEF ListPage
    <2>3. b \in BOOLEAN
      BY <1>1, WalkShape
    <2>4. ~b => ~walk.tied /\ \A i, j \in S : table[i].at = table[j].at => i = j
      OBVIOUS
    <2> HIDE DEF b, S
    <2>5. walk' = [pc |-> "count", q |-> walk.q, limit |-> walk.limit,
                   off |-> walk.off + walk.limit,
                   seen |-> walk.seen \cup Page(s, walk.limit, Int32(walk.off)),
                   kept |-> walk.kept, left |-> walk.left, tied |-> b]
      BY <1>1, <2>1, WalkShape
    <2> QED BY <1>1, <2>1, <2>2, <2>3, <2>4, <2>5 DEF S
  <1> QED BY <1>2, <1>3

\* A listing in order: a numbering of its rows.
LEMMA OrderedShape ==
    ASSUME NEW q, NEW s \in Ordered(Selected(table, q))
    PROVE  LET S == Selected(table, q)
               n == Cardinality(S)
           IN  /\ n \in Nat /\ s \in [1 .. n -> S] /\ Len(s) = n
               /\ \A i, j \in 1 .. n : i # j => s[i] # s[j]
               /\ \A i, j \in 1 .. n : i < j => table[s[i]].at >= table[s[j]].at
               /\ \A x \in S : \E i \in 1 .. n : s[i] = x
  <1> DEFINE S == Selected(table, q)
             n == Cardinality(S)
  <1>1. IsFiniteSet(S) /\ n \in Nat
    BY SelectedFinite
  <1>2. s \in [1 .. n -> S] /\ \A i, j \in 1 .. n : i # j => s[i] # s[j]
    BY DEF Ordered, Injection, IsInjective
  <1>3. s \in Ordered(S)
    OBVIOUS
  <1> HIDE DEF S, n
  <1>4. Len(s) = n
    BY <1>1, <1>2, SMT
  <1>5. \A i, j \in 1 .. n : i < j => table[s[i]].at >= table[s[j]].at
    BY <1>3, <1>4 DEF Ordered
  <1>6. s \in Injection(1 .. n, S)
    BY <1>2 DEF Injection, IsInjective
  <1>7. IsFiniteSet(1 .. n) /\ Cardinality(1 .. n) = n
    BY <1>1, FS_Interval, SMT
  <1>8. s \in Surjection(1 .. n, S)
    BY <1>1, <1>6, <1>7, FS_Injection DEF n
  <1>9. \A x \in S : \E i \in 1 .. n : s[i] = x
    BY <1>8 DEF Surjection
  <1> QED BY <1>1, <1>2, <1>4, <1>5, <1>9 DEF S, n

\* A page is made of rows of the listing.
LEMMA PageRows ==
    ASSUME NEW q, NEW s \in Ordered(Selected(table, q)), NEW limit, NEW off
    PROVE  Page(s, limit, off) \subseteq RowIds
  BY OrderedShape, SelectedFinite, SMT DEF Page

\* ListTypeOK is inductive.
LEMMA ListTypeStep ==
    ASSUME ListTypeOK, ListNext
    PROVE  ListTypeOK'
  <1>0. /\ kind \in Kinds /\ table \in [RowIds -> TableRows[kind] \cup {Absent, Gone}]
        /\ WalkIdle \in Walks /\ WalkIdle.pc = "idle"
    BY DEF ListTypeOK, Walks, WalkIdle
  <1>1. ASSUME UNCHANGED <<kind, table>>, walk' = WalkIdle
        PROVE  ListTypeOK'
    BY <1>0, <1>1 DEF ListTypeOK
  <1>2. ASSUME kind' = kind, table' \in [RowIds -> TableRows[kind] \cup {Absent, Gone}],
               walk' \in Walks, walk'.q \in Queries[kind]
        PROVE  ListTypeOK'
    BY <1>0, <1>2 DEF ListTypeOK
  <1>3. CASE Start
    <2>1. PICK q \in Queries[kind], l \in Limits, o \in Offsets :
             walk' = [pc |-> "list", q |-> q, limit |-> l, off |-> o, seen |-> {},
                      kept |-> IF o = 0 THEN Selected(table, q) ELSE {},
                      left |-> 0, tied |-> FALSE]
      BY <1>3 DEF Start
    <2>2. (IF o = 0 THEN Selected(table, q) ELSE {}) \in SUBSET RowIds /\ o \in Nat
      BY SelectedFinite, ListingAssumption
    <2>3. walk' \in Walks
      BY <1>0, <2>1, <2>2, WalkTyped
    <2> QED BY <1>0, <1>2, <1>3, <2>1, <2>3 DEF Start
  <1>4. CASE ListPage
    <2>1. ASSUME NEW s \in Ordered(Selected(table, walk.q)), NEW b \in BOOLEAN,
                 walk' = [pc |-> "count", q |-> walk.q, limit |-> walk.limit,
                          off |-> walk.off + walk.limit,
                          seen |-> walk.seen \cup Page(s, walk.limit, Int32(walk.off)),
                          kept |-> walk.kept, left |-> walk.left, tied |-> b],
                 walk.pc = "list", UNCHANGED <<kind, table>>
          PROVE  ListTypeOK'
      <3> DEFINE more == walk.seen \cup Page(s, walk.limit, Int32(walk.off))
      <3>1. more \in SUBSET RowIds
        BY <2>1, WalkShape, PageRows
      <3> HIDE DEF more
      <3>2. walk.off + walk.limit \in Nat
        BY <2>1, WalkShape, ListingAssumption, SMTT(30)
      <3>3. walk' \in Walks /\ walk'.q = walk.q
        BY <1>0, <2>1, <3>1, <3>2, WalkShape, WalkTyped, ZenonT(30) DEF more
      <3> QED BY <1>0, <1>2, <2>1, <3>3, WalkShape
    <2> QED BY <1>1, <1>4, <2>1, PageRead
  <1>5. CASE CountRows
    <2>1. PICK p \in {"list", "done"} : walk' = [walk EXCEPT !.pc = p]
      BY <1>5 DEF CountRows
    <2>2. walk' = [pc |-> p, q |-> walk.q, limit |-> walk.limit, off |-> walk.off,
                   seen |-> walk.seen, kept |-> walk.kept, left |-> walk.left,
                   tied |-> walk.tied]
      BY <1>5, <2>1, WalkShape DEF CountRows
    <2>3. walk' \in Walks /\ walk'.q = walk.q
      BY <1>0, <1>5, <2>2, WalkShape, WalkTyped, SMTT(30) DEF CountRows
    <2> QED BY <1>0, <1>2, <1>5, <2>3, WalkShape DEF CountRows
  <1>6. CASE ListFails
    BY <1>1, <1>6 DEF ListFails
  <1>7. CASE InsertRow \/ ChangeStatus \/ DeleteRow
    <2>1. /\ table' \in [RowIds -> TableRows[kind] \cup {Absent, Gone}]
          /\ walk' = Watched(table') /\ UNCHANGED kind
      BY <1>7, ChangesOneRow DEF OneRow
    <2>2. CASE walk.pc \in {"list", "count"}
      <3> DEFINE T == Selected(table', walk.q)
                 n == Cardinality(Selected(table, walk.q) \ T)
      <3>0. /\ n \in Nat
            /\ walk' = [pc |-> walk.pc, q |-> walk.q, limit |-> walk.limit, off |-> walk.off,
                        seen |-> walk.seen, kept |-> walk.kept \cap T,
                        left |-> walk.left + n, tied |-> walk.tied]
        BY <2>1, <2>2, WatchedWalk
      <3> HIDE DEF T, n
      <3>1. /\ walk.pc \in {"list", "count", "done"} /\ walk.q \in Queries[kind]
            /\ walk.limit \in Limits /\ walk.off \in Nat /\ walk.seen \in SUBSET RowIds
            /\ walk.kept \cap T \in SUBSET RowIds /\ walk.left + n \in Nat
            /\ walk.tied \in BOOLEAN
        BY <2>2, <3>0, WalkShape, SMT
      <3>2. walk' \in Walks /\ walk'.q = walk.q
        BY <1>0, <3>0, <3>1, WalkTyped, ZenonT(30)
      <3> QED BY <1>2, <2>1, <2>2, <3>2, WalkShape
    <2>3. CASE walk.pc \notin {"list", "count"}
      BY <2>1, <2>3 DEF Watched, ListTypeOK
    <2> QED BY <2>2, <2>3
  <1> QED BY <1>3, <1>4, <1>5, <1>6, <1>7 DEF ListNext

---------------------------------------------------------------------------
(* The listings: what a walk misses                                        *)

\* The place of a row on the listing, if no two rows share a time.
Above(i) == {j \in Selected(table, walk.q) : table[j].at >= table[i].at}
Place(i) == Cardinality(Above(i))

\* The rows that the walk should show and has passed without showing them.
Passed == {i \in walk.kept \ walk.seen : Place(i) <= walk.off}

\* The inductive form: a row that leaves the listing lets at most one other slip
\* past the offset, and the offset of the next page is still a number of 32 bits.
WalkSafe ==
    walk.pc \in {"list", "count"} /\ ~walk.tied =>
        /\ walk.kept \subseteq Selected(table, walk.q)
        /\ walk.off = 0 \/ \A i, j \in walk.kept : table[i].at = table[j].at => i = j
        /\ Cardinality(Passed) <= walk.left
        /\ walk.pc = "list" /\ walk.kept # {} => walk.off < 2^(IntWidth - 1)

\* Places are numbers, from 1 to the length of the listing.
LEMMA PlaceType ==
    ASSUME NEW i \in Selected(table, walk.q), table[i].at \in Nat
    PROVE  /\ IsFiniteSet(Above(i)) /\ Place(i) \in Nat \ {0}
           /\ Place(i) <= Cardinality(Selected(table, walk.q))
  <1>1. Above(i) \in SUBSET Selected(table, walk.q) /\ i \in Above(i)
    BY SMT DEF Above
  <1>2. IsFiniteSet(Above(i)) /\ Place(i) <= Cardinality(Selected(table, walk.q))
    BY <1>1, SelectedFinite, FS_Subset DEF Place
  <1>3. Place(i) \in Nat /\ Place(i) # 0
    BY <1>1, <1>2, FS_CardinalityType, FS_EmptySet DEF Place
  <1> QED BY <1>2, <1>3

\* Passed is a finite set.
LEMMA PassedFinite ==
    ASSUME ListTypeOK, walk.pc # "idle"
    PROVE  IsFiniteSet(Passed) /\ Cardinality(Passed) \in Nat
  <1>1. Passed \in SUBSET RowIds
    BY WalkShape DEF Passed
  <1>2. IsFiniteSet(Passed)
    BY <1>1, FS_Subset, ListingAssumption
  <1> QED BY <1>2, FS_CardinalityType

\* Rows that are listed have times.
LEMMA TimesTyped ==
    ASSUME ListTypeOK, NEW q
    PROVE  \A i \in Selected(table, q) : table[i].at \in Nat
  <1> SUFFICES ASSUME NEW i \in Selected(table, q) PROVE table[i].at \in Nat
    OBVIOUS
  <1>1. table[i] \in TableRows[kind] /\ kind \in Kinds
    BY RowsTyped DEF Selected, ListTypeOK
  <1>2. table[i].at \in RowIds
    BY <1>1, RowFacts
  <1> QED BY <1>2, FS_CardinalityType, ListingAssumption, SMT

\* In an order without ties, a row is at its place.
LEMMA AtItsPlace ==
    ASSUME ListTypeOK, NEW s \in Ordered(Selected(table, walk.q)),
           \A i, j \in Selected(table, walk.q) : table[i].at = table[j].at => i = j,
           NEW i \in Selected(table, walk.q)
    PROVE  Place(i) \in 1 .. Len(s) /\ s[Place(i)] = i
  <1> DEFINE S == Selected(table, walk.q)
             n == Cardinality(S)
  <1>1. /\ n \in Nat /\ s \in [1 .. n -> S] /\ Len(s) = n
        /\ \A k, l \in 1 .. n : k # l => s[k] # s[l]
        /\ \A k, l \in 1 .. n : k < l => table[s[k]].at >= table[s[l]].at
        /\ \A x \in S : \E k \in 1 .. n : s[k] = x
    BY OrderedShape, SMT
  <1>2. \A x \in S : table[x].at \in Nat
    BY TimesTyped
  <1>3. Above(i) = {j \in S : table[j].at >= table[i].at}
    BY DEF Above
  <1>4. \A x, y \in S : table[x].at = table[y].at => x = y
    OBVIOUS
  <1>5. i \in S
    OBVIOUS
  <1> HIDE DEF S, n
  <1>6. PICK p \in 1 .. n : s[p] = i
    BY <1>1, <1>5
  <1>7. ASSUME NEW k \in 1 .. p
        PROVE  s[k] \in Above(i)
    BY <1>1, <1>2, <1>3, <1>5, <1>6, <1>7, SMTT(30)
  <1>8. ASSUME NEW j \in Above(i)
        PROVE  \E k \in 1 .. p : s[k] = j
    <2>1. PICK k \in 1 .. n : s[k] = j
      BY <1>1, <1>3, <1>8
    <2>2. k > p => FALSE
      <3> SUFFICES ASSUME k > p PROVE FALSE
        OBVIOUS
      <3>1. table[i].at >= table[j].at /\ table[j].at >= table[i].at /\ j \in S
        BY <1>1, <1>3, <1>6, <1>8, <2>1
      <3>2. j = i
        BY <1>2, <1>4, <1>5, <3>1, SMTT(30)
      <3> QED BY <1>1, <1>6, <2>1, <3>2, SMT
    <2> QED BY <1>1, <1>6, <2>1, <2>2, SMT
  <1> DEFINE f == [k \in 1 .. p |-> s[k]]
  <1>9. f \in [1 .. p -> Above(i)] /\ \A k, l \in 1 .. p : f[k] = f[l] => k = l
    BY <1>1, <1>6, <1>7, SMT
  <1>10. \A j \in Above(i) : \E k \in 1 .. p : f[k] = j
    BY <1>8
  <1> HIDE DEF f
  <1>11. f \in Bijection(1 .. p, Above(i))
    BY <1>9, <1>10 DEF Bijection, Injection, IsInjective, Surjection
  <1>12. ExistsBijection(1 .. p, Above(i))
    BY <1>11 DEF ExistsBijection
  <1>13. IsFiniteSet(1 .. p) /\ Cardinality(1 .. p) = p
    BY <1>1, <1>6, FS_Interval, SMT
  <1>14. Place(i) = p
    BY <1>12, <1>13, FS_Bijection DEF Place
  <1> QED BY <1>1, <1>6, <1>14

\* The conversion of an offset that fits changes nothing.
LEMMA OffsetFits ==
    ASSUME NEW o \in Nat, o < 2^(IntWidth - 1)
    PROVE  Int32(o) = o
  <1> DEFINE h == 2^(IntWidth - 1)
  <1>1. h \in Nat \ {0} /\ 2^IntWidth = 2 * h
    BY WidthAssumption
  <1>2. Int32(o) = IF o % (2 * h) < h THEN o % (2 * h) ELSE (o % (2 * h)) - 2 * h
    BY <1>1 DEF Int32
  <1>3. o < h
    OBVIOUS
  <1> HIDE DEF h
  <1>4. o % (2 * h) = o
    BY <1>1, <1>3, SMT
  <1> QED BY <1>2, <1>3, <1>4

\* A page shows every row whose place is on it.
LEMMA PageShows ==
    ASSUME ListTypeOK, walk.pc # "idle", NEW s \in Ordered(Selected(table, walk.q)),
           \A i, j \in Selected(table, walk.q) : table[i].at = table[j].at => i = j,
           NEW i \in Selected(table, walk.q),
           walk.off < Place(i), Place(i) <= walk.off + walk.limit
    PROVE  i \in Page(s, walk.limit, walk.off)
  <1>1. Place(i) \in 1 .. Len(s) /\ s[Place(i)] = i
    BY AtItsPlace
  <1> QED BY <1>1 DEF Page

\* A change of one row moves the others by at most one place, and downwards only if
\* the row left.
LEMMA PlaceMoves ==
    ASSUME ListTypeOK, ListTypeOK', walk.pc \in {"list", "count"}, NEW x \in RowIds, OneRow(x)
    PROVE  LET S == Selected(table, walk.q)
               T == Selected(table', walk.q)
           IN  /\ walk'.q = walk.q /\ Selected(table, walk.q)' = T
               /\ S \ T \subseteq {x}
               /\ \A i \in S \cap T :
                     /\ table'[i].at = table[i].at
                     /\ Place(i)' >= Place(i) - Cardinality(S \ T)
  <1> DEFINE S == Selected(table, walk.q)
             T == Selected(table', walk.q)
  <1>1. walk'.q = walk.q /\ kind' = kind
    <2> DEFINE n == Cardinality(S \ T)
    <2>1. walk' = Watched(table') /\ kind' = kind
      BY DEF OneRow
    <2>2. Watched(table') = [pc |-> walk.pc, q |-> walk.q, limit |-> walk.limit,
                             off |-> walk.off, seen |-> walk.seen, kept |-> walk.kept \cap T,
                             left |-> walk.left + n, tied |-> walk.tied]
      BY WatchedWalk
    <2> HIDE DEF n, T
    <2> QED BY <2>1, <2>2, SMT
  <1>2. Selected(table, walk.q)' = T
    BY <1>1 DEF Selected, Filter, RowsOf
  <1>3. \A i \in RowIds \ {x} : table'[i] = table[i] /\ (i \in S <=> i \in T)
    BY DEF OneRow, Selected, RowsOf
  <1>4. S \subseteq RowIds /\ T \subseteq RowIds /\ IsFiniteSet(S) /\ IsFiniteSet(T)
    BY SelectedFinite
  <1>5. ASSUME NEW i \in S \cap T
        PROVE  table'[i].at = table[i].at
    <2>1. table[i] \notin {Absent, Gone} /\ table'[i] \notin {Absent, Gone}
      BY DEF Selected, RowsOf
    <2> QED BY <1>3, <1>4, <2>1 DEF OneRow
  <1>6. \A i \in S : Above(i) = {j \in S : table[j].at >= table[i].at}
    BY DEF Above
  <1>7. \A i \in T : Above(i)' = {j \in T : table'[j].at >= table'[i].at}
    BY <1>1, <1>2 DEF Above
  <1>8. /\ \A i \in S : table[i].at \in Nat
        /\ \A i \in T : table'[i].at \in Nat
    <2>1. \A i \in S : table[i].at \in Nat
      BY TimesTyped
    <2>2. \A i \in T : table'[i].at \in Nat
      <3> SUFFICES ASSUME NEW i \in T PROVE table'[i].at \in Nat
        OBVIOUS
      <3>1. i \in RowIds /\ table'[i] \in TableRows[kind]
        BY <1>1 DEF Selected, RowsOf, ListTypeOK
      <3>2. table'[i].at \in RowIds
        BY <3>1, RowFacts DEF ListTypeOK
      <3> QED BY <3>2, FS_CardinalityType, ListingAssumption, SMT
    <2> QED BY <2>1, <2>2
  <1> HIDE DEF S, T
  <1>9. ASSUME NEW i \in S \cap T
        PROVE  Place(i)' >= Place(i) - Cardinality(S \ T)
    <2>1. Above(i) \subseteq Above(i)' \cup (S \ T)
      BY <1>5, <1>6, <1>7, <1>9
    <2>2. IsFiniteSet(Above(i)') /\ IsFiniteSet(Above(i)) /\ IsFiniteSet(S \ T)
      <3>1. Above(i)' \in SUBSET T /\ Above(i) \in SUBSET S
        BY <1>6, <1>7, <1>9
      <3> QED BY <1>4, <3>1, FS_Subset, FS_Difference
    <2> DEFINE A == Above(i)
               B == Above(i)'
               D == S \ T
    <2>3. Place(i) = Cardinality(A) /\ Place(i)' = Cardinality(B)
      BY DEF Place
    <2> HIDE DEF A, B, D
    <2>4. /\ IsFiniteSet(B \cup D) /\ IsFiniteSet(B \cap D)
          /\ Cardinality(B \cup D) = Cardinality(B) + Cardinality(D) - Cardinality(B \cap D)
      BY <2>2, FS_Union, FS_Intersection DEF A, B, D
    <2>5. Cardinality(A) <= Cardinality(B \cup D)
      BY <2>1, <2>4, FS_Subset DEF A, B, D
    <2>6. /\ Cardinality(A) \in Nat /\ Cardinality(B) \in Nat /\ Cardinality(D) \in Nat
          /\ Cardinality(B \cap D) \in Nat
      BY <2>2, <2>4, FS_CardinalityType DEF A, B, D
    <2>7. Cardinality(B) >= Cardinality(A) - Cardinality(D)
      BY <2>4, <2>5, <2>6, SMT
    <2> QED BY <2>3, <2>7 DEF D
  <1>10. S \ T \subseteq {x}
    BY <1>3, <1>4
  <1> QED BY <1>1, <1>2, <1>5, <1>9, <1>10 DEF S, T

\* Rows at the same place have the same time.
LEMMA SamePlace ==
    ASSUME ListTypeOK, NEW i \in Selected(table, walk.q), NEW j \in Selected(table, walk.q),
           Place(i) = Place(j)
    PROVE  table[i].at = table[j].at
  <1>1. \A k \in Selected(table, walk.q) : table[k].at \in Nat
    BY TimesTyped
  <1>2. ASSUME NEW k \in Selected(table, walk.q), NEW l \in Selected(table, walk.q),
               table[k].at > table[l].at
        PROVE  Place(k) < Place(l)
    <2>1. Above(k) \in SUBSET (Above(l) \ {l}) /\ l \in Above(l)
      BY <1>1, <1>2, SMTT(30) DEF Above
    <2>2. IsFiniteSet(Above(l)) /\ Place(l) \in Nat \ {0} /\ Place(k) \in Nat
      BY <1>1, PlaceType
    <2>3. IsFiniteSet(Above(l) \ {l}) /\ Cardinality(Above(l) \ {l}) = Place(l) - 1
      BY <2>1, <2>2, FS_RemoveElement, ZenonT(30) DEF Place
    <2>4. Place(k) <= Cardinality(Above(l) \ {l})
      BY <2>1, <2>3, FS_Subset DEF Place
    <2> QED BY <2>2, <2>3, <2>4, SMTT(30)
  <1>3. Place(i) \in Nat /\ Place(j) \in Nat
    BY <1>1, PlaceType
  <1> QED BY <1>1, <1>2, <1>3, SMT

\* A change of one row.
LEMMA WalkChange ==
    ASSUME ListTypeOK, ListTypeOK', WalkSafe, NEW x \in RowIds, OneRow(x)
    PROVE  WalkSafe'
  <1> SUFFICES ASSUME walk.pc \in {"list", "count"}, ~walk.tied
               PROVE  WalkSafe'
    <2>1. CASE walk.pc \in {"list", "count"}
      <3>1. walk'.tied = walk.tied
        <4> DEFINE T == Selected(table', walk.q)
                   n == Cardinality(Selected(table, walk.q) \ T)
        <4>1. walk' = [pc |-> walk.pc, q |-> walk.q, limit |-> walk.limit, off |-> walk.off,
                       seen |-> walk.seen, kept |-> walk.kept \cap T,
                       left |-> walk.left + n, tied |-> walk.tied]
          BY <2>1, WatchedWalk DEF OneRow
        <4> HIDE DEF T, n
        <4> QED BY <4>1
      <3> QED BY <2>1, <3>1 DEF WalkSafe
    <2>2. CASE walk.pc \notin {"list", "count"}
      BY <2>2 DEF OneRow, Watched, WalkSafe
    <2> QED BY <2>1, <2>2
  <1> DEFINE S == Selected(table, walk.q)
             T == Selected(table', walk.q)
             n == Cardinality(S \ T)
  <1>1. /\ Selected(table, walk.q)' = T /\ S \ T \subseteq {x}
        /\ \A i \in S \cap T : table'[i].at = table[i].at /\ Place(i)' >= Place(i) - n
    BY PlaceMoves
  <1>2. /\ n \in Nat
        /\ walk' = [pc |-> walk.pc, q |-> walk.q, limit |-> walk.limit, off |-> walk.off,
                    seen |-> walk.seen, kept |-> walk.kept \cap T,
                    left |-> walk.left + n, tied |-> walk.tied]
    BY WatchedWalk DEF OneRow
  <1>3. /\ walk.kept \subseteq S
        /\ walk.off = 0 \/ \A i, j \in walk.kept : table[i].at = table[j].at => i = j
        /\ Cardinality(Passed) <= walk.left
        /\ walk.pc = "list" /\ walk.kept # {} => walk.off < 2^(IntWidth - 1)
    BY DEF WalkSafe
  <1>4. \A i \in S : Place(i) \in Nat \ {0}
    BY TimesTyped, PlaceType
  <1>5. \A i \in T : Place(i)' \in Nat \ {0}
    <2>1. \A i \in T : table'[i].at \in Nat
      <3>1. \A i \in Selected(table, walk.q)' : table'[i].at \in Nat
        <4>1. ASSUME NEW i \in Selected(table, walk.q)' PROVE table'[i].at \in Nat
          <5>1. i \in RowIds /\ table'[i] \in TableRows[kind] /\ kind \in Kinds
            BY <4>1 DEF Selected, RowsOf, ListTypeOK, OneRow
          <5>2. table'[i].at \in RowIds
            BY <5>1, RowFacts
          <5> QED BY <5>2, FS_CardinalityType, ListingAssumption, SMT
        <4> QED BY <4>1
      <3> QED BY <1>1, <3>1
    <2> SUFFICES ASSUME NEW i \in T PROVE Place(i)' \in Nat \ {0}
      OBVIOUS
    <2>2. Above(i)' \in SUBSET T /\ i \in Above(i)'
      BY <1>1, <2>1, SMT DEF Above
    <2>3. IsFiniteSet(Above(i)')
      BY <2>2, SelectedFinite, FS_Subset
    <2> HIDE DEF T
    <2> DEFINE A == Above(i)'
    <2>4. Place(i)' = Cardinality(A)
      BY DEF Place
    <2>5. IsFiniteSet(A) /\ i \in A
      BY <2>2, <2>3
    <2> HIDE DEF A
    <2>6. Cardinality(A) \in Nat /\ Cardinality(A) # 0
      BY <2>5, FS_CardinalityType, FS_EmptySet
    <2> QED BY <2>4, <2>6
  <1>6. /\ IsFiniteSet(Passed) /\ Cardinality(Passed) \in Nat
        /\ IsFiniteSet(Passed') /\ Cardinality(Passed') \in Nat
    <2>1. walk'.kept \subseteq RowIds
      <3> HIDE DEF T, n
      <3> QED BY <1>2, WalkShape
    <2>2. Passed' \in SUBSET RowIds
      BY <2>1 DEF Passed
    <2>3. IsFiniteSet(Passed')
      BY <2>2, FS_Subset, ListingAssumption
    <2> QED BY <2>3, PassedFinite, FS_CardinalityType
  <1>7. walk.off \in Nat /\ walk.left \in Nat
    BY WalkShape
  <1>8. n = 0 \/ n = 1
    <2>1. S \ T = {} \/ S \ T = {x}
      BY <1>1
    <2> QED BY <2>1, FS_EmptySet, FS_Singleton
  <1>9. \A i, j \in S : Place(i) = Place(j) => table[i].at = table[j].at
    BY SamePlace
  <1>10. Passed = {i \in walk.kept \ walk.seen : Place(i) <= walk.off}
    BY DEF Passed
  <1> HIDE DEF S, T, n
  <1>11. Passed' = {i \in (walk.kept \cap T) \ walk.seen : Place(i)' <= walk.off}
    BY <1>2 DEF Passed
  <1>12. \A i \in Passed' : i \in S \cap T /\ i \in walk.kept \ walk.seen /\ Place(i)' <= walk.off
    BY <1>3, <1>11
  <1>13. Cardinality(Passed') <= Cardinality(Passed) + n
    <2>1. CASE walk.off = 0
      <3>1. Passed' = {}
        BY <1>5, <1>12, <2>1, SMTT(30)
      <3>2. Cardinality(Passed') = 0
        BY <3>1, FS_EmptySet
      <3> QED BY <1>2, <1>6, <3>2, SMTT(30)
    <2>2. CASE Passed' \subseteq Passed
      <3>1. Cardinality(Passed') <= Cardinality(Passed)
        BY <1>6, <2>2, FS_Subset
      <3> QED BY <1>2, <1>6, <3>1, SMT
    <2>3. CASE walk.off # 0 /\ ~(Passed' \subseteq Passed)
      <3>1. PICK y \in Passed' : y \notin Passed
        BY <2>3
      <3>2. ASSUME NEW i \in Passed', i \notin Passed
            PROVE  n = 1 /\ Place(i) = walk.off + 1
        <4>1. /\ i \in S \cap T /\ i \in walk.kept \ walk.seen /\ Place(i)' <= walk.off
              /\ Place(i) \in Nat /\ Place(i)' \in Nat /\ Place(i)' >= Place(i) - n
          BY <1>1, <1>4, <1>5, <1>12
        <4>2. ~(Place(i) <= walk.off)
          BY <1>10, <3>2, <4>1
        <4> QED BY <1>7, <1>8, <4>1, <4>2, SMTT(30)
      <3>3. \A i \in Passed' : i \notin Passed => i = y
        BY <1>3, <1>9, <1>12, <2>3, <3>1, <3>2, SMTT(30)
      <3>4. Passed' \in SUBSET (Passed \cup {y})
        BY <3>3
      <3>5. /\ IsFiniteSet(Passed \cup {y})
            /\ Cardinality(Passed \cup {y}) = Cardinality(Passed) + 1
        BY <1>6, <3>1, FS_AddElement
      <3>6. Cardinality(Passed') <= Cardinality(Passed \cup {y})
        BY <3>4, <3>5, FS_Subset
      <3>7. n = 1
        BY <3>1, <3>2
      <3> QED BY <3>5, <3>6, <3>7
    <2> QED BY <2>1, <2>2, <2>3, ZenonT(30)
  <1>14. Cardinality(Passed') <= walk.left + n
    BY <1>2, <1>3, <1>6, <1>7, <1>13, SMTT(30)
  <1>15. /\ walk'.pc = walk.pc /\ walk'.off = walk.off /\ walk'.kept = walk.kept \cap T
         /\ walk'.left = walk.left + n
    BY <1>2
  <1>16. walk'.off = 0 \/ \A i, j \in walk'.kept : table'[i].at = table'[j].at => i = j
    BY <1>1, <1>3, <1>15
  <1> QED BY <1>1, <1>3, <1>14, <1>15, <1>16 DEF WalkSafe

\* A page is read: the rows that the offset passes are those that the page shows.
LEMMA WalkPage ==
    ASSUME ListTypeOK, WalkSafe, ListPage
    PROVE  WalkSafe'
  <1>1. CASE walk' = WalkIdle
    BY <1>1 DEF WalkIdle, WalkSafe
  <1>2. ASSUME NEW s \in Ordered(Selected(table, walk.q)), NEW b \in BOOLEAN,
               ~b => ~walk.tied /\ \A i, j \in Selected(table, walk.q) :
                                      table[i].at = table[j].at => i = j,
               walk' = [pc |-> "count", q |-> walk.q, limit |-> walk.limit,
                        off |-> walk.off + walk.limit,
                        seen |-> walk.seen \cup Page(s, walk.limit, Int32(walk.off)),
                        kept |-> walk.kept, left |-> walk.left, tied |-> b],
               walk.pc = "list", UNCHANGED <<kind, table>>, walk'.tied = FALSE
        PROVE  WalkSafe'
    <2> DEFINE S == Selected(table, walk.q)
               P == Page(s, walk.limit, Int32(walk.off))
    <2>1. ~walk.tied /\ \A i, j \in S : table[i].at = table[j].at => i = j
      <3> HIDE DEF S, P
      <3>1. b = FALSE
        BY <1>2
      <3> QED BY <1>2, <3>1 DEF S
    <2>2. /\ walk.kept \subseteq S /\ Cardinality(Passed) <= walk.left
          /\ walk.kept # {} => walk.off < 2^(IntWidth - 1)
      BY <1>2, <2>1 DEF WalkSafe
    <2>3. /\ walk'.pc = "count" /\ walk'.q = walk.q /\ walk'.off = walk.off + walk.limit
          /\ walk'.seen = walk.seen \cup P /\ walk'.kept = walk.kept /\ walk'.left = walk.left
      <3> HIDE DEF P
      <3> QED BY <1>2 DEF P
    <2>4. Selected(table, walk.q)' = S
      <3>1. kind' = kind /\ table' = table /\ walk'.q = walk.q
        BY <1>2, <2>3
      <3> QED BY <3>1, ZenonT(30) DEF Selected, RowsOf, Filter, ClientFilter, UserFilter, CodeFilter,
                          TokenFilter, Given
    <2>5. \A i : Place(i)' = Place(i)
      <3>1. \A i : Above(i)' = Above(i)
        BY <1>2, <2>4 DEF Above
      <3> QED BY <3>1 DEF Place
    <2>6. \A i \in S : Place(i) \in Nat
      BY TimesTyped, PlaceType
    <2>7. walk.off \in Nat /\ walk.left \in Nat /\ walk.limit \in Nat
      BY <1>2, WalkShape, ListingAssumption
    <2>8. \A i \in walk.kept : walk.off < Place(i) /\ Place(i) <= walk.off + walk.limit => i \in P
      <3> SUFFICES ASSUME NEW i \in walk.kept, walk.off < Place(i),
                          Place(i) <= walk.off + walk.limit
                   PROVE  i \in P
        OBVIOUS
      <3>1. Int32(walk.off) = walk.off
        BY <2>2, <2>7, OffsetFits
      <3>2. i \in Page(s, walk.limit, walk.off)
        BY <1>2, <2>1, <2>2, PageShows
      <3> QED BY <3>1, <3>2
    <2> HIDE DEF S, P
    <2>9. Passed' = {i \in walk.kept \ (walk.seen \cup P) : Place(i) <= walk.off + walk.limit}
      BY <2>3, <2>5 DEF Passed
    <2>10. Passed' \in SUBSET Passed
      BY <2>2, <2>6, <2>7, <2>8, <2>9, SMTT(30) DEF Passed
    <2>11. Cardinality(Passed') <= Cardinality(Passed) /\ Cardinality(Passed) \in Nat
      <3>1. IsFiniteSet(Passed) /\ Cardinality(Passed) \in Nat
        BY <1>2, PassedFinite
      <3> QED BY <2>10, <3>1, FS_Subset
    <2>12. Cardinality(Passed') <= walk.left
      <3>1. IsFiniteSet(Passed') /\ Cardinality(Passed') \in Nat
        <4>1. IsFiniteSet(Passed)
          BY <1>2, PassedFinite
        <4> QED BY <2>10, <4>1, FS_Subset, FS_CardinalityType
      <3> QED BY <2>2, <2>7, <2>11, <3>1, SMTT(30)
    <2>13. \A i, j \in walk.kept : table'[i].at = table'[j].at => i = j
      BY <1>2, <2>1, <2>2
    <2> QED BY <2>2, <2>3, <2>4, <2>12, <2>13 DEF WalkSafe
  <1>3. ASSUME walk'.tied # FALSE, walk' \in Walks PROVE WalkSafe'
    <2>1. walk'.pc = "idle" \/ walk'.tied \in BOOLEAN
      BY <1>3, SMT DEF Walks, WalkIdle
    <2> QED BY <1>3, <2>1 DEF WalkSafe
  <1>4. walk' \in Walks
    BY ListTypeStep DEF ListNext, ListTypeOK
  <1>5. walk.pc = "list" /\ UNCHANGED <<kind, table>>
    BY PageRead
  <1> QED BY <1>1, <1>2, <1>3, <1>4, <1>5, PageRead

\* The count: the walk goes on from an offset within the listing, or it has passed
\* all of it.
LEMMA WalkCount ==
    ASSUME ListTypeOK, WalkSafe, CountRows, Cardinality(RowIds) <= 2^(IntWidth - 1)
    PROVE  WalkSafe' /\ MissesOnlyWhatLeft'
  <1> DEFINE S == Selected(table, walk.q)
             p == IF walk.off < Cardinality(S) THEN "list" ELSE "done"
  <1>1. walk.pc = "count" /\ walk' = [walk EXCEPT !.pc = p] /\ UNCHANGED <<kind, table>>
    BY DEF CountRows
  <1>2. /\ walk.off \in Nat /\ walk.left \in Nat
        /\ walk = [pc |-> walk.pc, q |-> walk.q, limit |-> walk.limit, off |-> walk.off,
                   seen |-> walk.seen, kept |-> walk.kept, left |-> walk.left,
                   tied |-> walk.tied]
    BY <1>1, WalkShape
  <1>3. /\ p = "list" => walk.off < Cardinality(S)
        /\ p = "done" => ~(walk.off < Cardinality(S))
        /\ p \in {"list", "done"}
    OBVIOUS
  <1>4. Cardinality(S) \in Nat /\ Cardinality(S) <= Cardinality(RowIds)
    BY SelectedFinite
  <1>5. Cardinality(RowIds) \in Nat /\ 2^(IntWidth - 1) \in Nat
    BY FS_CardinalityType, ListingAssumption, WidthAssumption
  <1>6. ~walk.tied =>
           /\ walk.kept \subseteq S /\ Cardinality(Passed) <= walk.left
           /\ walk.off = 0 \/ \A i, j \in walk.kept : table[i].at = table[j].at => i = j
    BY <1>1 DEF WalkSafe
  <1>7. \A i \in S : Place(i) \in Nat /\ Place(i) <= Cardinality(S)
    BY TimesTyped, PlaceType
  <1> HIDE DEF p
  <1>8. /\ walk'.pc = p /\ walk'.q = walk.q /\ walk'.off = walk.off /\ walk'.seen = walk.seen
        /\ walk'.kept = walk.kept /\ walk'.left = walk.left /\ walk'.tied = walk.tied
    BY <1>1, <1>2
  <1>9. Selected(table, walk.q)' = S
    <2>1. kind' = kind /\ table' = table /\ walk'.q = walk.q
      BY <1>1, <1>8
    <2> QED BY <2>1, ZenonT(30) DEF Selected, RowsOf, Filter, ClientFilter, UserFilter, CodeFilter,
                        TokenFilter, Given
  <1>10. Passed' = Passed
    <2>1. \A i : Above(i)' = Above(i)
      BY <1>1, <1>9 DEF Above
    <2>2. \A i : Place(i)' = Place(i)
      BY <2>1 DEF Place
    <2> QED BY <1>8, <2>2 DEF Passed
  <1> HIDE DEF S
  <1>11. WalkSafe'
    <2>1. p = "list" => walk.off < 2^(IntWidth - 1)
      BY <1>2, <1>3, <1>4, <1>5, SMTT(30)
    <2>2. table' = table
      BY <1>1
    <2> QED BY <1>6, <1>8, <1>9, <1>10, <2>1, <2>2, ZenonT(30) DEF WalkSafe
  <1>12. ASSUME p = "done", ~walk.tied
         PROVE  Cardinality(walk.kept \ walk.seen) <= walk.left
    <2>1. walk.kept \ walk.seen \subseteq Passed
      BY <1>2, <1>3, <1>4, <1>6, <1>7, <1>12, SMTT(30) DEF Passed
    <2>2. walk.kept \ walk.seen = Passed
      BY <2>1 DEF Passed
    <2> QED BY <1>6, <1>12, <2>2
  <1>13. MissesOnlyWhatLeft'
    BY <1>8, <1>12 DEF MissesOnlyWhatLeft
  <1> QED BY <1>11, <1>13

\* The inductive invariant of the listings.
ListInv == ListTypeOK /\ WalkSafe /\ MissesOnlyWhatLeft

\* It holds when the server starts.
LEMMA ListInvInit ==
    ListInit => ListInv
  <1> SUFFICES ASSUME ListInit PROVE ListInv
    OBVIOUS
  <1>1. walk.pc = "idle" /\ walk \in Walks
    BY DEF ListInit, WalkIdle, Walks
  <1> QED BY <1>1 DEF ListInit, ListInv, ListTypeOK, WalkSafe, MissesOnlyWhatLeft

\* Every step keeps it, for tables whose rows an int32 can count.
LEMMA ListInvStep ==
    ASSUME Cardinality(RowIds) <= 2^(IntWidth - 1), ListInv, [ListNext]_listVars
    PROVE  ListInv'
  <1>0. ListTypeOK /\ WalkSafe /\ MissesOnlyWhatLeft
    BY DEF ListInv
  <1>1. CASE UNCHANGED listVars
    <2>1. kind' = kind /\ table' = table /\ walk' = walk
      BY <1>1 DEF listVars
    <2>2. ListTypeOK' /\ MissesOnlyWhatLeft'
      BY <1>0, <2>1, ZenonT(30) DEF ListTypeOK, MissesOnlyWhatLeft
    <2>3. Selected(table, walk.q)' = Selected(table, walk.q)
      BY <2>1 DEF Selected, RowsOf, Filter, ClientFilter, UserFilter, CodeFilter,
                  TokenFilter, Given
    <2>4. \A i : Above(i)' = Above(i)
      BY <2>1, <2>3 DEF Above
    <2>5. Passed' = Passed
      BY <2>1, <2>4 DEF Passed, Place
    <2>6. WalkSafe'
      BY <1>0, <2>1, <2>3, <2>5 DEF WalkSafe
    <2> QED BY <2>2, <2>6 DEF ListInv
  <1>2. CASE ListNext
    <2>0. ListTypeOK'
      BY <1>0, <1>2, ListTypeStep
    <2>1. CASE Start
      <3>1. PICK q \in Queries[kind], l \in Limits, o \in Offsets :
               walk' = [pc |-> "list", q |-> q, limit |-> l, off |-> o, seen |-> {},
                        kept |-> IF o = 0 THEN Selected(table, q) ELSE {},
                        left |-> 0, tied |-> FALSE]
        BY <2>1 DEF Start
      <3> DEFINE K == IF o = 0 THEN Selected(table, q) ELSE {}
      <3>2. table' = table /\ kind' = kind
        BY <2>1 DEF Start
      <3>3. K = {} \/ o = 0
        OBVIOUS
      <3>4. K \subseteq Selected(table, q)
        OBVIOUS
      <3> HIDE DEF K
      <3>5. /\ walk'.pc = "list" /\ walk'.q = q /\ walk'.off = o /\ walk'.seen = {}
            /\ walk'.kept = K /\ walk'.left = 0
        BY <3>1 DEF K
      <3>6. Selected(table, walk.q)' = Selected(table, q)
        BY <3>2, <3>5 DEF Selected, RowsOf, Filter, ClientFilter, UserFilter, CodeFilter,
                          TokenFilter, Given
      <3>7. Passed' = {}
        <4>1. ASSUME NEW i \in Passed' PROVE FALSE
          <5>1. i \in K /\ Place(i)' <= o
            BY <3>5, <4>1 DEF Passed
          <5>2. o = 0 /\ i \in Selected(table, q)
            BY <3>3, <3>4, <5>1
          <5>3. table[i].at \in Nat
            BY <1>0, <5>2, TimesTyped
          <5> DEFINE A == Above(i)'
          <5>4. Place(i)' = Cardinality(A)
            BY DEF Place
          <5>5. A \in SUBSET Selected(table, q) /\ i \in A
            BY <3>2, <3>6, <5>2, <5>3, SMTT(30) DEF Above
          <5> HIDE DEF A
          <5>6. IsFiniteSet(A)
            BY <5>5, SelectedFinite, FS_Subset
          <5>7. Cardinality(A) \in Nat /\ Cardinality(A) # 0
            BY <5>5, <5>6, FS_CardinalityType, FS_EmptySet
          <5> QED BY <5>1, <5>2, <5>4, <5>7, SMTT(30)
        <4> QED BY <4>1
      <3>8. Cardinality(Passed') = 0
        BY <3>7, FS_EmptySet
      <3>9. K # {} => o < 2^(IntWidth - 1)
        BY <3>3, WidthAssumption, SMTT(30)
      <3>10. WalkSafe'
        BY <3>3, <3>4, <3>5, <3>6, <3>8, <3>9, SMTT(30) DEF WalkSafe
      <3>11. MissesOnlyWhatLeft'
        BY <3>5 DEF MissesOnlyWhatLeft
      <3> QED BY <2>0, <3>10, <3>11 DEF ListInv
    <2>2. CASE ListPage
      <3>1. WalkSafe'
        BY <1>0, <2>2, WalkPage
      <3>2. walk'.pc # "done"
        BY <1>0, <2>2, PageRead, SMTT(30) DEF WalkIdle
      <3> QED BY <2>0, <3>1, <3>2 DEF ListInv, MissesOnlyWhatLeft
    <2>3. CASE CountRows
      BY <1>0, <2>0, <2>3, WalkCount DEF ListInv
    <2>4. CASE ListFails
      <3>1. walk'.pc = "idle"
        BY <2>4 DEF ListFails, WalkIdle
      <3> QED BY <2>0, <3>1 DEF ListInv, WalkSafe, MissesOnlyWhatLeft
    <2>5. CASE InsertRow \/ ChangeStatus \/ DeleteRow
      <3>1. PICK x \in RowIds : OneRow(x)
        BY <1>0, <2>5, ChangesOneRow
      <3>2. WalkSafe'
        BY <1>0, <2>0, <3>1, WalkChange
      <3>3. MissesOnlyWhatLeft'
        <4>1. walk' = Watched(table')
          BY <3>1 DEF OneRow
        <4>2. CASE walk.pc \in {"list", "count"}
          <5> DEFINE T == Selected(table', walk.q)
                     n == Cardinality(Selected(table, walk.q) \ T)
          <5>1. walk' = [pc |-> walk.pc, q |-> walk.q, limit |-> walk.limit,
                         off |-> walk.off, seen |-> walk.seen, kept |-> walk.kept \cap T,
                         left |-> walk.left + n, tied |-> walk.tied]
            BY <1>0, <4>1, <4>2, WatchedWalk
          <5> HIDE DEF T, n
          <5> QED BY <4>2, <5>1 DEF MissesOnlyWhatLeft
        <4>3. CASE walk.pc \notin {"list", "count"}
          BY <1>0, <4>1, <4>3 DEF Watched, MissesOnlyWhatLeft
        <4> QED BY <4>2, <4>3
      <3> QED BY <2>0, <3>2, <3>3 DEF ListInv
    <2> QED BY <1>2, <2>1, <2>2, <2>3, <2>4, <2>5 DEF ListNext
  <1> QED BY <1>1, <1>2

\* The listings are well typed, whatever their size.
THEOREM ListTypeCorrect ==
    ListSpec => []ListTypeOK
  <1>1. ListInit => ListTypeOK
    BY ListInvInit DEF ListInv
  <1>2. ASSUME ListTypeOK, [ListNext]_listVars PROVE ListTypeOK'
    <2>1. CASE UNCHANGED listVars
      BY <1>2, <2>1 DEF listVars, ListTypeOK
    <2> QED BY <1>2, <2>1, ListTypeStep
  <1> QED BY <1>1, <1>2, PTL DEF ListSpec

\* ListedByName: ListAuthorizationCodes and ListAccessTokens compare both ids even
\* when the request names none, and every row with a client can be listed.
THEOREM SessionsListedByName ==
    ListSpec => []ListedByName
  <1>1. ListTypeOK => ListedByName
    <2> SUFFICES ASSUME ListTypeOK PROVE ListedByName
      OBVIOUS
    <2>1. kind \in {"codes", "tokens"} =>
             \A q \in Queries[kind] :
                Selected(table, q) # {} => q.client # Absent /\ q.user # Absent
      BY NamesBoth
    <2>2. \A i \in RowsOf(table) :
             (\E q \in Queries[kind] : i \in Selected(table, q))
             <=> ~(kind = "tokens" /\ table[i].client = Absent)
      BY ListedRow
    <2> QED BY <2>1, <2>2 DEF ListedByName
  <1> QED BY <1>1, ListTypeCorrect, PTL

\* MissesOnlyWhatLeft, for tables of at most 2^31 rows: beyond that the offset of a
\* later page does not survive int32(offset).
THEOREM WalkMissesOnlyWhatLeft ==
    ASSUME Cardinality(RowIds) <= 2^(IntWidth - 1)
    PROVE  ListSpec => []MissesOnlyWhatLeft
  <1>1. ListInv /\ [ListNext]_listVars => ListInv'
    BY ListInvStep
  <1>2. ListInv => MissesOnlyWhatLeft
    BY DEF ListInv
  <1> QED BY <1>1, <1>2, ListInvInit, PTL DEF ListSpec

---------------------------------------------------------------------------
(* The three together                                                      *)

\* A request of the administration API moves one component and leaves the others
\* alone.
THEOREM ApiKeepsComponents ==
    MCSpec => Spec /\ CsrfSpec /\ ListSpec
  <1>1. MCInit => Init /\ CsrfInit /\ ListInit
    BY DEF MCInit
  <1>2. [MCNext]_mcVars => [Next]_vars /\ [CsrfNext]_csrfVars /\ [ListNext]_listVars
    <2>1. CASE MCNext
      BY <2>1 DEF MCNext
    <2>2. CASE UNCHANGED mcVars
      BY <2>2 DEF mcVars
    <2> QED BY <2>1, <2>2
  <1> QED BY <1>1, <1>2, PTL DEF MCSpec, Spec, CsrfSpec, ListSpec

\* ApiTypeOK: the limiters, the requests of the browser and the listings keep their
\* types.
THEOREM ApiTypeCorrect ==
    MCSpec => []ApiTypeOK
  <1>1. TypeOK /\ CsrfTypeOK /\ ListTypeOK => ApiTypeOK
    BY DEF ApiTypeOK
  <1> QED BY <1>1, ApiKeepsComponents, RateTypeCorrect, CsrfTypeCorrect, ListTypeCorrect, PTL
=============================================================================
