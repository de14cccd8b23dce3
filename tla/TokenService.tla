--------------------------- MODULE TokenService ---------------------------
(***************************************************************************)
(* The token endpoints working on the same tables: any number of requests  *)
(* of every kind are in flight, in one process or in several replicas, and *)
(* any of them can stop between two statements.                            *)
(***************************************************************************)
EXTENDS CodeExchange, Rotation, Revocation, DirectLogin, BearerGate

vars == <<storeVars, exVars, rotVars, revVars, loginVars, gate>>

Init ==
    /\ StoreInit
    /\ ExInit
    /\ RotInit
    /\ RevInit
    /\ LoginInit
    /\ GateInit

\* Time passes while nothing, or anything, is in flight.
Tick ==
    /\ now < MaxTime
    /\ now' = now + 1
    /\ UNCHANGED <<clients, codes, jwt, access, refresh, audit, held>>

Next ==
    \/ ExNext /\ UNCHANGED <<rotVars, revVars, loginVars, gate>>
    \/ RotNext /\ UNCHANGED <<exVars, revVars, loginVars, gate>>
    \/ RevNext /\ UNCHANGED <<exVars, rotVars, loginVars, gate>>
    \/ LoginNext /\ UNCHANGED <<exVars, rotVars, revVars, gate>>
    \/ GateNext /\ UNCHANGED <<exVars, rotVars, revVars, loginVars>>
    \/ (AdminNext \/ Tick) /\ UNCHANGED <<exVars, rotVars, revVars, loginVars, gate>>

Spec == Init /\ [][Next]_vars

\* Rows, requests and histories keep their types.
TypeOK ==
    /\ StoreTypeOK
    /\ ExTypeOK
    /\ RotTypeOK
    /\ RevTypeOK
    /\ LoginTypeOK
    /\ GateTypeOK

---------------------------------------------------------------------------
(* Refinement: a credential is good while its row says so, and has ended   *)
(* when the row is marked or gone.                                         *)

CodeStatus ==
    [k \in Codes |-> IF codes[k] = NoRow THEN "unissued"
                     ELSE IF codes[k] = Purged \/ codes[k].used \/ codes[k].revoked
                     THEN "ended" ELSE "good"]

TokenStatus ==
    [a \in AccessIds |-> IF access[a] = NoRow THEN "unissued"
                         ELSE IF access[a] = Purged \/ access[a].revoked
                         THEN "ended" ELSE "good"]

FamilyTree ==
    [r \in RefreshIds |-> IF refresh[r] = NoRow THEN None
                          ELSE [good |-> ~refresh[r].revoked, root |-> refresh[r].family,
                                prev |-> refresh[r].prev,
                                owner |-> <<refresh[r].client, refresh[r].user>>]]

\* NULL is not a member of a family.
ASSUME NoneAssumption ==
    None \notin [good : BOOLEAN, root : RefreshIds, prev : RefreshIds \cup {None},
                 owner : Clients \X Users]

Promise == INSTANCE Credentials
    WITH Owners <- Clients \X Users, code <- CodeStatus, token <- TokenStatus,
         family <- FamilyTree, minted <- grants

\* Every statement of every request, the clean-up and the clock included, is one
\* step of the abstract token service or none: whatever interleaves and fails,
\* nothing that has ended comes back, no token is minted from a usable code, and
\* rotation never forks off a valid token or crosses an owner or a family.
ImplementsCredentials == Promise!Spec
=============================================================================
