----------------------------- MODULE Bootstrap -----------------------------
(***************************************************************************)
(* Start-up of the replicas on an empty database with the bootstrap        *)
(* variables set and allowed: NewServer runs BootstrapDefaultAdmin and     *)
(* then BootstrapDefaultClient, one action per statement, and serves only  *)
(* if neither fails.  The orchestrator starts a replica that exited again. *)
(* Meanwhile the admin changes their password and manages clients.         *)
(***************************************************************************)
EXTENDS Naturals, FiniteSets

CONSTANTS
    Replicas,
    NoUser,       \* no user row has the default admin's email
    MaxCrashes,   \* bound on failed statements and killed processes
    MaxClients    \* bound on client rows

ASSUME BootstrapAssumption ==
    /\ IsFiniteSet(Replicas)
    /\ MaxCrashes \in Nat /\ MaxClients \in Nat
    /\ NoUser \notin [password : BOOLEAN, force : BOOLEAN, admin : BOOLEAN]

VARIABLES
    user,      \* the users row of DEFAULT_ADMIN_EMAIL
    nclients,  \* number of active default clients
    others,    \* another client, of the admin's own, is active
    pc,        \* pc[r]: the statement replica r runs next
    rotated,   \* history: the admin has chosen a password of their own
    crashes

bootVars == <<user, nclients, others, pc, rotated, crashes>>

UserRow == [password : BOOLEAN, force : BOOLEAN, admin : BOOLEAN]

Steps == {"down", "countAdmins", "createUser", "setPassword", "setForce", "promote",
          "countClients", "lookupAdmin", "createClient", "serving"}

BootInit ==
    /\ user = NoUser
    /\ nclients = 0
    /\ others = FALSE
    /\ pc = [r \in Replicas |-> "down"]
    /\ rotated = FALSE
    /\ crashes = 0

Goto(r, step) == pc' = [pc EXCEPT ![r] = step]

---------------------------------------------------------------------------

StartReplica(r) ==
    /\ pc[r] = "down"
    /\ Goto(r, "countAdmins")
    /\ UNCHANGED <<user, nclients, others, rotated, crashes>>

\* Mutant: an existing admin does not end the bootstrap.
IgnoreAdminCount(r) ==
    /\ pc[r] = "countAdmins"
    /\ Goto(r, "createUser")
    /\ UNCHANGED <<user, nclients, others, rotated, crashes>>

CountAdminUsers(r) ==
    /\ pc[r] = "countAdmins"
    /\ Goto(r, IF user # NoUser /\ user.admin THEN "countClients" ELSE "createUser")
    /\ UNCHANGED <<user, nclients, others, rotated, crashes>>

\* Mutant: the user is an admin from the start.
CreateAdmin(r) ==
    /\ pc[r] = "createUser"
    /\ IF user = NoUser
       THEN /\ user' = [password |-> FALSE, force |-> FALSE, admin |-> TRUE]
            /\ Goto(r, "setPassword")
       ELSE /\ Goto(r, "down")
            /\ UNCHANGED user
    /\ UNCHANGED <<nclients, others, rotated, crashes>>

\* users.email is unique: the INSERT fails, and NewServer with it, when the row
\* exists.
CreateUser(r) ==
    /\ pc[r] = "createUser"
    /\ IF user = NoUser
       THEN /\ user' = [password |-> FALSE, force |-> FALSE, admin |-> FALSE]
            /\ Goto(r, "setPassword")
       ELSE /\ Goto(r, "down")
            /\ UNCHANGED user
    /\ UNCHANGED <<nclients, others, rotated, crashes>>

UpdatePasswordHash(r) ==
    /\ pc[r] = "setPassword"
    /\ user' = [user EXCEPT !.password = TRUE]
    /\ Goto(r, "setForce")
    /\ UNCHANGED <<nclients, others, rotated, crashes>>

SetForcePasswordChange(r) ==
    /\ pc[r] = "setForce"
    /\ user' = [user EXCEPT !.force = TRUE]
    /\ Goto(r, "promote")
    /\ UNCHANGED <<nclients, others, rotated, crashes>>

PromoteUserToAdmin(r) ==
    /\ pc[r] = "promote"
    /\ user' = [user EXCEPT !.admin = TRUE]
    /\ Goto(r, "countClients")
    /\ UNCHANGED <<nclients, others, rotated, crashes>>

\* Mutant: existing clients do not end the bootstrap.
IgnoreClientCount(r) ==
    /\ pc[r] = "countClients"
    /\ Goto(r, "lookupAdmin")
    /\ UNCHANGED <<user, nclients, others, rotated, crashes>>

\* Active clients only are counted, of whatever name.
CountClients(r) ==
    /\ pc[r] = "countClients"
    /\ Goto(r, IF nclients > 0 \/ others THEN "serving" ELSE "lookupAdmin")
    /\ UNCHANGED <<user, nclients, others, rotated, crashes>>

\* GetUserByEmail; NewServer fails when there is no such user.
LookupAdmin(r) ==
    /\ pc[r] = "lookupAdmin"
    /\ Goto(r, IF user # NoUser THEN "createClient" ELSE "down")
    /\ UNCHANGED <<user, nclients, others, rotated, crashes>>

\* Mutant: the INSERT is sent twice.
CreateClientTwice(r) ==
    /\ pc[r] = "createClient"
    /\ nclients' = nclients + 2
    /\ Goto(r, "serving")
    /\ UNCHANGED <<user, others, rotated, crashes>>

\* No column of clients but the generated id is unique.
CreateClient(r) ==
    /\ pc[r] = "createClient"
    /\ nclients < MaxClients
    /\ nclients' = nclients + 1
    /\ Goto(r, "serving")
    /\ UNCHANGED <<user, others, rotated, crashes>>

\* A statement fails or the process is killed.
Crash(r) ==
    /\ pc[r] # "down"
    /\ crashes < MaxCrashes
    /\ crashes' = crashes + 1
    /\ Goto(r, "down")
    /\ UNCHANGED <<user, nclients, others, rotated>>

\* The admin logs in at a replica that serves and goes through ChangePassword.
AdminChangesPassword ==
    /\ \E r \in Replicas : pc[r] = "serving"
    /\ user # NoUser /\ user.password /\ user.force
    /\ user' = [user EXCEPT !.force = FALSE]
    /\ rotated' = TRUE
    /\ UNCHANGED <<nclients, others, pc, crashes>>

\* Once past the forced change, the admin deletes default clients and creates and
\* deletes others; a deleted client is inactive and stays so.
AdminChangesClients ==
    /\ \E r \in Replicas : pc[r] = "serving"
    /\ rotated
    /\ \/ nclients > 0 /\ nclients' = nclients - 1 /\ UNCHANGED others
       \/ others' = ~others /\ UNCHANGED nclients
    /\ UNCHANGED <<user, pc, rotated, crashes>>

\* What the process and its orchestrator do.
Proceed(r) ==
    \/ StartReplica(r)
    \/ CountAdminUsers(r)
    \/ CreateUser(r)
    \/ UpdatePasswordHash(r)
    \/ SetForcePasswordChange(r)
    \/ PromoteUserToAdmin(r)
    \/ CountClients(r)
    \/ LookupAdmin(r)
    \/ CreateClient(r)

BootNext ==
    \/ \E r \in Replicas : Proceed(r) \/ Crash(r)
    \/ AdminChangesPassword
    \/ AdminChangesClients

\* A process that was started runs, and one that exited is started again.
BootSpec == BootInit /\ [][BootNext]_bootVars /\ \A r \in Replicas : WF_bootVars(Proceed(r))

---------------------------------------------------------------------------
(* Properties                                                              *)

\* The row, the replicas and the counters keep their types.
BootTypeOK ==
    /\ user \in UserRow \cup {NoUser}
    /\ nclients \in 0 .. MaxClients
    /\ others \in BOOLEAN
    /\ pc \in [Replicas -> Steps]
    /\ rotated \in BOOLEAN
    /\ crashes \in 0 .. MaxCrashes

\* The default admin never has admin rights under the configured password without
\* having to change it: BootstrapDefaultAdmin promotes the user last, so neither a
\* crash between two statements nor a second replica leaves such an account.
AdminMustRotate ==
    user # NoUser /\ user.admin => user.password /\ (user.force \/ rotated)

\* "These calls are idempotent and skip gracefully when [...] the resources already
\* exist": once crashes stop, every replica ends up serving.
AllServeEventually == <>[](\A r \in Replicas : pc[r] = "serving")

\* The same for any crashes, as far as it goes: the start-up only fails for good
\* when a crash has left the default admin's row without admin rights.
AllServeUnlessHalfCreated ==
    \/ AllServeEventually
    \/ <>[](user # NoUser /\ ~user.admin)

\* BootstrapDefaultClient counts the active clients and inserts one in two
\* statements: replicas that start together can each create the default client, and
\* one that starts after the admin has deleted all clients creates it anew.  There
\* are never more active default clients than replicas, however often a replica is
\* restarted and whenever clients are deleted in between.
DefaultClientsBounded == nclients <= Cardinality(Replicas)
=============================================================================
