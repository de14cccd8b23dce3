------------------------------ MODULE Accounts ------------------------------
(***************************************************************************)
(* One local account from the login request to the session it opens:       *)
(* the credential check of module Lockout goes on with the Login handler,   *)
(* which answers with a session or, while the password has to be changed,   *)
(* with a challenge token for POST /auth/change-password.  An administrator *)
(* can disable the account.                                                 *)
(***************************************************************************)
EXTENDS Lockout

CONSTANTS
    Passwords,      \* passwords; hashing is injective
    Changers,       \* change-password requests that can be in flight
    Challenges,     \* challenge tokens that can be issued
    ChallengeTTL    \* challengeTokenExpiry

ASSUME ChallengeAssumption == ChallengeTTL \in Nat \ {0}

VARIABLES
    row,        \* password_hash, force_password_change and is_active
    login,      \* login[w]: what attempt w knows, and its steps after the check
    chg,        \* chg[x]: a change-password request
    chal,       \* challenge token |-> its expiry, Null before it is issued
    sessions,   \* who opened the direct-login tokens that are not revoked
    due         \* history: the account still has the password it must change

accVars == <<vars, row, login, chg, chal, sessions, due>>

LoginIdle == [pc |-> "idle"]

\* late and off are history fields: the forced change was made and none in flight,
\* and the account was disabled, when the attempt began.
LoginStates ==
    {LoginIdle} \cup
    [pc: {"check", "touch", "revoke", "store"}, tried: Passwords,
     hash: Passwords, late: BOOLEAN, off: BOOLEAN]

ChgStates ==
    {LoginIdle} \cup
    [pc: {"hash", "flag", "store"}, k: Challenges, new: Passwords]

\* The account, its logins, changes of password and challenges keep their types.
AccTypeOK ==
    /\ TypeOK
    /\ row \in [pw: Passwords, force: BOOLEAN, active: BOOLEAN]
    /\ login \in [Workers -> LoginStates]
    /\ chg \in [Changers -> ChgStates]
    /\ chal \in [Challenges -> 0 .. (MaxTime + ChallengeTTL) \cup {Null}]
    /\ sessions \subseteq Workers \cup Changers
    /\ due \in BOOLEAN

\* A bootstrapped administrator has to change the password, other local
\* accounts do not.
AccInit ==
    /\ Init
    /\ \E p \in Passwords, f \in BOOLEAN :
         /\ row = [pw |-> p, force |-> f, active |-> TRUE]
         /\ due = f
    /\ login = [w \in Workers |-> LoginIdle]
    /\ chg = [x \in Changers |-> LoginIdle]
    /\ chal = [k \in Challenges |-> Null]
    /\ sessions = {}

LoginGoes(w, pc) == login' = [login EXCEPT ![w].pc = pc]

\* The forced change is made and no change of password is in flight.
Settled == ~row.force /\ \A x \in Changers : chg[x].pc = "idle"

-----------------------------------------------------------------------------
(* POST /auth/login                                                        *)

\* The row that Begin reads also has the hash.
AccBegin(w) ==
    /\ login[w].pc = "idle"
    /\ Begin(w)
    /\ \E p \in Passwords :
         login' = [login EXCEPT ![w] =
             [pc |-> "check", tried |-> p, hash |-> row.pw,
              late |-> Settled, off |-> ~row.active]]
    /\ UNCHANGED <<row, chg, chal, sessions, due>>

\* Mutant: the result of the comparison is inverted.
MatchesInverted(w) == login[w].tried # login[w].hash

\* verifyArgon2id with the hash read at the beginning.
Matches(w) == login[w].tried = login[w].hash

AccVerify(w) ==
    /\ VerifyPassword(w)
    /\ req'[w].pc = "clear" <=> Matches(w)
    /\ UNCHANGED <<row, login, chg, chal, sessions, due>>

\* The other steps of VerifyCredentials; an attempt that ends there is over.
AccCheck(w) ==
    /\ \/ ClearExpiredLock(w) \/ IncrementFailedLoginAttempts(w)
       \/ Decide(w) \/ LockUserAccount(w)
    /\ login' = IF req'[w].pc = "idle"
                THEN [login EXCEPT ![w] = LoginIdle] ELSE login
    /\ UNCHANGED <<row, chg, chal, sessions, due>>

AccClear(w) ==
    /\ ClearOnSuccess(w)
    /\ LoginGoes(w, "touch")
    /\ UNCHANGED <<row, chg, chal, sessions, due>>

\* Mutant: every account gets a session.
TouchOpens(w) ==
    /\ login[w].pc = "touch"
    /\ LoginGoes(w, "revoke")
    /\ UNCHANGED <<vars, row, chg, chal, sessions, due>>

\* UpdateLastLogin returns the row as it now is: a forced change is answered
\* with a challenge token, which is not stored anywhere.
UpdateLastLogin(w) ==
    /\ login[w].pc = "touch"
    /\ \/ /\ ~row.force
          /\ LoginGoes(w, "revoke")
          /\ UNCHANGED chal
       \/ /\ row.force
          /\ \E k \in Challenges :
               /\ chal[k] = Null
               /\ chal' = [chal EXCEPT ![k] = now + ChallengeTTL]
          /\ login' = [login EXCEPT ![w] = LoginIdle]
    /\ UNCHANGED <<vars, row, chg, sessions, due>>

\* RevokeAllUserAccessTokens, then StoreDirectLoginToken.
RevokeSessions(w) ==
    /\ login[w].pc = "revoke"
    /\ sessions' = {}
    /\ LoginGoes(w, "store")
    /\ UNCHANGED <<vars, row, chg, chal, due>>

OpenSession(w) ==
    /\ login[w].pc = "store"
    /\ sessions' = sessions \cup {w}
    /\ login' = [login EXCEPT ![w] = LoginIdle]
    /\ UNCHANGED <<vars, row, chg, chal, due>>

LoginFails(w) ==
    /\ login[w].pc # "idle"
    /\ \/ login[w].pc = "check" /\ Fail(w)
       \/ login[w].pc # "check" /\ UNCHANGED vars
    /\ login' = [login EXCEPT ![w] = LoginIdle]
    /\ UNCHANGED <<row, chg, chal, sessions, due>>

-----------------------------------------------------------------------------
(* POST /auth/change-password                                              *)

\* ValidateChallengeToken: the signature was checked, the token not expired.
ValidChallenge(k) == chal[k] # Null /\ now < chal[k]

\* Mutant: the challenge token alone authorises the change.
ChgReadAnyway(x) ==
    /\ chg[x].pc = "idle"
    /\ \E k \in Challenges, p \in Passwords :
         /\ ValidChallenge(k)
         /\ chg' = [chg EXCEPT ![x] = [pc |-> "hash", k |-> k, new |-> p]]
    /\ UNCHANGED <<vars, row, login, chal, sessions, due>>

\* GetUserByID; ErrForcePasswordChangeSatisfied ends the request.  The policy
\* does not compare the new password with the old one.
ChgRead(x) ==
    /\ chg[x].pc = "idle"
    /\ row.force
    /\ \E k \in Challenges, p \in Passwords :
         /\ ValidChallenge(k)
         /\ chg' = [chg EXCEPT ![x] = [pc |-> "hash", k |-> k, new |-> p]]
    /\ UNCHANGED <<vars, row, login, chal, sessions, due>>

UpdatePasswordHash(x) ==
    /\ chg[x].pc = "hash"
    /\ row' = [row EXCEPT !.pw = chg[x].new]
    /\ due' = FALSE
    /\ chg' = [chg EXCEPT ![x].pc = "flag"]
    /\ UNCHANGED <<vars, login, chal, sessions>>

\* SetForcePasswordChange(false).  The revocation of the user's refresh tokens
\* and two audit events follow, their errors discarded; they are statements on
\* the tables of module Store.
SetForcePasswordChange(x) ==
    /\ chg[x].pc = "flag"
    /\ row' = [row EXCEPT !.force = FALSE]
    /\ chg' = [chg EXCEPT ![x].pc = "store"]
    /\ UNCHANGED <<vars, login, chal, sessions, due>>

\* The handler stores a new access token and answers with it; it revokes none.
ChgOpenSession(x) ==
    /\ chg[x].pc = "store"
    /\ sessions' = sessions \cup {x}
    /\ chg' = [chg EXCEPT ![x] = LoginIdle]
    /\ UNCHANGED <<vars, row, login, chal, due>>

ChgFails(x) ==
    /\ chg[x].pc # "idle"
    /\ chg' = [chg EXCEPT ![x] = LoginIdle]
    /\ UNCHANGED <<vars, row, login, chal, sessions, due>>

-----------------------------------------------------------------------------
(* The administrator and the clock.                                        *)

UpdateUserStatus ==
    /\ row' = [row EXCEPT !.active = ~@]
    /\ UNCHANGED <<vars, login, chg, chal, sessions, due>>

LoginStep(w) ==
    \/ AccBegin(w) \/ AccVerify(w) \/ AccCheck(w) \/ AccClear(w)
    \/ UpdateLastLogin(w) \/ RevokeSessions(w) \/ OpenSession(w)
    \/ LoginFails(w)

ChgStep(x) ==
    \/ ChgRead(x) \/ UpdatePasswordHash(x) \/ SetForcePasswordChange(x)
    \/ ChgOpenSession(x) \/ ChgFails(x)

AccNext ==
    \/ \E w \in Workers : LoginStep(w)
    \/ \E x \in Changers : ChgStep(x)
    \/ UpdateUserStatus
    \/ (Unlock \/ Tick) /\ UNCHANGED <<row, login, chg, chal, sessions, due>>

AccSpec == AccInit /\ [][AccNext]_accVars

-----------------------------------------------------------------------------
(* Properties.                                                             *)

\* Nobody gets a session on an account before the password that had to be
\* changed has been replaced, whichever statement of ChangePassword fails.
NoSessionBeforeChange == sessions # {} => ~due

\* The old password is worth nothing once the change is made: a login that begins
\* then comes to store a session only with the password the account has now,
\* whatever other logins and challenge tokens are still around.  (A login that
\* began before may end with the hash it read.)
OldPasswordStaysOut ==
    \A w \in Workers :
        login[w].pc = "store" /\ login[w].late => login[w].tried = row.pw

\* A settled account keeps its password and stays settled: the challenge tokens
\* still outstanding are worth nothing.
ChangeIsFinal == [][Settled => Settled' /\ row'.pw = row.pw]_accVars

\* "Setting is_active to false prevents the user from logging in": an attempt
\* that begins on a disabled account never gets as far as storing a session.
DisabledStaysOut ==
    \A w \in Workers : login[w].pc = "store" => ~login[w].off
=============================================================================
