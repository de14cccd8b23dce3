------------------------------ MODULE Lockout ------------------------------
(***************************************************************************)
(* The lockout of one local account: Service.VerifyCredentials, one action *)
(* per statement, and the administrator's unlock.  req[w] is the login     *)
(* attempt that worker w serves.                                           *)
(***************************************************************************)
EXTENDS Naturals, Sequences, FiniteSets

CONSTANTS
    Workers,       \* login attempts that can be in flight at the same time
    Null,          \* SQL NULL
    MaxAttempts, WindowSeconds, DurationSeconds,  \* LockoutConfig
    MaxTime,       \* bound of the clock
    MaxFailures    \* bound of failed_login_attempts

\* config.Load refuses values that are not positive.
ASSUME LockoutAssumption ==
    /\ MaxAttempts \in Nat \ {0}
    /\ WindowSeconds \in Nat \ {0}
    /\ DurationSeconds \in Nat \ {0}
    /\ MaxTime \in Nat /\ MaxFailures \in Nat
    /\ IsFiniteSet(Workers)
    /\ Null \notin Nat

VARIABLES
    now,     \* the clock; the replicas and the database agree on it
    acct,    \* the lockout columns of the users row
    req,     \* req[w]: program counter and locals of an attempt
    times,   \* history: when the failures that the counter stands for happened
    recent   \* history: the last of them that were carried through to a decision

vars == <<now, acct, req, times, recent>>

Time == 0 .. MaxTime

Account == [attempts : Nat, last : Time \cup {Null},
            until : 0 .. (MaxTime + DurationSeconds) \cup {Null}]

Idle == [pc |-> "idle"]

(* last is last_failed_login_at as the attempt first read it; failed is    *)
(* the time of its increment; fresh is history: the counter was not        *)
(* cleared since that increment                                            *)
Attempt ==
    [pc : {"reset", "verify", "clear", "increment"}, last : Time \cup {Null}]
    \cup
    [pc : {"decide"}, last : Time \cup {Null}, attempts : Nat,
     failed : Time, fresh : BOOLEAN]
    \cup
    [pc : {"lock"}, until : 0 .. (MaxTime + DurationSeconds)]

\* The longest run of failures that the properties speak of.
GuessLimit == MaxAttempts + Cardinality(Workers) - 1

Init ==
    /\ now = 0
    /\ acct = [attempts |-> 0, last |-> Null, until |-> Null]
    /\ req = [w \in Workers |-> Idle]
    /\ times = << >>
    /\ recent = << >>

Locked == acct.until # Null /\ acct.until > now

---------------------------------------------------------------------------

\* Mutant: the counter is kept.
ResetLockOnly(w, q) ==
    /\ acct' = [acct EXCEPT !.last = Null, !.until = Null]
    /\ times' = << >>
    /\ recent' = << >>
    /\ req' = [req EXCEPT ![w] = q]

\* ResetLoginAttempts; worker w goes on with record q.
ResetLoginAttempts(w, q) ==
    /\ acct' = [attempts |-> 0, last |-> Null, until |-> Null]
    /\ times' = << >>
    /\ recent' = << >>
    /\ req' = [v \in Workers |->
                 IF v = w THEN q
                 ELSE IF req[v].pc = "decide" THEN [req[v] EXCEPT !.fresh = FALSE]
                 ELSE req[v]]

\* Steps 1 and 2: GetUserByEmailForAuth; an attempt on a locked account ends here.
Begin(w) ==
    /\ req[w].pc = "idle"
    /\ ~Locked
    /\ req' = [req EXCEPT ![w] =
                 [pc |-> IF acct.until # Null THEN "reset" ELSE "verify",
                  last |-> acct.last]]
    /\ UNCHANGED <<now, acct, times, recent>>

\* Step 3: clear an expired lock.  The row read in step 1 stays in use.
ClearExpiredLock(w) ==
    /\ req[w].pc = "reset"
    /\ ResetLoginAttempts(w, [req[w] EXCEPT !.pc = "verify"])
    /\ UNCHANGED now

\* Step 5: verifyArgon2id.
VerifyPassword(w) ==
    /\ req[w].pc = "verify"
    /\ \E outcome \in {"clear", "increment"} :
          req' = [req EXCEPT ![w].pc = outcome]
    /\ UNCHANGED <<now, acct, times, recent>>

\* IncrementFailedLoginAttempts.
IncrementFailedLoginAttempts(w) ==
    /\ req[w].pc = "increment"
    /\ acct.attempts < MaxFailures
    /\ acct' = [acct EXCEPT !.attempts = @ + 1, !.last = now]
    /\ req' = [req EXCEPT ![w] =
                 [pc |-> "decide", last |-> req[w].last,
                  attempts |-> acct.attempts + 1, failed |-> now, fresh |-> TRUE]]
    /\ times' = Append(times, now)
    /\ UNCHANGED <<now, recent>>

\* The failure that a decision made now adds to the history.
Remember(w) ==
    LET all == IF req[w].fresh
               THEN Append(recent, [failed |-> req[w].failed, decided |-> now])
               ELSE recent
    IN  IF Len(all) > GuessLimit THEN Tail(all) ELSE all

\* Mutant: the window is open at its end.
MustLockOpenWindow(w) ==
    /\ req[w].attempts >= MaxAttempts
    /\ req[w].last # Null
    /\ now - req[w].last < WindowSeconds

MustLock(w) ==
    /\ req[w].attempts >= MaxAttempts
    /\ req[w].last # Null
    /\ now - req[w].last <= WindowSeconds

Decide(w) ==
    /\ req[w].pc = "decide"
    /\ req' = [req EXCEPT ![w] = IF MustLock(w)
                                 THEN [pc |-> "lock", until |-> now + DurationSeconds]
                                 ELSE Idle]
    /\ recent' = Remember(w)
    /\ UNCHANGED <<now, acct, times>>

LockUserAccount(w) ==
    /\ req[w].pc = "lock"
    /\ acct' = [acct EXCEPT !.until = req[w].until]
    /\ req' = [req EXCEPT ![w] = Idle]
    /\ UNCHANGED <<now, times, recent>>

\* Step 6: the password was right.  UpdateLastLogin follows and leaves the lockout
\* columns alone.
ClearOnSuccess(w) ==
    /\ req[w].pc = "clear"
    /\ ResetLoginAttempts(w, Idle)
    /\ UNCHANGED now

\* UnlockUserAccount clears locked_until and leaves the counter.  The history of
\* decisions starts again.
Unlock ==
    /\ acct' = [acct EXCEPT !.until = Null]
    /\ req' = [v \in Workers |-> IF req[v].pc = "decide"
                                 THEN [req[v] EXCEPT !.fresh = FALSE] ELSE req[v]]
    /\ recent' = << >>
    /\ UNCHANGED <<now, times>>

\* A statement fails or the process dies.  The history of decisions starts again:
\* a lock that was due may be lost.
Fail(w) ==
    /\ req[w].pc # "idle"
    /\ req' = [req EXCEPT ![w] = Idle]
    /\ recent' = << >>
    /\ UNCHANGED <<now, acct, times>>

Tick ==
    /\ now < MaxTime
    /\ now' = now + 1
    /\ UNCHANGED <<acct, req, times, recent>>

Next ==
    \/ \E w \in Workers :
          \/ Begin(w)
          \/ ClearExpiredLock(w)
          \/ VerifyPassword(w)
          \/ IncrementFailedLoginAttempts(w)
          \/ Decide(w)
          \/ LockUserAccount(w)
          \/ ClearOnSuccess(w)
          \/ Fail(w)
    \/ Unlock
    \/ Tick

Spec == Init /\ [][Next]_vars

---------------------------------------------------------------------------
(* Properties                                                              *)

\* The columns, the attempts in flight and the history keep their types.
TypeOK ==
    /\ now \in Time
    /\ acct \in Account
    /\ req \in [Workers -> Attempt \cup {Idle}]
    /\ times \in Seq(Time) /\ Len(times) = acct.attempts
    /\ recent \in Seq([failed : Time, decided : Time])
    /\ Len(recent) <= GuessLimit

\* The last n failures happened, and were decided upon, within one window.
Burst(n) ==
    /\ Len(recent) >= n
    /\ \A i, j \in (Len(recent) - n + 1) .. Len(recent) :
          recent[i].decided - recent[j].failed <= WindowSeconds

LockSetOrComing == acct.until # Null \/ \E w \in Workers : req[w].pc = "lock"

\* However the attempts of W workers interleave, an account never takes
\* MaxAttempts + W - 1 failures within a window without a lock: every attempt uses
\* the last_failed_login_at that it read before the failures of the others, and
\* this is all that it can miss.  (For MaxAttempts of 2 or more: with 1 the first
\* failure finds no earlier one in the row and does not lock.)
GuessBound == Burst(GuessLimit) => LockSetOrComing

\* "After 5 consecutive failed login attempts within a 10-minute sliding window, the
\* account is locked": and only after those.
LockOnlyAfterBurst ==
    [][\A w \in Workers :
         Decide(w) /\ MustLock(w) =>
            times[Len(times)] - times[Len(times) - MaxAttempts + 1] <= WindowSeconds]_vars
=============================================================================
