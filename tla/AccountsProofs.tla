--------------------------- MODULE AccountsProofs ---------------------------
(***************************************************************************)
(* The lockout of an account and what its logins and changes of password   *)
(* lead to, for any number of concurrent attempts and any configuration.   *)
(*                                                                         *)
(* An attempt decides on a last_failed_login_at that it read before the    *)
(* failures of the others.  MissBound counts what this can cost: failures  *)
(* decided without a lock, together with the attempts that may still be    *)
(* decided so, never exceed one per worker plus those that MaxAttempts     *)
(* allows anyway.                                                          *)
(***************************************************************************)
EXTENDS Accounts, FiniteSetTheorems, TLAPS

\* Zenon proves the leaves that cite no other prover.
USE Zenon

---------------------------------------------------------------------------
(* The lockout                                                             *)

\* The last m decided failures lie in the window that begins at T.
InWindow(T, m) ==
    \A i \in (Len(recent) - m + 1) .. Len(recent) :
        recent[i].failed >= T /\ recent[i].decided <= T + WindowSeconds

\* The attempts that may still decide upon a failure of that window without a
\* lock: they read no failure of it, or the counter they got is too small.
AtRisk(v, T) ==
    /\ req[v].pc \notin {"idle", "lock"}
    /\ \/ req[v].last = Null \/ req[v].last < T
       \/ /\ req[v].pc = "decide" /\ req[v].fresh
          /\ req[v].failed >= T /\ req[v].attempts < MaxAttempts

Risk(T) == {v \in Workers : AtRisk(v, T)}

Allowed == IF acct.attempts < MaxAttempts THEN acct.attempts ELSE MaxAttempts - 1

MissBound ==
    LockSetOrComing \/
    \A T \in Int : \A m \in 0 .. Len(recent) :
        acct.last # Null /\ acct.last >= T /\ InWindow(T, m)
        => m + Cardinality(Risk(T)) <= Cardinality(Workers) - 1 + Allowed

\* The row and the history agree on when the failures happened.
Dated ==
    /\ acct.last # Null => acct.last <= now /\ acct.attempts >= 1
    /\ \A i \in 1 .. Len(recent) :
          /\ acct.last # Null /\ recent[i].failed <= acct.last
          /\ recent[i].decided <= now
          /\ \A j \in i .. Len(recent) : recent[i].decided <= recent[j].decided
    /\ \A w \in Workers : req[w].pc = "decide" /\ req[w].fresh =>
          acct.last # Null /\ req[w].failed <= acct.last

LkInv == TypeOK /\ Dated /\ MissBound

Reading == [pc : {"reset", "verify", "clear", "increment"}, last : Time \cup {Null}]

Deciding == [pc : {"decide"}, last : Time \cup {Null}, attempts : Nat, failed : Time,
             fresh : BOOLEAN]

Decided == [failed : Time, decided : Time]

\* Where an attempt is says which fields it has.
LEMMA AttemptShape ==
    ASSUME TypeOK, NEW w \in Workers
    PROVE  /\ req[w] \in Attempt \cup {Idle}
           /\ req[w].pc \in {"reset", "verify", "clear", "increment"} => req[w] \in Reading
           /\ req[w].pc = "decide" => req[w] \in Deciding
           /\ req[w].pc = "lock" => req[w].until \in 0 .. (MaxTime + DurationSeconds)
           /\ req[w].pc \in {"idle", "reset", "verify", "clear", "increment", "decide", "lock"}
           /\ req[w].pc \notin {"idle", "lock"} => req[w].last \in Time \cup {Null}
  BY SMT DEF TypeOK, Attempt, Idle, Reading, Deciding

\* The number of workers is a natural number, and so is the limit.
LEMMA Sizes ==
    /\ Cardinality(Workers) \in Nat /\ GuessLimit \in Nat /\ MaxTime \in Nat
    /\ GuessLimit = MaxAttempts + Cardinality(Workers) - 1
    /\ Time \subseteq Nat
  <1>1. Cardinality(Workers) \in Nat
    BY LockoutAssumption, FS_CardinalityType
  <1> QED BY <1>1, LockoutAssumption, SMT DEF GuessLimit, Time

\* What an entry of the history is.
LEMMA RecentTyped ==
    ASSUME TypeOK, NEW i \in 1 .. Len(recent)
    PROVE  recent[i].failed \in Time /\ recent[i].decided \in Time
  <1>1. recent \in Seq(Decided)
    BY DEF TypeOK, Decided
  <1>2. recent[i] \in Decided
    BY <1>1, SMT
  <1> QED BY <1>2 DEF Decided

\* What the history of decisions is after a decision: at most one more, the new one
\* last, the others in their places from the end.
LEMMA RememberSays ==
    ASSUME TypeOK, NEW w \in Workers, req[w].pc = "decide"
    PROVE  /\ Remember(w) \in Seq(Decided) /\ Len(Remember(w)) \in 0 .. GuessLimit
           /\ ~req[w].fresh => Remember(w) = recent
           /\ req[w].fresh =>
                 /\ Len(Remember(w)) <= Len(recent) + 1
                 /\ Len(Remember(w)) >= 1 =>
                       /\ Remember(w)[Len(Remember(w))].failed = req[w].failed
                       /\ Remember(w)[Len(Remember(w))].decided = now
                 /\ \A i \in 1 .. (Len(Remember(w)) - 1) :
                       /\ i + Len(recent) + 1 - Len(Remember(w)) \in 1 .. Len(recent)
                       /\ Remember(w)[i] = recent[i + Len(recent) + 1 - Len(Remember(w))]
  <1>1. /\ recent \in Seq(Decided) /\ Len(recent) <= GuessLimit /\ Len(recent) \in Nat
        /\ now \in Time /\ GuessLimit \in Nat
    BY Sizes, SMT DEF TypeOK, Decided
  <1>2. req[w].failed \in Time /\ req[w].fresh \in BOOLEAN
    BY AttemptShape DEF Deciding
  <1>3. CASE ~req[w].fresh
    <2>1. Remember(w) = recent
      BY <1>1, <1>3, SMT DEF Remember
    <2> QED BY <1>1, <1>3, <2>1, SMT
  <1>4. CASE req[w].fresh
    <2> DEFINE e == [failed |-> req[w].failed, decided |-> now]
               all == Append(recent, e)
    <2>1. e \in Decided /\ e.failed = req[w].failed /\ e.decided = now
      BY <1>1, <1>2 DEF Decided
    <2>2. Remember(w) = IF Len(all) > GuessLimit THEN Tail(all) ELSE all
      BY <1>4 DEF Remember
    <2> HIDE DEF e
    <2>3. /\ all \in Seq(Decided) /\ Len(all) = Len(recent) + 1
          /\ \A i \in 1 .. Len(recent) : all[i] = recent[i]
          /\ all[Len(recent) + 1] = e
      BY <1>1, <2>1, SMT
    <2> HIDE DEF all
    <2>4. CASE Len(all) > GuessLimit
      <3>1. Remember(w) = Tail(all)
        BY <2>2, <2>4
      <3>2. /\ Tail(all) \in Seq(Decided) /\ Len(Tail(all)) = Len(recent)
            /\ \A i \in 1 .. Len(recent) : Tail(all)[i] = all[i + 1]
        BY <1>1, <2>3, SMT
      <3>3. Len(recent) >= 1 => Tail(all)[Len(recent)] = e
        BY <1>1, <2>3, <3>2, SMT
      <3>4. \A i \in 1 .. (Len(recent) - 1) : i + 1 \in 1 .. Len(recent) /\ Tail(all)[i] = recent[i + 1]
        BY <1>1, <2>3, <3>2, SMT
      <3>5. \A i \in 1 .. (Len(recent) - 1) : i + Len(recent) + 1 - Len(recent) = i + 1
        BY <1>1, SMT
      <3> QED BY <1>1, <1>4, <2>1, <3>1, <3>2, <3>3, <3>4, <3>5, SMTT(30)
    <2>5. CASE ~(Len(all) > GuessLimit)
      <3>1. Remember(w) = all
        BY <2>2, <2>5
      <3>2. \A i \in 1 .. (Len(all) - 1) : i + Len(recent) + 1 - Len(all) = i /\ i \in 1 .. Len(recent)
        BY <1>1, <2>3, SMT
      <3>3. Len(all) \in 0 .. GuessLimit
        BY <1>1, <2>3, <2>5, SMT
      <3> QED BY <1>1, <1>4, <2>1, <2>3, <3>1, <3>2, <3>3, SMT
    <2> QED BY <2>4, <2>5
  <1> QED BY <1>2, <1>3, <1>4

\* The types hold at the start.
LEMMA LkTypeInit ==
    ASSUME Init
    PROVE  TypeOK
  BY Sizes, LockoutAssumption, SMT DEF Init, TypeOK, Time, Account, Idle

\* The counter is cleared.
LEMMA ResetType ==
    ASSUME TypeOK, NEW w \in Workers, NEW q \in Attempt \cup {Idle}, ResetLoginAttempts(w, q),
           UNCHANGED now
    PROVE  TypeOK'
  <1>1. acct' \in Account /\ acct'.attempts = 0
    BY DEF ResetLoginAttempts, Account
  <1>2. ASSUME NEW v \in Workers
        PROVE  req'[v] \in Attempt \cup {Idle}
    <2>1. CASE v # w /\ req[v].pc = "decide"
      <3>1. req'[v] = [req[v] EXCEPT !.fresh = FALSE] /\ req[v] \in Deciding
        BY <2>1, AttemptShape DEF ResetLoginAttempts
      <3>2. req'[v] \in Deciding
        BY <3>1 DEF Deciding
      <3> QED BY <3>2 DEF Attempt, Deciding
    <2>2. CASE ~(v # w /\ req[v].pc = "decide")
      BY <2>2, AttemptShape DEF ResetLoginAttempts
    <2> QED BY <2>1, <2>2
  <1>3. req' \in [Workers -> Attempt \cup {Idle}]
    <2>1. req' = [v \in Workers |-> req'[v]]
      BY DEF ResetLoginAttempts
    <2> QED BY <1>2, <2>1
  <1>4. times' = << >> /\ recent' = << >>
    BY DEF ResetLoginAttempts
  <1> QED BY <1>1, <1>3, <1>4, Sizes, SMT DEF TypeOK

\* Every step keeps the types.
LEMMA LkType ==
    ASSUME TypeOK, [Next]_vars
    PROVE  TypeOK'
  <1> USE DEF TypeOK
  <1>1. ASSUME NEW w \in Workers, Begin(w)
        PROVE  TypeOK'
    <2>1. [pc |-> IF acct.until # Null THEN "reset" ELSE "verify", last |-> acct.last] \in Reading
      BY DEF Reading, Account
    <2> QED BY <1>1, <2>1 DEF Begin, Attempt, Reading
  <1>2. ASSUME NEW w \in Workers, ClearExpiredLock(w)
        PROVE  TypeOK'
    <2>1. req[w] \in Reading
      BY <1>2, AttemptShape DEF ClearExpiredLock
    <2>2. [req[w] EXCEPT !.pc = "verify"] \in Reading
      BY <2>1 DEF Reading
    <2> QED BY <1>2, <2>2, ResetType DEF ClearExpiredLock, Attempt, Reading
  <1>3. ASSUME NEW w \in Workers, VerifyPassword(w)
        PROVE  TypeOK'
    <2>1. PICK k \in {"clear", "increment"} : req' = [req EXCEPT ![w].pc = k]
      BY <1>3 DEF VerifyPassword
    <2>2. req[w] \in Reading
      BY <1>3, AttemptShape DEF VerifyPassword
    <2>3. [req[w] EXCEPT !.pc = k] \in Reading
      BY <2>2 DEF Reading
    <2>4. req' \in [Workers -> Attempt \cup {Idle}]
      BY <2>1, <2>3 DEF Attempt, Reading
    <2> QED BY <1>3, <2>4 DEF VerifyPassword
  <1>4. ASSUME NEW w \in Workers, IncrementFailedLoginAttempts(w)
        PROVE  TypeOK'
    <2> DEFINE q == [pc |-> "decide", last |-> req[w].last, attempts |-> acct.attempts + 1,
                     failed |-> now, fresh |-> TRUE]
    <2>1. acct.attempts \in Nat /\ req[w] \in Reading
      BY <1>4, AttemptShape DEF IncrementFailedLoginAttempts, Account
    <2>2. q \in Deciding
      BY <2>1, SMT DEF Deciding, Reading
    <2>3. req' = [req EXCEPT ![w] = q]
      BY <1>4 DEF IncrementFailedLoginAttempts
    <2> HIDE DEF q
    <2>4. req' \in [Workers -> Attempt \cup {Idle}]
      BY <2>2, <2>3 DEF Attempt, Deciding
    <2>5. acct' \in Account /\ acct'.attempts = acct.attempts + 1
      <3>1. acct' = [acct EXCEPT !.attempts = acct.attempts + 1, !.last = now]
        BY <1>4 DEF IncrementFailedLoginAttempts
      <3>2. acct.attempts + 1 \in Nat /\ now \in Time \cup {Null}
        BY <2>1, SMT
      <3> QED BY <3>1, <3>2 DEF Account
    <2>6. times' \in Seq(Time) /\ Len(times') = Len(times) + 1
      BY <1>4, SMT DEF IncrementFailedLoginAttempts
    <2> QED BY <1>4, <2>4, <2>5, <2>6 DEF IncrementFailedLoginAttempts
  <1>5. ASSUME NEW w \in Workers, Decide(w)
        PROVE  TypeOK'
    <2>1. now + DurationSeconds \in 0 .. (MaxTime + DurationSeconds)
      BY LockoutAssumption, SMT DEF Time
    <2>2. [pc |-> "lock", until |-> now + DurationSeconds] \in Attempt
      BY <2>1 DEF Attempt
    <2>3. req' \in [Workers -> Attempt \cup {Idle}]
      BY <1>5, <2>2 DEF Decide
    <2>4. recent' \in Seq(Decided) /\ Len(recent') \in 0 .. GuessLimit
      BY <1>5, RememberSays DEF Decide
    <2> QED BY <1>5, <2>3, <2>4, Sizes, SMT DEF Decide, Decided
  <1>6. ASSUME NEW w \in Workers, LockUserAccount(w)
        PROVE  TypeOK'
    <2>1. acct' \in Account /\ acct'.attempts = acct.attempts
      BY <1>6, AttemptShape DEF LockUserAccount, Account
    <2> QED BY <1>6, <2>1 DEF LockUserAccount
  <1>7. ASSUME NEW w \in Workers, ClearOnSuccess(w)
        PROVE  TypeOK'
    BY <1>7, ResetType DEF ClearOnSuccess
  <1>8. ASSUME NEW w \in Workers, Fail(w)
        PROVE  TypeOK'
    BY <1>8, Sizes, SMT DEF Fail
  <1>9. ASSUME Unlock
        PROVE  TypeOK'
    <2>1. acct' \in Account /\ acct'.attempts = acct.attempts
      BY <1>9 DEF Unlock, Account
    <2>2. ASSUME NEW v \in Workers
          PROVE  req'[v] \in Attempt \cup {Idle}
      <3>1. CASE req[v].pc = "decide"
        <4>1. req'[v] = [req[v] EXCEPT !.fresh = FALSE] /\ req[v] \in Deciding
          BY <1>9, <3>1, AttemptShape DEF Unlock
        <4>2. req'[v] \in Deciding
          BY <4>1 DEF Deciding
        <4> QED BY <4>2 DEF Attempt, Deciding
      <3>2. CASE req[v].pc # "decide"
        BY <1>9, <3>2, AttemptShape DEF Unlock
      <3> QED BY <3>1, <3>2
    <2>3. req' \in [Workers -> Attempt \cup {Idle}]
      <3>1. req' = [v \in Workers |-> req'[v]]
        BY <1>9 DEF Unlock
      <3> QED BY <2>2, <3>1
    <2> QED BY <1>9, <2>1, <2>3, Sizes, SMT DEF Unlock
  <1>10. ASSUME Tick
         PROVE  TypeOK'
    BY <1>10, Sizes, SMT DEF Tick, Time
  <1>11. ASSUME UNCHANGED vars
         PROVE  TypeOK'
    BY <1>11 DEF vars
  <1> QED BY <1>1, <1>2, <1>3, <1>4, <1>5, <1>6, <1>7, <1>8, <1>9, <1>10, <1>11 DEF Next

\* No step takes a failure of the row back, and every step keeps the dates.
LEMMA DatedKept ==
    ASSUME TypeOK, TypeOK', Dated, [Next]_vars
    PROVE  Dated'
  <1>0. Time \subseteq Nat /\ now \in Nat
    BY Sizes DEF TypeOK
  <1>1. ASSUME NEW w \in Workers, NEW q, ResetLoginAttempts(w, q), q.pc # "decide"
        PROVE  Dated'
    <2>1. acct'.last = Null /\ Len(recent') = 0
      BY <1>1 DEF ResetLoginAttempts
    <2>2. \A v \in Workers : ~(req'[v].pc = "decide" /\ req'[v].fresh)
      <3> SUFFICES ASSUME NEW v \in Workers
                   PROVE  ~(req'[v].pc = "decide" /\ req'[v].fresh)
        OBVIOUS
      <3>1. CASE v # w /\ req[v].pc = "decide"
        <4>1. req'[v] = [req[v] EXCEPT !.fresh = FALSE] /\ req[v] \in Deciding
          BY <1>1, <3>1, AttemptShape DEF ResetLoginAttempts
        <4>2. req'[v].fresh = FALSE
          BY <4>1 DEF Deciding
        <4> QED BY <4>2
      <3>2. CASE ~(v # w /\ req[v].pc = "decide")
        BY <1>1, <3>2 DEF ResetLoginAttempts
      <3> QED BY <3>1, <3>2
    <2> QED BY <2>1, <2>2, SMT DEF Dated
  <1>2. ASSUME NEW w \in Workers, Begin(w) \/ VerifyPassword(w)
        PROVE  Dated'
    <2>1. req[w] \in Attempt \cup {Idle} /\ (req[w].pc = "verify" => req[w] \in Reading)
      BY AttemptShape
    <2>2. req'[w].pc # "decide" /\ \A v \in Workers \ {w} : req'[v] = req[v]
      BY <1>2, <2>1, SMT DEF Begin, VerifyPassword, TypeOK, Reading
    <2>3. UNCHANGED <<now, acct, recent>>
      BY <1>2 DEF Begin, VerifyPassword
    <2> QED BY <2>2, <2>3 DEF Dated
  <1>3. ASSUME NEW w \in Workers, IncrementFailedLoginAttempts(w)
        PROVE  Dated'
    <2>1. acct' = [acct EXCEPT !.attempts = @ + 1, !.last = now] /\ acct.attempts \in Nat
      BY <1>3 DEF IncrementFailedLoginAttempts, TypeOK, Account
    <2>2. acct'.last = now /\ acct'.attempts >= 1 /\ now # Null
      <3>1. acct'.last = now /\ acct'.attempts = acct.attempts + 1
        BY <1>0, <2>1, SMTT(30) DEF TypeOK, Account
      <3>2. now # Null
        BY <1>0, LockoutAssumption, SMT DEF TypeOK
      <3> QED BY <2>1, <3>1, <3>2, SMT
    <2>3. UNCHANGED <<now, recent>> /\ req'[w].failed = now
          /\ \A v \in Workers \ {w} : req'[v] = req[v]
      BY <1>3 DEF IncrementFailedLoginAttempts, TypeOK
    <2>4. \A i \in 1 .. Len(recent) : recent[i].failed \in Nat
      BY <1>0, RecentTyped
    <2>5. acct.last # Null => acct.last \in Nat
      BY <1>0 DEF TypeOK, Account
    <2>6. \A v \in Workers : req[v].pc = "decide" => req[v].failed \in Nat
      BY <1>0, AttemptShape DEF Deciding
    <2> QED BY <1>0, <2>2, <2>3, <2>4, <2>5, <2>6, SMT DEF Dated
  <1>4. ASSUME NEW w \in Workers, Decide(w)
        PROVE  Dated'
    <2>1. /\ req'[w].pc # "decide" /\ \A v \in Workers \ {w} : req'[v] = req[v]
          /\ UNCHANGED <<now, acct>> /\ recent' = Remember(w) /\ req[w].pc = "decide"
      BY <1>4 DEF Decide, TypeOK, Idle
    <2>2. CASE ~req[w].fresh
      BY <2>1, <2>2, RememberSays DEF Dated
    <2>3. CASE req[w].fresh
      <3>1. acct.last # Null /\ req[w].failed <= acct.last
        BY <2>1, <2>3 DEF Dated
      <3>2. Len(recent') \in Nat /\ Len(recent) \in Nat
        BY SMT DEF TypeOK
      <3> DEFINE d == Len(recent) + 1 - Len(recent')
      <3>3. /\ Len(recent') >= 1 => /\ recent'[Len(recent')].failed = req[w].failed
                                   /\ recent'[Len(recent')].decided = now
            /\ \A i \in 1 .. (Len(recent') - 1) :
                  /\ i + d \in 1 .. Len(recent)
                  /\ recent'[i] = recent[i + d]
        <4>1. \A i \in 1 .. (Len(recent') - 1) : i + d = i + Len(recent) + 1 - Len(recent')
          BY <3>2, SMT
        <4> QED BY <2>1, <2>3, <4>1, RememberSays, ZenonT(30)
      <3>4. d \in Int
        BY <3>2, SMT
      <3> HIDE DEF d
      <3>5. ASSUME NEW i \in 1 .. Len(recent')
            PROVE  /\ recent'[i].failed <= acct.last /\ recent'[i].decided <= now
                   /\ \A j \in i .. Len(recent') : recent'[i].decided <= recent'[j].decided
        <4>1. CASE i = Len(recent')
          <5>1. recent'[i].failed = req[w].failed /\ recent'[i].decided = now
            BY <3>2, <3>3, <4>1, SMT
          <5>2. \A j \in i .. Len(recent') : j = i
            BY <3>2, <4>1, SMT
          <5> QED BY <1>0, <3>1, <5>1, <5>2, SMT
        <4>2. CASE i # Len(recent')
          <5>1. i \in 1 .. (Len(recent') - 1)
            BY <3>2, <4>2, SMT
          <5>2. i + d \in 1 .. Len(recent) /\ recent'[i] = recent[i + d]
            BY <3>3, <5>1
          <5>3. recent'[i].failed <= acct.last /\ recent'[i].decided <= now
            BY <5>2 DEF Dated
          <5>4. ASSUME NEW j \in i .. Len(recent')
                PROVE  recent'[i].decided <= recent'[j].decided
            <6>1. CASE j = Len(recent')
              BY <3>2, <3>3, <5>3, <6>1, SMT
            <6>2. CASE j # Len(recent')
              <7>1. j \in 1 .. (Len(recent') - 1)
                BY <3>2, <6>2, SMT
              <7>2. recent'[j] = recent[j + d] /\ j + d \in 1 .. Len(recent) /\ j + d \in (i + d) .. Len(recent)
                BY <3>2, <3>3, <3>4, <5>2, <7>1, SMT
              <7> QED BY <5>2, <7>2 DEF Dated
            <6> QED BY <6>1, <6>2
          <5> QED BY <5>3, <5>4
        <4> QED BY <4>1, <4>2
      <3> QED BY <2>1, <3>1, <3>5 DEF Dated
    <2> QED BY <2>2, <2>3
  <1>5. ASSUME NEW w \in Workers, LockUserAccount(w)
        PROVE  Dated'
    <2>1. acct'.last = acct.last /\ acct'.attempts = acct.attempts
      BY <1>5 DEF LockUserAccount, TypeOK, Account
    <2>2. UNCHANGED <<now, recent>> /\ req'[w].pc = "idle" /\ \A v \in Workers \ {w} : req'[v] = req[v]
      BY <1>5 DEF LockUserAccount, TypeOK, Idle
    <2> QED BY <2>1, <2>2 DEF Dated
  <1>6. ASSUME NEW w \in Workers, Fail(w)
        PROVE  Dated'
    <2>1. UNCHANGED <<now, acct>> /\ Len(recent') = 0 /\ req'[w].pc = "idle"
          /\ \A v \in Workers \ {w} : req'[v] = req[v]
      BY <1>6 DEF Fail, TypeOK, Idle
    <2> QED BY <2>1, SMT DEF Dated
  <1>7. ASSUME Unlock
        PROVE  Dated'
    <2>1. acct'.last = acct.last /\ acct'.attempts = acct.attempts
      BY <1>7 DEF Unlock, TypeOK, Account
    <2>2. UNCHANGED now /\ Len(recent') = 0
      BY <1>7 DEF Unlock
    <2>3. \A v \in Workers : ~(req'[v].pc = "decide" /\ req'[v].fresh)
      <3> SUFFICES ASSUME NEW v \in Workers
                   PROVE  ~(req'[v].pc = "decide" /\ req'[v].fresh)
        OBVIOUS
      <3>1. CASE req[v].pc = "decide"
        <4>1. req'[v] = [req[v] EXCEPT !.fresh = FALSE] /\ req[v] \in Deciding
          BY <1>7, <3>1, AttemptShape DEF Unlock
        <4>2. req'[v].fresh = FALSE
          BY <4>1 DEF Deciding
        <4> QED BY <4>2
      <3>2. CASE req[v].pc # "decide"
        BY <1>7, <3>2 DEF Unlock
      <3> QED BY <3>1, <3>2
    <2> QED BY <2>1, <2>2, <2>3, SMT DEF Dated
  <1>8. ASSUME Tick
        PROVE  Dated'
    <2>1. now' = now + 1 /\ UNCHANGED <<acct, req, recent>>
      BY <1>8 DEF Tick
    <2>2. \A i \in 1 .. Len(recent) : recent[i].decided \in Nat
      BY <1>0, RecentTyped
    <2>3. acct.last # Null => acct.last \in Nat
      BY <1>0 DEF TypeOK, Account
    <2> QED BY <1>0, <2>1, <2>2, <2>3, SMT DEF Dated
  <1>9. ASSUME UNCHANGED vars
        PROVE  Dated'
    BY <1>9 DEF vars, Dated
  <1>10. ASSUME NEW w \in Workers, ClearExpiredLock(w) \/ ClearOnSuccess(w)
         PROVE  Dated'
    <2>1. req[w].pc = "reset" => [req[w] EXCEPT !.pc = "verify"].pc = "verify"
      BY AttemptShape DEF Reading
    <2>2. Idle.pc = "idle"
      BY DEF Idle
    <2> QED BY <1>1, <1>10, <2>1, <2>2 DEF ClearExpiredLock, ClearOnSuccess
  <1> QED BY <1>2, <1>3, <1>4, <1>5, <1>6, <1>7, <1>8, <1>9, <1>10 DEF Next

\* Counting workers.
LEMMA WorkerSets ==
    ASSUME NEW S \in SUBSET Workers, NEW R \in SUBSET Workers
    PROVE  /\ Cardinality(S) \in Nat /\ Cardinality(S) <= Cardinality(Workers)
           /\ S \subseteq R => Cardinality(S) <= Cardinality(R)
           /\ \A x \in R : S \subseteq R \ {x} => Cardinality(S) + 1 <= Cardinality(R)
           /\ \A x : S \subseteq R \cup {x} => Cardinality(S) <= Cardinality(R) + 1
  <1>1. IsFiniteSet(S) /\ IsFiniteSet(R) /\ Cardinality(S) <= Cardinality(Workers)
    BY LockoutAssumption, FS_Subset
  <1>2. Cardinality(S) \in Nat /\ Cardinality(R) \in Nat
    BY <1>1, FS_CardinalityType
  <1>3. S \subseteq R => Cardinality(S) <= Cardinality(R)
    BY <1>1, FS_Subset
  <1>4. ASSUME NEW x \in R, S \subseteq R \ {x}
        PROVE  Cardinality(S) + 1 <= Cardinality(R)
    <2>1. IsFiniteSet(R \ {x}) /\ Cardinality(R \ {x}) = Cardinality(R) - 1
      BY <1>1, FS_RemoveElement
    <2>2. Cardinality(S) <= Cardinality(R \ {x})
      BY <1>4, <2>1, FS_Subset
    <2> QED BY <1>2, <2>1, <2>2, SMT
  <1>5. ASSUME NEW x, S \subseteq R \cup {x}
        PROVE  Cardinality(S) <= Cardinality(R) + 1
    <2>1. /\ IsFiniteSet(R \cup {x})
          /\ Cardinality(R \cup {x}) = IF x \in R THEN Cardinality(R) ELSE Cardinality(R) + 1
      BY <1>1, FS_AddElement
    <2>2. Cardinality(S) <= Cardinality(R \cup {x})
      BY <1>5, <2>1, FS_Subset
    <2>3. Cardinality(R \cup {x}) <= Cardinality(R) + 1 /\ Cardinality(R \cup {x}) \in Nat
      BY <1>2, <2>1, SMT
    <2> QED BY <1>2, <2>2, <2>3, SMT
  <1> QED BY <1>1, <1>2, <1>3, <1>4, <1>5

\* The bound speaks of the workers at risk before and after a step.
LEMMA RiskSets == \A T : Risk(T) \in SUBSET Workers /\ Risk(T)' \in SUBSET Workers
  BY DEF Risk

\* With an empty history all workers may be at risk.
LEMMA MissFromEmpty ==
    ASSUME MaxAttempts >= 2, TypeOK', Dated', Len(recent') = 0
    PROVE  MissBound'
  <1> SUFFICES ASSUME NEW T \in Int, NEW m \in 0 .. Len(recent'), acct'.last # Null
               PROVE  m + Cardinality(Risk(T)') <= Cardinality(Workers) - 1 + Allowed'
    BY DEF MissBound
  <1>1. m = 0
    BY SMT
  <1>2. Allowed' >= 1 /\ Allowed' \in Nat
    BY LockoutAssumption, SMT DEF Allowed, Dated, TypeOK, Account
  <1>3. Cardinality(Risk(T)') <= Cardinality(Workers) /\ Cardinality(Risk(T)') \in Nat
    BY WorkerSets, RiskSets
  <1> QED BY <1>1, <1>2, <1>3, Sizes, SMT

\* A step that leaves counter and history alone and puts no worker at risk.
LEMMA MissKept ==
    ASSUME TypeOK, MissBound, LockSetOrComing => LockSetOrComing', UNCHANGED recent,
           acct'.last = acct.last, acct'.attempts = acct.attempts,
           \A T \in Int : acct.last # Null /\ acct.last >= T => Risk(T)' \subseteq Risk(T)
    PROVE  MissBound'
  <1> SUFFICES ASSUME ~LockSetOrComing', NEW T \in Int, NEW m \in 0 .. Len(recent),
                      acct.last # Null, acct.last >= T, InWindow(T, m)
               PROVE  m + Cardinality(Risk(T)') <= Cardinality(Workers) - 1 + Allowed
    BY DEF MissBound, InWindow, Allowed
  <1>1. m + Cardinality(Risk(T)) <= Cardinality(Workers) - 1 + Allowed
    BY DEF MissBound
  <1>2. /\ Cardinality(Risk(T)') <= Cardinality(Risk(T)) /\ Cardinality(Risk(T)') \in Nat
        /\ Cardinality(Risk(T)) \in Nat
    BY WorkerSets, RiskSets
  <1>3. Allowed \in Int /\ m \in Int
    BY LockoutAssumption, SMT DEF Allowed, TypeOK, Account
  <1> QED BY <1>1, <1>2, <1>3, Sizes, SMT

\* A failure: within a window that has one already, a small counter may be missed
\* and a large one only by a worker that was at risk; a window's first failure
\* leaves one worker of all, or none, out.
LEMMA MissIncrement ==
    ASSUME MaxAttempts >= 2, TypeOK, TypeOK', Dated, MissBound,
           NEW w \in Workers, IncrementFailedLoginAttempts(w)
    PROVE  MissBound'
  <1>1. /\ req[w].pc = "increment" /\ acct' = [acct EXCEPT !.attempts = @ + 1, !.last = now]
        /\ UNCHANGED <<now, recent>>
        /\ req' = [req EXCEPT ![w] =
                     [pc |-> "decide", last |-> req[w].last, attempts |-> acct.attempts + 1,
                      failed |-> now, fresh |-> TRUE]]
    BY DEF IncrementFailedLoginAttempts
  <1>2. /\ acct'.attempts = acct.attempts + 1 /\ acct'.last = now /\ acct'.until = acct.until
        /\ acct.attempts \in Nat /\ now \in Nat
    BY <1>1, Sizes DEF TypeOK, Account
  <1>3. /\ req'[w].pc = "decide" /\ req'[w].last = req[w].last
        /\ req'[w].attempts = acct.attempts + 1
        /\ \A v \in Workers \ {w} : req'[v] = req[v]
    BY <1>1 DEF TypeOK
  <1>4. LockSetOrComing => LockSetOrComing'
    BY <1>1, <1>2, <1>3 DEF LockSetOrComing
  <1> SUFFICES ASSUME ~LockSetOrComing, NEW T \in Int, NEW m \in 0 .. Len(recent),
                      now >= T, InWindow(T, m)
               PROVE  m + Cardinality(Risk(T)') <= Cardinality(Workers) - 1 + Allowed'
    BY <1>1, <1>2, <1>4 DEF MissBound, InWindow
  <1>5. /\ Cardinality(Risk(T)') <= Cardinality(Workers) /\ Cardinality(Risk(T)') \in Nat
        /\ Cardinality(Risk(T)) \in Nat /\ Cardinality(Workers) \in Nat
    BY WorkerSets, RiskSets, Sizes
  <1>6. Allowed' \in Nat /\ Allowed \in Nat /\ Allowed' >= 1
    BY <1>2, LockoutAssumption, SMTT(30) DEF Allowed
  <1>7. acct.last # Null => acct.last \in Nat
    BY Sizes DEF TypeOK, Account
  <1>8. CASE acct.last # Null /\ acct.last >= T
    <2>1. m + Cardinality(Risk(T)) <= Cardinality(Workers) - 1 + Allowed
      BY <1>8 DEF MissBound
    <2>2. CASE acct.attempts + 1 < MaxAttempts
      <3>1. Allowed' = Allowed + 1
        BY <1>2, <2>2, LockoutAssumption, SMT DEF Allowed
      <3>2. Risk(T)' \subseteq Risk(T) \cup {w}
        BY <1>3 DEF Risk, AtRisk
      <3>3. Cardinality(Risk(T)') <= Cardinality(Risk(T)) + 1
        BY <3>2, WorkerSets, RiskSets
      <3> QED BY <1>5, <1>6, <2>1, <3>1, <3>3, SMTT(30)
    <2>3. CASE ~(acct.attempts + 1 < MaxAttempts)
      <3>1. Allowed' = Allowed
        BY <1>2, <2>3, LockoutAssumption, SMT DEF Allowed
      <3>2. Risk(T)' \subseteq Risk(T)
        BY <1>1, <1>2, <1>3, <2>3, LockoutAssumption, ZenonT(30) DEF Risk, AtRisk
      <3>3. Cardinality(Risk(T)') <= Cardinality(Risk(T))
        BY <3>2, WorkerSets, RiskSets
      <3> QED BY <1>5, <1>6, <2>1, <3>1, <3>3, SMT
    <2> QED BY <2>2, <2>3
  <1>9. CASE ~(acct.last # Null /\ acct.last >= T)
    <2>1. m = 0
      <3> SUFFICES ASSUME m # 0
                   PROVE  FALSE
        OBVIOUS
      <3>1. Len(recent) \in Nat
        BY SMT DEF TypeOK
      <3>2. Len(recent) \in (Len(recent) - m + 1) .. Len(recent) /\ Len(recent) \in 1 .. Len(recent)
        BY <3>1, SMT
      <3>3. recent[Len(recent)].failed >= T /\ recent[Len(recent)].failed \in Nat
        BY <3>2, RecentTyped, Sizes DEF InWindow
      <3>4. acct.last # Null /\ recent[Len(recent)].failed <= acct.last
        BY <3>2 DEF Dated
      <3> QED BY <1>7, <1>9, <3>3, <3>4, SMT
    <2> QED BY <1>5, <1>6, <2>1, SMT
  <1> QED BY <1>8, <1>9

\* A decision without a lock on a failure of the window is one worker's less that
\* can make one.
LEMMA MissDecide ==
    ASSUME TypeOK, TypeOK', Dated, MissBound, NEW w \in Workers, Decide(w)
    PROVE  MissBound'
  <1>1. /\ req[w].pc = "decide" /\ UNCHANGED <<now, acct>> /\ recent' = Remember(w)
        /\ \A v \in Workers \ {w} : req'[v] = req[v]
        /\ MustLock(w) => req'[w].pc = "lock"
        /\ ~MustLock(w) => req'[w].pc = "idle"
    BY DEF Decide, TypeOK, Idle
  <1>2. req[w] \in Deciding /\ req'[w].pc \in {"lock", "idle"}
    BY <1>1, AttemptShape
  <1>3. /\ LockSetOrComing => LockSetOrComing'
        /\ MustLock(w) => LockSetOrComing'
    BY <1>1 DEF LockSetOrComing
  <1> SUFFICES ASSUME ~LockSetOrComing, ~MustLock(w), NEW T \in Int, NEW m \in 0 .. Len(recent'),
                      acct.last # Null, acct.last >= T, InWindow(T, m)'
               PROVE  m + Cardinality(Risk(T)') <= Cardinality(Workers) - 1 + Allowed
    BY <1>1, <1>3 DEF MissBound, Allowed
  <1>4. Risk(T)' \subseteq Risk(T) \ {w}
    BY <1>1, <1>2 DEF Risk, AtRisk
  <1>5. /\ Cardinality(Risk(T)') \in Nat /\ Cardinality(Risk(T)) \in Nat
        /\ Cardinality(Risk(T)') <= Cardinality(Risk(T))
        /\ w \in Risk(T) => Cardinality(Risk(T)') + 1 <= Cardinality(Risk(T))
    BY <1>4, WorkerSets, RiskSets
  <1>6. Allowed \in Int /\ Cardinality(Workers) \in Nat /\ m \in Int
    BY LockoutAssumption, Sizes, SMT DEF Allowed, TypeOK, Account
  <1>7. \A k \in 0 .. Len(recent) : InWindow(T, k) =>
           k + Cardinality(Risk(T)) <= Cardinality(Workers) - 1 + Allowed
    BY DEF MissBound
  <1>8. Len(recent) \in Nat /\ Len(recent') \in Nat
    BY SMT DEF TypeOK
  <1>9. CASE ~req[w].fresh
    <2>1. recent' = recent
      BY <1>1, <1>9, RememberSays
    <2>2. m \in 0 .. Len(recent) /\ InWindow(T, m)
      BY <2>1 DEF InWindow
    <2> QED BY <1>5, <1>6, <1>7, <2>2, SMT
  <1>10. CASE req[w].fresh /\ m = 0
    <2>1. 0 \in 0 .. Len(recent) /\ InWindow(T, 0)
      BY <1>8, SMT DEF InWindow
    <2> QED BY <1>5, <1>6, <1>7, <1>10, <2>1, SMT
  <1>11. CASE req[w].fresh /\ m # 0
    <2> DEFINE d == Len(recent) + 1 - Len(recent')
    <2>1. /\ Len(recent') <= Len(recent) + 1 /\ Len(recent') >= 1
          /\ recent'[Len(recent')].failed = req[w].failed
          /\ recent'[Len(recent')].decided = now
          /\ \A i \in 1 .. (Len(recent') - 1) :
                /\ i + d \in 1 .. Len(recent)
                /\ recent'[i] = recent[i + d]
      <3>1. Len(recent') >= 1
        BY <1>8, <1>11, SMT
      <3>2. \A i \in 1 .. (Len(recent') - 1) : i + d = i + Len(recent) + 1 - Len(recent')
        BY <1>8, SMT
      <3> QED BY <1>1, <1>11, <3>1, <3>2, RememberSays, ZenonT(30)
    <2>2. req[w].failed >= T /\ now <= T + WindowSeconds
      <3>1. Len(recent') \in (Len(recent') - m + 1) .. Len(recent')
        BY <1>8, <1>11, <2>1, SMT
      <3> QED BY <2>1, <3>1 DEF InWindow
    <2>3. m - 1 \in 0 .. Len(recent)
      BY <1>8, <1>11, <2>1, SMT
    <2>4. InWindow(T, m - 1)
      <3> SUFFICES ASSUME NEW i \in (Len(recent) - (m - 1) + 1) .. Len(recent)
                   PROVE  recent[i].failed >= T /\ recent[i].decided <= T + WindowSeconds
        BY DEF InWindow
      <3>1. /\ i - d \in 1 .. (Len(recent') - 1) /\ (i - d) + d = i
            /\ i - d \in (Len(recent') - m + 1) .. Len(recent')
        BY <1>6, <1>8, <2>1, SMT
      <3>2. recent'[i - d] = recent[i]
        BY <2>1, <3>1
      <3>3. recent'[i - d].failed >= T /\ recent'[i - d].decided <= T + WindowSeconds
        BY <3>1 DEF InWindow
      <3> QED BY <3>2, <3>3
    <2>5. w \in Risk(T)
      <3> SUFFICES ASSUME ~AtRisk(w, T)
                   PROVE  FALSE
        BY DEF Risk
      <3>1. /\ req[w].last # Null /\ ~(req[w].last < T)
            /\ ~(req[w].attempts < MaxAttempts)
        BY <1>1, <1>11, <2>2 DEF AtRisk
      <3>2. req[w].last \in Nat /\ req[w].attempts \in Nat /\ now \in Nat
        BY <1>2, <3>1, Sizes DEF Deciding, TypeOK
      <3>3. req[w].attempts >= MaxAttempts /\ now - req[w].last <= WindowSeconds
        BY <2>2, <3>1, <3>2, LockoutAssumption, SMTT(30)
      <3> QED BY <3>1, <3>3 DEF MustLock
    <2> QED BY <1>5, <1>6, <1>7, <2>3, <2>4, <2>5, SMTT(30)
  <1> QED BY <1>9, <1>10, <1>11

\* Every step keeps the bound.
LEMMA MissNext ==
    ASSUME MaxAttempts >= 2, LkInv, TypeOK', Dated', [Next]_vars
    PROVE  MissBound'
  <1> USE DEF LkInv
  <1>1. ASSUME NEW w \in Workers, Begin(w) \/ VerifyPassword(w)
        PROVE  MissBound'
    <2>1. /\ UNCHANGED <<acct, recent>> /\ \A v \in Workers \ {w} : req'[v] = req[v]
          /\ req[w].pc \in {"idle", "verify"}
      BY <1>1 DEF Begin, VerifyPassword, TypeOK
    <2>2. LockSetOrComing => LockSetOrComing'
      BY <2>1 DEF LockSetOrComing
    <2>3. /\ req'[w].pc \in {"reset", "verify", "clear", "increment"}
          /\ req'[w].last = acct.last \/ (req[w].pc = "verify" /\ req'[w].last = req[w].last)
      <3>1. CASE Begin(w)
        BY <3>1 DEF Begin, TypeOK
      <3>2. CASE VerifyPassword(w)
        <4>1. req[w] \in Reading /\ req[w].pc = "verify"
          BY <3>2, AttemptShape DEF VerifyPassword
        <4>2. PICK k \in {"clear", "increment"} : req' = [req EXCEPT ![w].pc = k]
          BY <3>2 DEF VerifyPassword
        <4>3. req'[w] = [req[w] EXCEPT !.pc = k]
          BY <4>2 DEF TypeOK
        <4> QED BY <4>1, <4>3 DEF Reading
      <3> QED BY <1>1, <3>1, <3>2
    <2>4. ASSUME NEW T \in Int, acct.last # Null /\ acct.last >= T
          PROVE  Risk(T)' \subseteq Risk(T)
      <3>1. acct.last \in Nat
        BY <2>4, Sizes DEF TypeOK, Account
      <3>2. AtRisk(w, T)' => AtRisk(w, T)
        BY <2>3, <2>4, <3>1, SMT DEF AtRisk
      <3>3. \A v \in Workers \ {w} : AtRisk(v, T)' => AtRisk(v, T)
        BY <2>1 DEF AtRisk
      <3> QED BY <3>2, <3>3 DEF Risk
    <2> QED BY <2>1, <2>2, <2>4, MissKept
  <1>2. ASSUME NEW w \in Workers, ClearExpiredLock(w) \/ ClearOnSuccess(w)
        PROVE  MissBound'
    BY <1>2, MissFromEmpty DEF ClearExpiredLock, ClearOnSuccess, ResetLoginAttempts
  <1>3. ASSUME NEW w \in Workers, LockUserAccount(w)
        PROVE  MissBound'
    <2>1. acct'.until = req[w].until /\ req[w].until \in Nat
      BY <1>3, AttemptShape, LockoutAssumption, SMT DEF LockUserAccount, TypeOK, Account
    <2> QED BY <2>1, LockoutAssumption DEF MissBound, LockSetOrComing
  <1>4. ASSUME NEW w \in Workers, Fail(w)
        PROVE  MissBound'
    BY <1>4, MissFromEmpty DEF Fail
  <1>5. ASSUME Unlock
        PROVE  MissBound'
    BY <1>5, MissFromEmpty DEF Unlock
  <1>6. ASSUME UNCHANGED <<acct, req, recent>>
        PROVE  MissBound'
    <2>1. \A T : Risk(T)' = Risk(T)
      BY <1>6 DEF Risk, AtRisk
    <2>2. LockSetOrComing => LockSetOrComing'
      BY <1>6 DEF LockSetOrComing
    <2> QED BY <1>6, <2>1, <2>2, MissKept
  <1> QED BY <1>1, <1>2, <1>3, <1>4, <1>5, <1>6, MissIncrement, MissDecide DEF Next, Tick, vars

\* The bound is the promise: a burst of GuessLimit decided failures would be one more
\* than it leaves.
LEMMA BoundGuesses ==
    ASSUME MaxAttempts >= 2, LkInv
    PROVE  GuessBound
  <1> USE DEF LkInv
  <1> SUFFICES ASSUME Burst(GuessLimit), ~LockSetOrComing
               PROVE  FALSE
    BY DEF GuessBound
  <1>1. /\ Len(recent) = GuessLimit /\ GuessLimit \in Nat /\ GuessLimit >= 1
        /\ GuessLimit = MaxAttempts + Cardinality(Workers) - 1
    BY Sizes, LockoutAssumption, SMT DEF Burst, TypeOK
  <1> DEFINE n == Len(recent)
             T == recent[n].decided - WindowSeconds
  <1>2. n \in 1 .. n /\ n \in (n - n + 1) .. n /\ n \in Nat
    BY <1>1, SMT
  <1>3. recent[n].decided \in Nat /\ T \in Int /\ T = recent[n].decided - WindowSeconds
    <2>1. recent[n].decided \in Nat
      BY <1>2, RecentTyped, Sizes
    <2> QED BY <2>1, LockoutAssumption, SMT
  <1> HIDE DEF T
  <1>4. InWindow(T, n)
    <2> SUFFICES ASSUME NEW i \in 1 .. n
                 PROVE  recent[i].failed >= T /\ recent[i].decided <= T + WindowSeconds
      BY <1>2, SMT DEF InWindow
    <2>1. recent[i].failed \in Nat /\ recent[i].decided \in Nat
      BY RecentTyped, Sizes
    <2>2. recent[n].decided - recent[i].failed <= WindowSeconds
      BY <1>1, SMT DEF Burst
    <2>3. recent[i].decided <= recent[n].decided
      BY <1>2, SMT DEF Dated
    <2>4. WindowSeconds \in Nat
      BY LockoutAssumption
    <2> QED BY <1>3, <2>1, <2>2, <2>3, <2>4, SMTT(30)
  <1>5. acct.last # Null /\ acct.last >= T
    <2>1. acct.last # Null /\ recent[n].failed <= acct.last /\ recent[n].failed \in Nat
      BY <1>2, RecentTyped, Sizes DEF Dated
    <2>2. acct.last \in Nat
      BY <2>1, Sizes DEF TypeOK, Account
    <2>3. recent[n].failed >= T
      BY <1>2, <1>4 DEF InWindow
    <2> QED BY <1>3, <2>1, <2>2, <2>3, SMT
  <1>6. n + Cardinality(Risk(T)) <= Cardinality(Workers) - 1 + Allowed
    <2>1. n \in 0 .. Len(recent)
      BY <1>2, SMT
    <2> QED BY <1>3, <1>4, <1>5, <2>1 DEF MissBound
  <1>7. Allowed \in Int /\ Allowed <= MaxAttempts - 1
    BY LockoutAssumption, SMT DEF Allowed, TypeOK, Account
  <1>8. Cardinality(Risk(T)) \in Nat /\ Cardinality(Workers) \in Nat
    BY WorkerSets, RiskSets, Sizes
  <1> QED BY <1>1, <1>6, <1>7, <1>8, LockoutAssumption, SMT

---------------------------------------------------------------------------
(* Logins and changes of password                                          *)

\* An attempt is checked while VerifyCredentials runs for it; past the comparison
\* its password is the hash it read, which is still the account's if the change was
\* made before; and it gets beyond the forced change only once that is made.
LoginSafe(w) ==
    /\ login[w].pc = "check" <=> req[w].pc # "idle"
    /\ login[w].pc # "idle" /\ login[w].late => Settled /\ login[w].hash = row.pw
    /\ login[w].pc \in {"touch", "revoke", "store"} \/ req[w].pc = "clear" =>
          login[w].tried = login[w].hash
    /\ login[w].pc \in {"revoke", "store"} => ~due

AccSafe ==
    /\ \A w \in Workers : LoginSafe(w)
    /\ due => row.force
    /\ \A x \in Changers : chg[x].pc \in {"flag", "store"} => ~due
    /\ NoSessionBeforeChange

AInv == AccTypeOK /\ AccSafe

Trying == [pc: {"check", "touch", "revoke", "store"}, tried: Passwords, hash: Passwords,
           late: BOOLEAN, off: BOOLEAN]

Changing == [pc: {"hash", "flag", "store"}, k: Challenges, new: Passwords]

\* Where a login or a change is says which fields it has.
LEMMA LoginShape ==
    ASSUME AccTypeOK
    PROVE  /\ \A w \in Workers : login[w] = LoginIdle \/ login[w] \in Trying
           /\ \A w \in Workers : login[w].pc # "idle" => login[w] \in Trying
           /\ \A x \in Changers : chg[x] = LoginIdle \/ chg[x] \in Changing
           /\ \A x \in Changers : chg[x].pc # "idle" => chg[x] \in Changing
           /\ LoginIdle.pc = "idle"
  BY SMT DEF AccTypeOK, LoginStates, ChgStates, LoginIdle, Trying, Changing

\* What an account does, its lockout does or does not see.
LEMMA AccStepIsLockoutStep ==
    ASSUME [AccNext]_accVars
    PROVE  [Next]_vars
  <1>1. ASSUME NEW w \in Workers, LoginStep(w)
        PROVE  [Next]_vars
    BY <1>1 DEF LoginStep, AccBegin, AccVerify, AccCheck, AccClear, UpdateLastLogin,
                RevokeSessions, OpenSession, LoginFails, Next
  <1>2. ASSUME NEW x \in Changers, ChgStep(x)
        PROVE  UNCHANGED vars
    BY <1>2 DEF ChgStep, ChgRead, UpdatePasswordHash, SetForcePasswordChange, ChgOpenSession,
                ChgFails
  <1>3. ASSUME UpdateUserStatus
        PROVE  UNCHANGED vars
    BY <1>3 DEF UpdateUserStatus
  <1>4. ASSUME UNCHANGED accVars
        PROVE  UNCHANGED vars
    BY <1>4 DEF accVars
  <1> QED BY <1>1, <1>2, <1>3, <1>4 DEF AccNext, Next

\* A step of one attempt leaves the others where they are.
LEMMA OthersStay ==
    ASSUME TypeOK, NEW w \in Workers,
           \/ Begin(w) \/ VerifyPassword(w) \/ ClearExpiredLock(w) \/ ClearOnSuccess(w)
           \/ IncrementFailedLoginAttempts(w) \/ Decide(w) \/ LockUserAccount(w) \/ Fail(w)
    PROVE  \A v \in Workers \ {w} : req'[v].pc = req[v].pc
  <1> SUFFICES ASSUME NEW v \in Workers \ {w}
               PROVE  req'[v].pc = req[v].pc
    OBVIOUS
  <1>1. CASE ClearExpiredLock(w) \/ ClearOnSuccess(w)
    <2>1. req'[v] = IF req[v].pc = "decide" THEN [req[v] EXCEPT !.fresh = FALSE] ELSE req[v]
      BY <1>1 DEF ClearExpiredLock, ClearOnSuccess, ResetLoginAttempts
    <2>2. CASE req[v].pc = "decide"
      BY <2>1, <2>2, AttemptShape DEF Deciding
    <2>3. CASE req[v].pc # "decide"
      BY <2>1, <2>3
    <2> QED BY <2>2, <2>3
  <1>2. CASE ~(ClearExpiredLock(w) \/ ClearOnSuccess(w))
    BY <1>2 DEF Begin, VerifyPassword, IncrementFailedLoginAttempts, Decide, LockUserAccount, Fail,
                TypeOK
  <1> QED BY <1>1, <1>2

\* Where a step of VerifyCredentials takes its own attempt.
LEMMA AttemptGoes ==
    ASSUME TypeOK, NEW w \in Workers
    PROVE  /\ Begin(w) => req[w].pc = "idle" /\ req'[w].pc \in {"reset", "verify"}
           /\ VerifyPassword(w) => req[w].pc = "verify" /\ req'[w].pc \in {"clear", "increment"}
           /\ ClearExpiredLock(w) => req[w].pc = "reset" /\ req'[w].pc = "verify"
           /\ ClearOnSuccess(w) => req[w].pc = "clear" /\ req'[w].pc = "idle"
           /\ IncrementFailedLoginAttempts(w) => req[w].pc = "increment" /\ req'[w].pc = "decide"
           /\ Decide(w) => req[w].pc = "decide" /\ req'[w].pc \in {"idle", "lock"}
           /\ LockUserAccount(w) => req[w].pc = "lock" /\ req'[w].pc = "idle"
           /\ Fail(w) => req[w].pc # "idle" /\ req'[w].pc = "idle"
  <1>1. Begin(w) => req[w].pc = "idle" /\ req'[w].pc \in {"reset", "verify"}
    BY SMT DEF Begin, TypeOK
  <1>2. ASSUME VerifyPassword(w)
        PROVE  req[w].pc = "verify" /\ req'[w].pc \in {"clear", "increment"}
    <2>1. req[w] \in Reading /\ req[w].pc = "verify"
      BY <1>2, AttemptShape DEF VerifyPassword
    <2>2. PICK k \in {"clear", "increment"} : req' = [req EXCEPT ![w].pc = k]
      BY <1>2 DEF VerifyPassword
    <2> QED BY <2>1, <2>2 DEF TypeOK, Reading
  <1>3. ASSUME ClearExpiredLock(w)
        PROVE  req[w].pc = "reset" /\ req'[w].pc = "verify"
    <2>1. req[w] \in Reading /\ req[w].pc = "reset"
      BY <1>3, AttemptShape DEF ClearExpiredLock
    <2> QED BY <1>3, <2>1 DEF ClearExpiredLock, ResetLoginAttempts, Reading
  <1>4. ClearOnSuccess(w) => req[w].pc = "clear" /\ req'[w].pc = "idle"
    BY SMT DEF ClearOnSuccess, ResetLoginAttempts, Idle
  <1>5. /\ IncrementFailedLoginAttempts(w) => req[w].pc = "increment" /\ req'[w].pc = "decide"
        /\ Decide(w) => req[w].pc = "decide" /\ req'[w].pc \in {"idle", "lock"}
        /\ LockUserAccount(w) => req[w].pc = "lock" /\ req'[w].pc = "idle"
        /\ Fail(w) => req[w].pc # "idle" /\ req'[w].pc = "idle"
    BY SMT DEF IncrementFailedLoginAttempts, Decide, LockUserAccount, Fail, Idle, TypeOK
  <1> QED BY <1>1, <1>2, <1>3, <1>4, <1>5

\* A step of one login keeps what is known if it does so for that login.
LEMMA LoginMove ==
    ASSUME AInv, TypeOK', NEW w \in Workers,
           login' \in [Workers -> LoginStates],
           \A v \in Workers \ {w} : login'[v] = login[v] /\ req'[v].pc = req[v].pc,
           UNCHANGED <<row, chg, due>>,
           chal' \in [Challenges -> 0 .. (MaxTime + ChallengeTTL) \cup {Null}],
           sessions' \subseteq Workers \cup Changers,
           sessions' # {} => ~due,
           LoginSafe(w)'
    PROVE  AInv'
  <1>1. AccTypeOK'
    BY DEF AInv, AccTypeOK
  <1>2. ASSUME NEW v \in Workers
        PROVE  LoginSafe(v)'
    <2>1. CASE v = w
      BY <2>1
    <2>2. CASE v # w
      <3>1. /\ LoginSafe(v) /\ login'[v] = login[v] /\ req'[v].pc = req[v].pc
            /\ Settled' = Settled /\ row' = row /\ due' = due
        BY <2>2 DEF AInv, AccSafe, Settled
      <3> QED BY <3>1, SMT DEF LoginSafe
    <2> QED BY <2>1, <2>2
  <1>3. AccSafe'
    BY <1>2 DEF AInv, AccSafe, NoSessionBeforeChange
  <1> QED BY <1>1, <1>3 DEF AInv

\* A login that ends knows nothing any more.
LEMMA LoginEnds ==
    ASSUME AInv, TypeOK', NEW w \in Workers, req'[w].pc = "idle",
           login' = [login EXCEPT ![w] = LoginIdle],
           \A v \in Workers \ {w} : req'[v].pc = req[v].pc,
           UNCHANGED <<row, chg, due>>,
           chal' \in [Challenges -> 0 .. (MaxTime + ChallengeTTL) \cup {Null}],
           sessions' \subseteq Workers \cup Changers,
           sessions' # {} => ~due
    PROVE  AInv'
  <1>1. /\ login' \in [Workers -> LoginStates] /\ login'[w] = LoginIdle
        /\ \A v \in Workers \ {w} : login'[v] = login[v]
    BY DEF AInv, AccTypeOK, LoginStates
  <1>2. LoginIdle.pc = "idle"
    BY DEF LoginIdle
  <1>3. LoginSafe(w)'
    BY <1>1, <1>2 DEF LoginSafe
  <1> QED BY <1>1, <1>3, LoginMove

\* A login that goes on has the fields it had.
LEMMA LoginGoesOn ==
    ASSUME AInv, NEW w \in Workers, login[w].pc # "idle",
           NEW k \in {"check", "touch", "revoke", "store"}, LoginGoes(w, k)
    PROVE  /\ login' \in [Workers -> LoginStates]
           /\ \A v \in Workers \ {w} : login'[v] = login[v]
           /\ login'[w].pc = k /\ login'[w].tried = login[w].tried
           /\ login'[w].hash = login[w].hash /\ login'[w].late = login[w].late
  <1> DEFINE g == [login[w] EXCEPT !.pc = k]
  <1>1. login[w] \in Trying
    BY LoginShape DEF AInv
  <1>2. /\ g \in Trying /\ g.pc = k /\ g.tried = login[w].tried /\ g.hash = login[w].hash
        /\ g.late = login[w].late
    BY <1>1 DEF Trying
  <1>3. g \in LoginStates
    BY <1>2 DEF Trying, LoginStates
  <1>4. login' = [login EXCEPT ![w] = g]
    BY DEF LoginGoes
  <1> HIDE DEF g
  <1> QED BY <1>2, <1>3, <1>4 DEF AInv, AccTypeOK

\* Every step of a login.
LEMMA LoginStepInv ==
    ASSUME AInv, TypeOK', NEW w \in Workers, LoginStep(w)
    PROVE  AInv'
  <1> USE DEF AInv
  <1>1. TypeOK /\ LoginSafe(w) /\ NoSessionBeforeChange /\ (due => row.force)
    BY DEF AccTypeOK, AccSafe
  <1>2. /\ chal \in [Challenges -> 0 .. (MaxTime + ChallengeTTL) \cup {Null}]
        /\ sessions \subseteq Workers \cup Changers
        /\ sessions # {} => ~due
    BY <1>1 DEF AccTypeOK, NoSessionBeforeChange
  <1>3. CASE AccBegin(w)
    <2>1. PICK p \in Passwords :
             login' = [login EXCEPT ![w] = [pc |-> "check", tried |-> p, hash |-> row.pw,
                                            late |-> Settled, off |-> ~row.active]]
      BY <1>3 DEF AccBegin
    <2> DEFINE g == [pc |-> "check", tried |-> p, hash |-> row.pw, late |-> Settled,
                     off |-> ~row.active]
    <2>2. g \in LoginStates
      <3>1. row.pw \in Passwords
        BY DEF AccTypeOK
      <3>2. Settled \in BOOLEAN /\ (~row.active) \in BOOLEAN
        BY DEF Settled
      <3> QED BY <3>1, <3>2 DEF LoginStates
    <2>3. g.pc = "check" /\ g.tried = p /\ g.hash = row.pw /\ g.late = Settled
      OBVIOUS
    <2>4. login' = [login EXCEPT ![w] = g]
      BY <2>1
    <2> HIDE DEF g
    <2>5. /\ login' \in [Workers -> LoginStates] /\ login'[w] = g
          /\ \A v \in Workers \ {w} : login'[v] = login[v]
      BY <2>2, <2>4 DEF AccTypeOK
    <2>6. /\ Begin(w) /\ UNCHANGED <<row, chg, chal, sessions, due>>
          /\ req'[w].pc \in {"reset", "verify"}
          /\ \A v \in Workers \ {w} : req'[v].pc = req[v].pc
      BY <1>1, <1>3, AttemptGoes, OthersStay DEF AccBegin
    <2>7. LoginSafe(w)'
      BY <2>3, <2>5, <2>6 DEF LoginSafe, Settled
    <2> QED BY <1>2, <2>5, <2>6, <2>7, LoginMove
  <1>4. CASE AccVerify(w)
    <2>1. /\ req[w].pc = "verify" /\ req'[w].pc \in {"clear", "increment"}
          /\ req'[w].pc = "clear" <=> login[w].tried = login[w].hash
          /\ UNCHANGED <<row, login, chg, chal, sessions, due>>
          /\ \A v \in Workers \ {w} : req'[v].pc = req[v].pc
      BY <1>1, <1>4, AttemptGoes, OthersStay DEF AccVerify, Matches
    <2>2. LoginSafe(w)'
      BY <1>1, <2>1 DEF LoginSafe, Settled
    <2>3. login' \in [Workers -> LoginStates] /\ \A v \in Workers \ {w} : login'[v] = login[v]
      BY <2>1 DEF AccTypeOK
    <2> QED BY <1>2, <2>1, <2>2, <2>3, LoginMove
  <1>5. CASE AccCheck(w)
    <2>1. /\ UNCHANGED <<row, chg, chal, sessions, due>>
          /\ \A v \in Workers \ {w} : req'[v].pc = req[v].pc
          /\ req[w].pc \in {"reset", "increment", "decide", "lock"}
          /\ req'[w].pc \in {"idle", "verify", "decide", "lock"}
      BY <1>1, <1>5, AttemptGoes, OthersStay DEF AccCheck
    <2>2. CASE req'[w].pc = "idle"
      <3>1. login' = [login EXCEPT ![w] = LoginIdle]
        BY <1>5, <2>2 DEF AccCheck
      <3> QED BY <1>2, <2>1, <2>2, <3>1, LoginEnds
    <2>3. CASE req'[w].pc # "idle"
      <3>1. login' = login
        BY <1>5, <2>3 DEF AccCheck
      <3>2. LoginSafe(w)'
        BY <1>1, <2>1, <2>3, <3>1 DEF LoginSafe, Settled
      <3>3. login' \in [Workers -> LoginStates]
        BY <3>1 DEF AccTypeOK
      <3> QED BY <1>2, <2>1, <3>1, <3>2, <3>3, LoginMove
    <2> QED BY <2>2, <2>3
  <1>6. CASE AccClear(w)
    <2>1. /\ UNCHANGED <<row, chg, chal, sessions, due>>
          /\ \A v \in Workers \ {w} : req'[v].pc = req[v].pc
          /\ req[w].pc = "clear" /\ req'[w].pc = "idle" /\ LoginGoes(w, "touch")
      BY <1>1, <1>6, AttemptGoes, OthersStay DEF AccClear
    <2>2. login[w].pc # "idle"
      BY <1>1, <2>1 DEF LoginSafe, Settled
    <2>3. /\ login' \in [Workers -> LoginStates]
          /\ \A v \in Workers \ {w} : login'[v] = login[v]
          /\ login'[w].pc = "touch" /\ login'[w].tried = login[w].tried
          /\ login'[w].hash = login[w].hash /\ login'[w].late = login[w].late
      BY <2>1, <2>2, LoginGoesOn
    <2>4. LoginSafe(w)'
      BY <1>1, <2>1, <2>2, <2>3 DEF LoginSafe, Settled
    <2> QED BY <1>2, <2>1, <2>3, <2>4, LoginMove
  <1>7. CASE UpdateLastLogin(w)
    <2>1. UNCHANGED <<vars, row, chg, sessions, due>> /\ login[w].pc = "touch"
      BY <1>7 DEF UpdateLastLogin
    <2>2. req' = req /\ req[w].pc = "idle"
      BY <1>1, <2>1, AttemptShape DEF vars, LoginSafe
    <2>3. CASE ~row.force /\ LoginGoes(w, "revoke") /\ UNCHANGED chal
      <3>1. /\ login' \in [Workers -> LoginStates]
            /\ \A v \in Workers \ {w} : login'[v] = login[v]
            /\ login'[w].pc = "revoke" /\ login'[w].tried = login[w].tried
            /\ login'[w].hash = login[w].hash /\ login'[w].late = login[w].late
        BY <2>1, <2>3, LoginGoesOn
      <3>2. LoginSafe(w)'
        BY <1>1, <2>1, <2>2, <2>3, <3>1 DEF LoginSafe, Settled
      <3> QED BY <1>2, <2>1, <2>2, <2>3, <3>1, <3>2, LoginMove
    <2>4. CASE /\ login' = [login EXCEPT ![w] = LoginIdle]
               /\ \E k \in Challenges : chal' = [chal EXCEPT ![k] = now + ChallengeTTL]
      <3>1. now + ChallengeTTL \in 0 .. (MaxTime + ChallengeTTL)
        BY <1>1, LockoutAssumption, ChallengeAssumption, SMT DEF TypeOK, Time
      <3>2. chal' \in [Challenges -> 0 .. (MaxTime + ChallengeTTL) \cup {Null}]
        BY <1>2, <2>4, <3>1
      <3> QED BY <1>2, <2>1, <2>2, <2>4, <3>2, LoginEnds
    <2> QED BY <1>7, <2>3, <2>4 DEF UpdateLastLogin
  <1>8. CASE RevokeSessions(w)
    <2>1. /\ UNCHANGED <<vars, row, chg, chal, due>> /\ login[w].pc = "revoke"
          /\ sessions' = {} /\ LoginGoes(w, "store")
      BY <1>8 DEF RevokeSessions
    <2>2. req' = req /\ req[w].pc = "idle"
      BY <1>1, <2>1, AttemptShape DEF vars, LoginSafe
    <2>3. /\ login' \in [Workers -> LoginStates]
          /\ \A v \in Workers \ {w} : login'[v] = login[v]
          /\ login'[w].pc = "store" /\ login'[w].tried = login[w].tried
          /\ login'[w].hash = login[w].hash /\ login'[w].late = login[w].late
      BY <2>1, LoginGoesOn
    <2>4. LoginSafe(w)'
      BY <1>1, <2>1, <2>2, <2>3 DEF LoginSafe, Settled
    <2> QED BY <1>2, <2>1, <2>2, <2>3, <2>4, LoginMove
  <1>9. CASE OpenSession(w)
    <2>1. /\ UNCHANGED <<vars, row, chg, chal, due>> /\ login[w].pc = "store"
          /\ sessions' = sessions \cup {w} /\ login' = [login EXCEPT ![w] = LoginIdle]
      BY <1>9 DEF OpenSession
    <2>2. req' = req /\ req[w].pc = "idle" /\ ~due
      BY <1>1, <2>1, AttemptShape DEF vars, LoginSafe
    <2>3. sessions' \subseteq Workers \cup Changers
      BY <1>2, <2>1
    <2> QED BY <1>2, <2>1, <2>2, <2>3, LoginEnds
  <1>10. CASE LoginFails(w)
    <2>1. /\ UNCHANGED <<row, chg, chal, sessions, due>>
          /\ login' = [login EXCEPT ![w] = LoginIdle]
      BY <1>10 DEF LoginFails
    <2>2. /\ req'[w].pc = "idle" /\ \A v \in Workers \ {w} : req'[v].pc = req[v].pc
      BY <1>1, <1>10, AttemptGoes, OthersStay, AttemptShape DEF LoginFails, LoginSafe, vars
    <2> QED BY <1>2, <2>1, <2>2, LoginEnds
  <1> QED BY <1>3, <1>4, <1>5, <1>6, <1>7, <1>8, <1>9, <1>10 DEF LoginStep

\* A settled account has no change of password: none is in flight, and none begins.
LEMMA SettledHasNoChange ==
    ASSUME NEW x \in Changers, ChgStep(x)
    PROVE  ~Settled
  BY DEF ChgStep, ChgRead, UpdatePasswordHash, SetForcePasswordChange, ChgOpenSession, ChgFails,
         Settled

\* Every step of a change of password.
LEMMA ChgStepInv ==
    ASSUME AInv, NEW x \in Changers, ChgStep(x)
    PROVE  AInv'
  <1> USE DEF AInv
  <1>1. UNCHANGED <<vars, chal>> /\ AccTypeOK /\ AccSafe
    BY DEF ChgStep, ChgRead, UpdatePasswordHash, SetForcePasswordChange, ChgOpenSession, ChgFails
  <1>2. TypeOK'
    BY <1>1 DEF AccTypeOK, TypeOK, vars
  <1>3. req' = req
    BY <1>1 DEF vars
  <1>4. ASSUME login' = login, due' = due \/ ~due'
        PROVE  login' \in [Workers -> LoginStates] /\ \A w \in Workers : LoginSafe(w)'
    <2>1. login' \in [Workers -> LoginStates] /\ \A w \in Workers : LoginSafe(w)
      BY <1>1, <1>4 DEF AccTypeOK, AccSafe
    <2>2. ~Settled
      BY SettledHasNoChange
    <2>3. ASSUME NEW w \in Workers
          PROVE  LoginSafe(w)'
      BY <1>3, <1>4, <2>1, <2>2, SMT DEF LoginSafe
    <2> QED BY <2>1, <2>3
  <1>5. ASSUME NEW k \in {"hash", "flag", "store"}, chg[x].pc # "idle",
               chg' = [chg EXCEPT ![x].pc = k]
        PROVE  /\ chg' \in [Changers -> ChgStates] /\ chg'[x].pc = k
               /\ \A y \in Changers \ {x} : chg'[y] = chg[y]
    <2> DEFINE g == [chg[x] EXCEPT !.pc = k]
    <2>1. chg[x] \in Changing
      BY <1>5, LoginShape
    <2>2. g \in Changing /\ g.pc = k
      BY <2>1 DEF Changing
    <2>3. g \in ChgStates
      BY <2>2 DEF Changing, ChgStates
    <2>4. chg' = [chg EXCEPT ![x] = g]
      BY <1>5
    <2> HIDE DEF g
    <2> QED BY <2>2, <2>3, <2>4 DEF AccTypeOK
  <1>6. LoginIdle \in ChgStates /\ LoginIdle.pc = "idle"
    BY DEF ChgStates, LoginIdle
  <1>7. CASE ChgRead(x)
    <2>1. /\ UNCHANGED <<vars, row, login, chal, sessions, due>>
          /\ \E k \in Challenges, p \in Passwords :
                chg' = [chg EXCEPT ![x] = [pc |-> "hash", k |-> k, new |-> p]]
      BY <1>7 DEF ChgRead
    <2>2. /\ chg' \in [Changers -> ChgStates] /\ chg'[x].pc = "hash"
          /\ \A y \in Changers \ {x} : chg'[y] = chg[y]
      BY <1>1, <2>1, SMT DEF AccTypeOK, ChgStates
    <2>3. AccTypeOK'
      BY <1>1, <1>2, <1>4, <2>1, <2>2 DEF AccTypeOK
    <2>4. AccSafe'
      BY <1>1, <1>4, <2>1, <2>2 DEF AccSafe, NoSessionBeforeChange
    <2> QED BY <2>3, <2>4
  <1>8. CASE UpdatePasswordHash(x)
    <2>1. /\ chg[x].pc = "hash" /\ ~due' /\ due' \in BOOLEAN /\ UNCHANGED <<login, sessions>>
          /\ row' = [row EXCEPT !.pw = chg[x].new]
          /\ chg' = [chg EXCEPT ![x].pc = "flag"]
      BY <1>8 DEF UpdatePasswordHash
    <2>2. row' \in [pw: Passwords, force: BOOLEAN, active: BOOLEAN]
      <3>1. chg[x].new \in Passwords
        BY <1>1, <2>1, LoginShape DEF Changing
      <3> QED BY <1>1, <2>1, <3>1 DEF AccTypeOK
    <2>3. /\ chg' \in [Changers -> ChgStates] /\ chg'[x].pc = "flag"
          /\ \A y \in Changers \ {x} : chg'[y] = chg[y]
      BY <1>5, <2>1
    <2>4. AccTypeOK'
      BY <1>1, <1>2, <1>4, <2>1, <2>2, <2>3 DEF AccTypeOK
    <2>5. AccSafe'
      BY <1>1, <1>4, <2>1, <2>3 DEF AccSafe, NoSessionBeforeChange
    <2> QED BY <2>4, <2>5
  <1>9. CASE SetForcePasswordChange(x)
    <2>1. /\ chg[x].pc = "flag" /\ UNCHANGED <<login, sessions, due>>
          /\ row' = [row EXCEPT !.force = FALSE]
          /\ chg' = [chg EXCEPT ![x].pc = "store"]
      BY <1>9 DEF SetForcePasswordChange
    <2>2. row' \in [pw: Passwords, force: BOOLEAN, active: BOOLEAN]
      BY <1>1, <2>1 DEF AccTypeOK
    <2>3. /\ chg' \in [Changers -> ChgStates] /\ chg'[x].pc = "store"
          /\ \A y \in Changers \ {x} : chg'[y] = chg[y]
      BY <1>5, <2>1
    <2>4. AccTypeOK'
      BY <1>1, <1>2, <1>4, <2>1, <2>2, <2>3 DEF AccTypeOK
    <2>5. ~due
      BY <1>1, <2>1 DEF AccSafe
    <2>6. AccSafe'
      BY <1>1, <1>4, <2>1, <2>3, <2>5 DEF AccSafe, NoSessionBeforeChange
    <2> QED BY <2>4, <2>6
  <1>10. CASE ChgOpenSession(x) \/ ChgFails(x)
    <2>1. /\ UNCHANGED <<row, login, due>>
          /\ chg' = [chg EXCEPT ![x] = LoginIdle]
          /\ \/ sessions' = sessions
             \/ chg[x].pc = "store" /\ sessions' = sessions \cup {x}
      BY <1>10 DEF ChgOpenSession, ChgFails
    <2>2. /\ chg' \in [Changers -> ChgStates] /\ chg'[x].pc = "idle"
          /\ \A y \in Changers \ {x} : chg'[y] = chg[y]
      BY <1>1, <1>6, <2>1 DEF AccTypeOK
    <2>3. sessions' \subseteq Workers \cup Changers /\ (sessions' # {} => ~due)
      BY <1>1, <2>1 DEF AccTypeOK, AccSafe, NoSessionBeforeChange
    <2>4. AccTypeOK'
      BY <1>1, <1>2, <1>4, <2>1, <2>2, <2>3 DEF AccTypeOK
    <2>5. AccSafe'
      BY <1>1, <1>4, <2>1, <2>2, <2>3 DEF AccSafe, NoSessionBeforeChange
    <2> QED BY <2>4, <2>5
  <1> QED BY <1>7, <1>8, <1>9, <1>10 DEF ChgStep

\* The administrator and the clock move no login and no change.
LEMMA QuietInv ==
    ASSUME AInv, TypeOK', UNCHANGED <<login, chg, chal, sessions, due>>,
           row' \in [pw: Passwords, force: BOOLEAN, active: BOOLEAN], row'.force = row.force,
           row'.pw = row.pw, \A w \in Workers : req'[w].pc = req[w].pc
    PROVE  AInv'
  <1>1. AccTypeOK'
    BY DEF AInv, AccTypeOK
  <1>2. AccSafe'
    BY DEF AInv, AccSafe, LoginSafe, NoSessionBeforeChange, Settled
  <1> QED BY <1>1, <1>2 DEF AInv

\* Every step of the account.
LEMMA AccNextInv ==
    ASSUME AInv, [AccNext]_accVars
    PROVE  AInv'
  <1>1. TypeOK /\ row \in [pw: Passwords, force: BOOLEAN, active: BOOLEAN]
    BY DEF AInv, AccTypeOK
  <1>2. TypeOK'
    BY <1>1, AccStepIsLockoutStep, LkType
  <1>3. CASE UpdateUserStatus
    <2>1. /\ row' = [row EXCEPT !.active = ~row.active]
          /\ UNCHANGED <<vars, login, chg, chal, sessions, due>>
      BY <1>3 DEF UpdateUserStatus
    <2>2. /\ row' \in [pw: Passwords, force: BOOLEAN, active: BOOLEAN]
          /\ row'.force = row.force /\ row'.pw = row.pw
      BY <1>1, <2>1
    <2>3. \A w \in Workers : req'[w].pc = req[w].pc
      BY <2>1 DEF vars
    <2> QED BY <1>2, <2>1, <2>2, <2>3, QuietInv
  <1>4. CASE (Unlock \/ Tick) /\ UNCHANGED <<row, login, chg, chal, sessions, due>>
    <2>1. ASSUME NEW w \in Workers
          PROVE  req'[w].pc = req[w].pc
      <3>1. CASE req'[w] = req[w]
        BY <3>1
      <3>2. CASE req[w].pc = "decide" /\ req'[w] = [req[w] EXCEPT !.fresh = FALSE]
        BY <1>1, <3>2, AttemptShape DEF Deciding
      <3> QED BY <1>4, <3>1, <3>2 DEF Unlock, Tick
    <2> QED BY <1>1, <1>2, <1>4, <2>1, QuietInv
  <1>5. CASE UNCHANGED accVars
    <2>1. UNCHANGED <<row, login, chg, chal, sessions, due, req>>
      BY <1>5 DEF accVars, vars
    <2> QED BY <1>1, <1>2, <2>1, QuietInv
  <1> QED BY <1>2, <1>3, <1>4, <1>5, LoginStepInv, ChgStepInv DEF AccNext

\* No request has begun.
LEMMA AccInitInv ==
    ASSUME AccInit
    PROVE  AInv
  <1>1. TypeOK
    BY LkTypeInit DEF AccInit
  <1>2. PICK p \in Passwords, f \in BOOLEAN :
           row = [pw |-> p, force |-> f, active |-> TRUE] /\ due = f
    BY DEF AccInit
  <1>3. /\ row \in [pw: Passwords, force: BOOLEAN, active: BOOLEAN] /\ due \in BOOLEAN
        /\ due => row.force
    BY <1>2
  <1>4. LoginIdle \in LoginStates /\ LoginIdle \in ChgStates /\ LoginIdle.pc = "idle"
    BY DEF LoginStates, ChgStates, LoginIdle
  <1>5. AccTypeOK
    BY <1>1, <1>3, <1>4 DEF AccInit, AccTypeOK
  <1>6. \A w \in Workers : login[w].pc = "idle" /\ req[w].pc = "idle"
    BY <1>4 DEF AccInit, Init, Idle
  <1>7. AccSafe
    BY <1>3, <1>4, <1>6 DEF AccInit, AccSafe, LoginSafe, NoSessionBeforeChange
  <1> QED BY <1>5, <1>7 DEF AInv

LEMMA AccInvariant == AccSpec => []AInv
  BY AccInitInv, AccNextInv, PTL DEF AccSpec

---------------------------------------------------------------------------
(* Theorems                                                                *)

\* Whatever the account goes through, its lockout columns go through what module
\* Lockout says: the Login handler adds steps and takes none away.
THEOREM AccountKeepsLockout == AccSpec => Spec
  <1>1. AccInit => Init
    BY DEF AccInit
  <1> QED BY <1>1, AccStepIsLockoutStep, PTL DEF AccSpec, Spec

\* The account, its logins, changes of password and challenges keep their types.
THEOREM AccountTypeCorrect == AccSpec => []AccTypeOK
  <1>1. AInv => AccTypeOK
    BY DEF AInv
  <1> QED BY <1>1, AccInvariant, PTL

\* VerifyCredentials lets no more than MaxAttempts + W - 1 failures through within a
\* window without a lock, for any number W of attempts in flight, any window and
\* any MaxAttempts from 2 on.  (With 1 the first failure finds no earlier one in the
\* row, and does not lock.)
THEOREM LockoutGuessBound ==
    ASSUME MaxAttempts >= 2
    PROVE  Spec => []GuessBound
  <1>1. ASSUME Init
        PROVE  LkInv
    <2>1. TypeOK
      BY <1>1, LkTypeInit
    <2>2. Len(recent) = 0 /\ acct.last = Null /\ \A w \in Workers : req[w].pc = "idle"
      BY <1>1 DEF Init, Idle
    <2>3. Dated /\ MissBound
      BY <2>2, SMT DEF Dated, MissBound
    <2> QED BY <2>1, <2>3 DEF LkInv
  <1>2. ASSUME LkInv, [Next]_vars
        PROVE  LkInv'
    <2>1. TypeOK' /\ Dated'
      BY <1>2, LkType, DatedKept DEF LkInv
    <2> QED BY <1>2, <2>1, MissNext DEF LkInv
  <1> QED BY <1>1, <1>2, BoundGuesses, PTL DEF Spec

\* And so it is for the account with all that its requests do.
THEOREM AccountGuessBound ==
    ASSUME MaxAttempts >= 2
    PROVE  AccSpec => []GuessBound
  BY LockoutGuessBound, AccountKeepsLockout, PTL

\* Neither the Login handler nor ChangePassword opens a session before the password
\* that had to be changed is replaced, wherever one of their statements fails.
THEOREM SessionsFollowTheChange == AccSpec => []NoSessionBeforeChange
  <1>1. AInv => NoSessionBeforeChange
    BY DEF AInv, AccSafe
  <1> QED BY <1>1, AccInvariant, PTL

\* A login that begins after the forced change stores a session only with the
\* password the account has by then, for any number of logins and changes before it.
THEOREM OldPasswordIsOut == AccSpec => []OldPasswordStaysOut
  <1>1. AInv => OldPasswordStaysOut
    BY DEF AInv, AccSafe, LoginSafe, OldPasswordStaysOut
  <1> QED BY <1>1, AccInvariant, PTL

\* Once the forced change is made and none is in flight, no challenge token that is
\* still around changes the password or the flag: ChangePassword reads the flag
\* before it writes.
THEOREM ForcedChangeIsFinal == AccSpec => ChangeIsFinal
  <1>1. ASSUME AInv, [AccNext]_accVars, Settled
        PROVE  Settled' /\ row'.pw = row.pw
    <2>1. row \in [pw: Passwords, force: BOOLEAN, active: BOOLEAN]
      BY <1>1 DEF AInv, AccTypeOK
    <2>2. CASE UpdateUserStatus
      <3>1. row'.pw = row.pw /\ row'.force = row.force /\ chg' = chg
        BY <2>1, <2>2 DEF UpdateUserStatus
      <3> QED BY <1>1, <3>1 DEF Settled
    <2>3. CASE UNCHANGED <<row, chg>>
      BY <1>1, <2>3 DEF Settled
    <2>4. ASSUME NEW w \in Workers, LoginStep(w)
          PROVE  UNCHANGED <<row, chg>>
      BY <2>4 DEF LoginStep, AccBegin, AccVerify, AccCheck, AccClear, UpdateLastLogin,
                  RevokeSessions, OpenSession, LoginFails
    <2>5. ASSUME NEW x \in Changers, ChgStep(x)
          PROVE  FALSE
      BY <1>1, <2>5, SettledHasNoChange
    <2> QED BY <1>1, <2>2, <2>3, <2>4, <2>5 DEF AccNext, accVars
  <1>2. AInv /\ [AccNext]_accVars => [Settled => Settled' /\ row'.pw = row.pw]_accVars
    BY <1>1
  <1> QED BY <1>2, AccInvariant, PTL DEF AccSpec, ChangeIsFinal
=============================================================================
