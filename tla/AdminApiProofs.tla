--------------------------- MODULE AdminApiProofs ---------------------------
(***************************************************************************)
(* What stands before the administration API: the rate limit and the CSRF  *)
(* check, for any number of requests and scripts.                          *)
(***************************************************************************)
EXTENDS RateLimiter, Csrf, TLAPS

\* Zenon proves the leaves that cite no other prover.
USE Zenon

---------------------------------------------------------------------------
(* The rate limit                                                          *)

\* A limiter was last used before now, and one that is in debt may act again when
\* its debt is paid.
Bucket(i) ==
    /\ lims[i].last <= now
    /\ lims[i].units >= 0 \/ lims[i].last - lims[i].units <= lims[i].event

\* A request that looked the limiter up uses it while the entry is still the one it
\* found; a reservation cannot act before it is made.
Current ==
    /\ entry # None => entry.seen <= now
    /\ \A w \in Requests :
          /\ req[w].pc = "allow" =>
                /\ entry # None /\ req[w].l = entry.l
                /\ req[w].got <= entry.seen /\ now - req[w].got <= MaxStall
          /\ req[w].pc = "cancel" => req[w].at <= req[w].act /\ req[w].at <= now

\* What the limiter of the key holds at the time of the last promise, or held when
\* it was last used, is a token.
Kept ==
    promise # None /\ entry # None =>
        \/ lims[entry.l].units >= Cost
        \/ lims[entry.l].units + promise - lims[entry.l].last >= Cost

RateInv == TypeOK /\ (\A i \in 1 .. Len(lims) : Bucket(i)) /\ Current /\ Kept

\* What was admitted has left the bucket, together with what the one refusal that
\* is under way has reserved and can still put back; and it is forgotten by the time
\* the entry can be evicted.
Taken ==
    IF entry = None THEN load = 0
    ELSE /\ load <= Full /\ load <= Full - Units(entry.l)
         /\ load = 0 \/ load <= Full + entry.seen + MaxStall - now
         /\ \A w \in Requests :
               req[w].pc = "cancel" /\ req[w].l = entry.l /\ now <= req[w].act =>
                  /\ lims[entry.l].event = req[w].act
                  /\ now = req[w].act \/ Units(entry.l) <= now - req[w].act
                  /\ load + Cost <= Full - Units(entry.l)

\* A full bucket holds at least one token, and is refilled before an entry that was
\* used within MaxStall of its lookup can be evicted.
LEMMA FullFacts ==
    /\ Full \in Nat /\ Cost \in Nat \ {0} /\ Cost <= Full
    /\ Full + MaxStall <= TTL /\ MaxStall \in Nat /\ TTL \in Nat
  <1>1. /\ Burst \in Nat \ {0} /\ Cost \in Nat \ {0}
        /\ TTL \in Nat /\ MaxStall \in Nat /\ Burst * Cost + MaxStall <= TTL
    BY RateAssumption
  <1>2. Burst * Cost \in Nat /\ (Burst - 1) * Cost \in Nat
    BY <1>1, SMT
  <1>3. Burst * Cost = (Burst - 1) * Cost + Cost
    BY <1>1, SMT
  <1>4. Cost <= Burst * Cost
    BY <1>1, <1>2, <1>3, SMT
  <1> QED BY <1>1, <1>2, <1>4 DEF Full

\* What TypeOK says of one limiter.
LEMMA LimiterShape ==
    ASSUME TypeOK, NEW i \in 1 .. Len(lims)
    PROVE  /\ lims[i] \in Limiters /\ lims[i].units \in Int /\ lims[i].event \in Int
           /\ lims[i].last \in Nat /\ lims[i].units <= Full
           /\ now \in Nat /\ Units(i) \in Int /\ Units(i) <= Full
           /\ Units(i) = IF Full < lims[i].units + now - lims[i].last THEN Full
                         ELSE lims[i].units + now - lims[i].last
  <1>1. lims[i] \in Limiters /\ lims[i].units <= Full /\ now \in Nat /\ now \in Time
    BY RateAssumption, SMT DEF TypeOK, Time
  <1>2. lims[i].units \in Int /\ lims[i].event \in Int /\ lims[i].last \in Nat
    BY <1>1, RateAssumption, SMT DEF Limiters, Time
  <1>3. Units(i) = IF Full < lims[i].units + now - lims[i].last THEN Full
                   ELSE lims[i].units + now - lims[i].last
    BY DEF Units, AtMost
  <1> QED BY <1>1, <1>2, <1>3, FullFacts, SMT

\* What TypeOK says of one request.
LEMMA RequestShape ==
    ASSUME TypeOK, NEW w \in Requests
    PROVE  /\ req[w].pc \in {"idle", "allow", "refused", "cancel"}
           /\ req[w].pc # "idle" => req[w].l \in 1 .. Len(lims)
           /\ req[w].pc = "allow" => req[w].got \in Nat
           /\ req[w].pc = "cancel" => req[w].act \in Int /\ req[w].at \in Nat
  <1>1. req[w] \in Reqs /\ (req[w].pc # "idle" => req[w].l \in 1 .. Len(lims))
    BY DEF TypeOK
  <1>2. CASE req[w] = Idle
    BY <1>2, SMT DEF Idle
  <1>3. CASE req[w] \in [pc: {"allow"}, l: Nat, got: Time]
    BY <1>1, <1>3, RateAssumption, SMT DEF Time
  <1>4. CASE req[w] \in [pc: {"refused"}, l: Nat]
    BY <1>1, <1>4
  <1>5. CASE req[w] \in [pc: {"cancel"}, l: Nat, act: Int, at: Time]
    BY <1>1, <1>5, RateAssumption, SMT DEF Time
  <1> QED BY <1>1, <1>2, <1>3, <1>4, <1>5 DEF Reqs

\* A request moves on.
LEMMA RequestMove ==
    ASSUME TypeOK, NEW w \in Requests, NEW r \in Reqs, req' = [req EXCEPT ![w] = r]
    PROVE  /\ req' \in [Requests -> Reqs] /\ req'[w] = r
           /\ \A v \in Requests \ {w} : req'[v] = req[v]
  BY DEF TypeOK

\* A limiter is used.
LEMMA LimiterMove ==
    ASSUME TypeOK, NEW l \in 1 .. Len(lims), NEW r \in Limiters,
           lims' = [lims EXCEPT ![l] = r]
    PROVE  /\ lims' \in Seq(Limiters) /\ Len(lims') = Len(lims) /\ lims'[l] = r
           /\ \A i \in 1 .. Len(lims) : i # l => lims'[i] = lims[i]
  BY SMT DEF TypeOK

\* A reservation takes a token that may not be there yet.
LEMMA ReservedShape ==
    ASSUME TypeOK, NEW l \in 1 .. Len(lims)
    PROVE  /\ Reserved(l) \in Limiters /\ Reserved(l).last = now
           /\ Reserved(l).units = Units(l) - Cost /\ Reserved(l).units <= Full
           /\ Reserved(l).event = IF Units(l) < Cost THEN now + Cost - Units(l) ELSE now
           /\ now <= Reserved(l).event /\ Reserved(l).event \in Int
           /\ now - Reserved(l).units <= Reserved(l).event
  <1> DEFINE u == Units(l) - Cost
             e == IF u < 0 THEN now - u ELSE now
  <1>1. /\ Units(l) \in Int /\ Units(l) <= Full /\ now \in Nat /\ now \in Time
    BY LimiterShape DEF TypeOK
  <1>2. u \in Int /\ e \in Int /\ u <= Full /\ now <= e /\ now - u <= e
    BY <1>1, FullFacts, SMT
  <1>3. e = IF Units(l) < Cost THEN now + Cost - Units(l) ELSE now
    BY <1>1, FullFacts, SMT
  <1>4. Reserved(l) = [units |-> u, last |-> now, event |-> e]
    BY DEF Reserved
  <1> HIDE DEF u, e
  <1>5. Reserved(l) \in Limiters
    BY <1>1, <1>2, <1>4, SMT DEF Limiters
  <1>6. Reserved(l).units = u /\ Reserved(l).last = now /\ Reserved(l).event = e
    BY <1>4, SMT
  <1> QED BY <1>2, <1>3, <1>5, <1>6 DEF u

\* Cancel leaves a limiter alone, or puts back what was not reserved since.
LEMMA CancelledShape ==
    ASSUME TypeOK, NEW l \in 1 .. Len(lims), NEW act \in Int
    PROVE  LET back == Cost - (lims[l].event - act)
               c    == Cancelled(l, act)
           IN  /\ c \in Limiters /\ c.units <= Full
               /\ act < now \/ back <= 0 => c = lims[l]
               /\ ~(act < now \/ back <= 0) =>
                     /\ c.units = (IF Full < Units(l) + back THEN Full ELSE Units(l) + back)
                     /\ c.last = now
                     /\ \/ c.event = lims[l].event
                        \/ act = lims[l].event /\ c.event = act - Cost
  <1> DEFINE back == Cost - (lims[l].event - act)
             c    == Cancelled(l, act)
             u == IF Full < Units(l) + back THEN Full ELSE Units(l) + back
             e == IF act = lims[l].event /\ act - Cost >= now THEN act - Cost
                  ELSE lims[l].event
  <1>1. /\ Units(l) \in Int /\ Units(l) <= Full /\ now \in Nat /\ now \in Time
        /\ lims[l] \in Limiters /\ lims[l].units <= Full /\ lims[l].event \in Int
    BY LimiterShape DEF TypeOK
  <1>2. back \in Int /\ u \in Int /\ u <= Full /\ e \in Int
    <2>1. back \in Int /\ e \in Int
      BY <1>1, FullFacts, SMT
    <2> HIDE DEF back
    <2>2. u \in Int /\ u <= Full
      BY <1>1, <2>1, FullFacts, SMT
    <2> QED BY <2>1, <2>2
  <1>3. CASE act < now \/ back <= 0
    BY <1>1, <1>3 DEF Cancelled
  <1>4. CASE ~(act < now \/ back <= 0)
    <2>1. c = [units |-> u, last |-> now, event |-> e]
      BY <1>4 DEF Cancelled, AtMost
    <2>2. e = lims[l].event \/ (act = lims[l].event /\ e = act - Cost)
      OBVIOUS
    <2> HIDE DEF c, u, e
    <2>3. c \in Limiters /\ c.units = u /\ c.last = now /\ c.event = e
      BY <1>1, <1>2, <2>1 DEF Limiters
    <2> QED BY <1>2, <1>4, <2>2, <2>3 DEF c, u
  <1> QED BY <1>3, <1>4

\* getLimiter finds the entry, or makes a full bucket.
LEMMA GetLimiterInv ==
    ASSUME RateInv, NEW w \in Requests, GetLimiter(w)
    PROVE  RateInv'
  <1>0. TypeOK /\ (\A i \in 1 .. Len(lims) : Bucket(i)) /\ Current /\ Kept
    BY DEF RateInv
  <1>1. /\ now \in Time /\ now \in Nat /\ lims \in Seq(Limiters) /\ Len(lims) <= MaxLimiters
        /\ Len(lims) \in Nat /\ load \in Nat /\ promise \in Nat \cup {None}
        /\ \A i \in 1 .. Len(lims) : lims[i].units <= Full
    BY <1>0, RateAssumption, SMT DEF TypeOK, Time
  <1> DEFINE l == IF entry = None THEN Len(lims') ELSE entry.l
             r == [pc |-> "allow", l |-> l, got |-> now]
  <1>2. /\ entry' = [l |-> l, seen |-> now] /\ req' = [req EXCEPT ![w] = r]
        /\ req[w].pc = "idle" /\ UNCHANGED <<now, load, promise>>
    BY DEF GetLimiter
  <1>3. ASSUME lims' \in Seq(Limiters), Len(lims') <= MaxLimiters, l \in 1 .. Len(lims'),
               Len(lims) <= Len(lims'), Len(lims') \in Nat,
               \A i \in 1 .. Len(lims') : lims'[i].units <= Full /\ Bucket(i)',
               \A v \in Requests : req[v].pc = "allow" => entry # None /\ entry.l = l,
               \/ lims'[l].units >= Cost
               \/ promise # None => lims'[l].units + promise - lims'[l].last >= Cost
        PROVE  RateInv'
    <2> HIDE DEF l
    <2>1. l \in Nat /\ r \in Reqs
      BY <1>1, <1>3, SMT DEF Reqs
    <2>2. /\ req' \in [Requests -> Reqs] /\ req'[w] = r
          /\ \A v \in Requests \ {w} : req'[v] = req[v]
      <3> HIDE DEF r
      <3> QED BY <1>0, <1>2, <2>1, RequestMove
    <2>3. r.pc = "allow" /\ r.l = l /\ r.got = now
      OBVIOUS
    <2> HIDE DEF r
    <2>4. entry' \in [l: 1 .. Len(lims'), seen: Time] /\ entry'.l = l /\ entry'.seen = now
      BY <1>1, <1>2, <1>3
    <2>5. entry' # None
      <3>1. entry' \in [l: Nat, seen: Nat]
        BY <1>1, <1>2, <2>1
      <3> QED BY <3>1, RateAssumption
    <2>6. \A v \in Requests : req'[v].pc # "idle" => req'[v].l \in 1 .. Len(lims')
      BY <1>0, <1>1, <1>3, <2>2, <2>3, RequestShape, SMT
    <2>7. TypeOK'
      BY <1>1, <1>2, <1>3, <2>2, <2>4, <2>6 DEF TypeOK
    <2>8. Current'
      <3> SUFFICES ASSUME NEW v \in Requests
                   PROVE  /\ req'[v].pc = "allow" =>
                                /\ req'[v].l = l /\ req'[v].got <= now
                                /\ now - req'[v].got <= MaxStall
                          /\ req'[v].pc = "cancel" =>
                                req'[v].at <= req'[v].act /\ req'[v].at <= now
        BY <1>1, <1>2, <2>4, <2>5, SMT DEF Current
      <3>1. CASE v = w
        BY <1>1, <2>2, <2>3, <3>1, FullFacts, SMT
      <3>2. CASE v # w
        <4>1. req'[v] = req[v]
          BY <2>2, <3>2
        <4>2. req[v].pc = "allow" =>
                 /\ req[v].l = l /\ req[v].got <= entry.seen /\ entry.seen <= now
                 /\ now - req[v].got <= MaxStall /\ req[v].got \in Nat /\ entry.seen \in Nat
          <5> SUFFICES ASSUME req[v].pc = "allow"
                       PROVE  /\ req[v].l = l /\ req[v].got <= entry.seen
                              /\ entry.seen <= now /\ now - req[v].got <= MaxStall
                              /\ req[v].got \in Nat /\ entry.seen \in Nat
            OBVIOUS
          <5>1. /\ entry # None /\ req[v].l = entry.l /\ req[v].got <= entry.seen
                /\ entry.seen <= now /\ now - req[v].got <= MaxStall
            BY <1>0 DEF Current
          <5>2. entry.seen \in Nat
            BY <1>0, <5>1, RateAssumption, SMT DEF TypeOK, Time
          <5> QED BY <1>0, <1>3, <5>1, <5>2, RequestShape
        <4>3. req[v].pc = "cancel" => req[v].at <= req[v].act /\ req[v].at <= now
          BY <1>0 DEF Current
        <4> QED BY <1>1, <4>1, <4>2, <4>3, SMT
      <3> QED BY <3>1, <3>2
    <2>9. Kept'
      BY <1>2, <1>3, <2>4 DEF Kept
    <2> QED BY <1>3, <2>7, <2>8, <2>9 DEF RateInv
  <1>4. CASE entry # None
    <2>1. lims' = lims /\ l = entry.l
      BY <1>4 DEF GetLimiter
    <2>2. entry.l \in 1 .. Len(lims)
      BY <1>0, <1>4 DEF TypeOK
    <2>3. \A i \in 1 .. Len(lims') : lims'[i].units <= Full /\ Bucket(i)'
      BY <1>0, <1>1, <1>2, <2>1 DEF Bucket
    <2>4. \A v \in Requests : req[v].pc = "allow" => entry # None /\ entry.l = l
      BY <1>4, <2>1
    <2>5. \/ lims'[l].units >= Cost
          \/ promise # None => lims'[l].units + promise - lims'[l].last >= Cost
      BY <1>0, <1>4, <2>1 DEF Kept
    <2> HIDE DEF l
    <2> QED BY <1>1, <1>3, <2>1, <2>2, <2>3, <2>4, <2>5, SMT
  <1>5. CASE entry = None
    <2>1. /\ lims' = Append(lims, NewLimiter) /\ l = Len(lims')
          /\ Len(lims) < MaxLimiters
      BY <1>5 DEF GetLimiter
    <2>2. /\ NewLimiter \in Limiters /\ NewLimiter.units = Full /\ NewLimiter.last = now
      BY <1>1, FullFacts, SMT DEF NewLimiter, Limiters
    <2>3. /\ lims' \in Seq(Limiters) /\ Len(lims') = Len(lims) + 1
          /\ lims'[Len(lims) + 1] = NewLimiter
          /\ \A i \in 1 .. Len(lims) : lims'[i] = lims[i]
      BY <1>1, <2>1, <2>2, SMT
    <2>4. \A i \in 1 .. Len(lims') : lims'[i].units <= Full /\ Bucket(i)'
      <3> SUFFICES ASSUME NEW i \in 1 .. Len(lims')
                   PROVE  lims'[i].units <= Full /\ Bucket(i)'
        OBVIOUS
      <3>1. CASE i \in 1 .. Len(lims)
        BY <1>0, <1>1, <1>2, <2>3, <3>1 DEF Bucket
      <3>2. CASE i = Len(lims) + 1
        BY <1>1, <1>2, <2>2, <2>3, <3>2, FullFacts, SMT DEF Bucket
      <3> QED BY <1>1, <2>3, <3>1, <3>2, SMT
    <2>5. \A v \in Requests : req[v].pc = "allow" => entry # None /\ entry.l = l
      BY <1>0, <1>5 DEF Current
    <2>6. lims'[l].units >= Cost
      BY <2>1, <2>2, <2>3, FullFacts
    <2> HIDE DEF l
    <2> QED BY <1>1, <1>3, <2>1, <2>3, <2>4, <2>5, <2>6, RateAssumption, SMT
  <1> QED BY <1>4, <1>5

\* A request uses a limiter: what must be shown of the limiter, the request and the
\* promise.
LEMMA UseInv ==
    ASSUME RateInv, NEW w \in Requests, req[w].pc # "idle", NEW c \in Limiters,
           NEW r \in Reqs, NEW l, l = req[w].l,
           lims' = [lims EXCEPT ![l] = c], req' = [req EXCEPT ![w] = r],
           UNCHANGED <<now, entry>>, load' \in Nat,
           c.units <= Full, c.last <= now, c.units >= 0 \/ c.last - c.units <= c.event,
           r.pc # "allow", r.pc # "idle" => r.l = l,
           r.pc = "cancel" => r.at <= r.act /\ r.at <= now,
           \/ promise' = None
           \/ /\ promise' \in Nat /\ entry.l = l
              /\ c.units >= Cost \/ c.units + promise' - c.last >= Cost
    PROVE  RateInv'
  <1>0. TypeOK /\ (\A i \in 1 .. Len(lims) : Bucket(i)) /\ Current /\ Kept
    BY DEF RateInv
  <1>1. l \in 1 .. Len(lims)
    BY <1>0, RequestShape
  <1>2. /\ lims' \in Seq(Limiters) /\ Len(lims') = Len(lims) /\ lims'[l] = c
        /\ \A i \in 1 .. Len(lims) : i # l => lims'[i] = lims[i]
    BY <1>0, <1>1, LimiterMove
  <1>3. /\ req' \in [Requests -> Reqs] /\ req'[w] = r
        /\ \A v \in Requests \ {w} : req'[v] = req[v]
    BY <1>0, RequestMove
  <1>4. \A i \in 1 .. Len(lims') : lims'[i].units <= Full /\ Bucket(i)'
    <2> SUFFICES ASSUME NEW i \in 1 .. Len(lims)
                 PROVE  lims'[i].units <= Full /\ Bucket(i)'
      BY <1>2
    <2>1. CASE i = l
      BY <1>2, <2>1 DEF Bucket
    <2>2. CASE i # l
      BY <1>0, <1>2, <2>2 DEF Bucket, TypeOK
    <2> QED BY <2>1, <2>2
  <1>5. TypeOK'
    <2>1. \A v \in Requests : req'[v].pc # "idle" => req'[v].l \in 1 .. Len(lims')
      BY <1>0, <1>1, <1>2, <1>3, RequestShape
    <2>2. promise' \in Nat \cup {None}
      OBVIOUS
    <2> QED BY <1>0, <1>2, <1>3, <1>4, <2>1, <2>2 DEF TypeOK
  <1>6. Current'
    BY <1>0, <1>3 DEF Current
  <1>7. Kept'
    BY <1>2 DEF Kept
  <1> QED BY <1>4, <1>5, <1>6, <1>7 DEF RateInv

\* limiter.Allow() takes a token or leaves the bucket alone.
LEMMA AllowInv ==
    ASSUME RateInv, NEW w \in Requests, Allow(w)
    PROVE  RateInv'
  <1>0. TypeOK /\ \A i \in 1 .. Len(lims) : Bucket(i)
    BY DEF RateInv
  <1> DEFINE l == req[w].l
  <1>1. /\ req[w].pc = "allow" /\ promise' = None /\ UNCHANGED <<now, entry>>
        /\ l \in 1 .. Len(lims) /\ load \in Nat
    BY <1>0, RequestShape DEF Allow, TypeOK
  <1>2. CASE Units(l) >= Cost
    <2>1. /\ lims' = [lims EXCEPT ![l] = Reserved(l)] /\ load' = load + Cost
          /\ req' = [req EXCEPT ![w] = Idle]
      BY <1>0, <1>1, <1>2, LimiterShape, FullFacts, SMT DEF Allow
    <2>2. Idle \in Reqs /\ Idle.pc = "idle"
      BY DEF Idle, Reqs
    <2>3. /\ Reserved(l) \in Limiters /\ Reserved(l).units <= Full /\ Reserved(l).last = now
          /\ now - Reserved(l).units <= Reserved(l).event
      BY <1>0, <1>1, ReservedShape
    <2>4. now <= now /\ load' \in Nat
      BY <1>0, <1>1, <2>1, LimiterShape, FullFacts, SMT
    <2> HIDE DEF l
    <2> QED BY <1>1, <2>1, <2>2, <2>3, <2>4, UseInv DEF l
  <1>3. CASE ~(Units(l) >= Cost)
    <2> DEFINE r == [pc |-> "refused", l |-> l]
    <2>1. lims' = lims /\ load' = load /\ req' = [req EXCEPT ![w] = r]
      BY <1>3 DEF Allow
    <2>2. r \in Reqs /\ r.pc = "refused" /\ r.l = l
      BY <1>1, SMT DEF Reqs
    <2>3. lims' = [lims EXCEPT ![l] = lims[l]]
      BY <1>0, <1>1, <2>1, SMT DEF TypeOK
    <2>4. /\ lims[l] \in Limiters /\ lims[l].units <= Full /\ lims[l].last <= now
          /\ lims[l].units >= 0 \/ lims[l].last - lims[l].units <= lims[l].event
      BY <1>0, <1>1, LimiterShape DEF Bucket
    <2> HIDE DEF l, r
    <2> QED BY <1>1, <2>1, <2>2, <2>3, <2>4, UseInv DEF l
  <1> QED BY <1>2, <1>3

\* Reserve of a refused request.
LEMMA ReserveInv ==
    ASSUME RateInv, NEW w \in Requests, Reserve(w)
    PROVE  RateInv'
  <1>0. TypeOK /\ \A i \in 1 .. Len(lims) : Bucket(i)
    BY DEF RateInv
  <1> DEFINE l == req[w].l
             r == [pc |-> "cancel", l |-> l, act |-> Reserved(l).event, at |-> now]
  <1>1. /\ req[w].pc = "refused" /\ promise' = None /\ UNCHANGED <<now, entry, load>>
        /\ lims' = [lims EXCEPT ![l] = Reserved(l)] /\ req' = [req EXCEPT ![w] = r]
        /\ l \in 1 .. Len(lims) /\ load \in Nat /\ now \in Time
    BY <1>0, RequestShape DEF Reserve, TypeOK
  <1>2. /\ Reserved(l) \in Limiters /\ Reserved(l).units <= Full /\ Reserved(l).last = now
        /\ now - Reserved(l).units <= Reserved(l).event /\ now <= Reserved(l).event
        /\ Reserved(l).event \in Int
    BY <1>0, <1>1, ReservedShape
  <1>3. now <= now
    BY <1>0, <1>1, LimiterShape, SMT
  <1> HIDE DEF l
  <1>4. /\ r \in Reqs /\ r.pc = "cancel" /\ r.l = l /\ r.at = now
        /\ r.act = Reserved(l).event
    BY <1>1, <1>2, SMT DEF Reqs
  <1> HIDE DEF r
  <1> QED BY <1>1, <1>2, <1>3, <1>4, UseInv DEF l

\* Cancel, and the promise of the answer: the reservation that is undone was the
\* latest, so its time is when the bucket would have been out of debt.
LEMMA CancelInv ==
    ASSUME RateInv, NEW w \in Requests, CancelAndAnswer(w)
    PROVE  RateInv'
  <1>0. TypeOK /\ (\A i \in 1 .. Len(lims) : Bucket(i)) /\ Current
    BY DEF RateInv
  <1> DEFINE l == req[w].l
             act == req[w].act
             c == Cancelled(l, act)
             back == Cost - (lims[l].event - act)
             u == Units(l)
  <1>1. /\ req[w].pc = "cancel" /\ UNCHANGED <<now, entry, load>>
        /\ lims' = [lims EXCEPT ![l] = c] /\ req' = [req EXCEPT ![w] = Idle]
        /\ promise' = IF Undisturbed(w) THEN now + RetryAfter(w) ELSE None
        /\ l \in 1 .. Len(lims) /\ load \in Nat /\ act \in Int /\ req[w].at \in Nat
    BY <1>0, RequestShape DEF CancelAndAnswer, TypeOK
  <1>2. req[w].at <= act /\ req[w].at <= now /\ act \in Int /\ req[w].at \in Nat
    BY <1>0, <1>1 DEF Current
  <1>3. /\ c \in Limiters /\ c.units <= Full
        /\ act < now \/ back <= 0 => c = lims[l]
        /\ ~(act < now \/ back <= 0) =>
              /\ c.units = (IF Full < u + back THEN Full ELSE u + back)
              /\ c.last = now
              /\ \/ c.event = lims[l].event
                 \/ act = lims[l].event /\ c.event = act - Cost
    BY <1>0, <1>1, CancelledShape
  <1>4. /\ lims[l].units \in Int /\ lims[l].event \in Int /\ lims[l].last \in Nat
        /\ now \in Nat /\ u \in Int /\ lims[l].last <= now
        /\ lims[l].units >= 0 \/ lims[l].last - lims[l].units <= lims[l].event
        /\ u = IF Full < lims[l].units + now - lims[l].last THEN Full
               ELSE lims[l].units + now - lims[l].last
    BY <1>0, <1>1, LimiterShape DEF Bucket
  <1>5. u >= 0 \/ now - u <= lims[l].event
    BY <1>4, FullFacts, SMT
  <1>6. Idle \in Reqs /\ Idle.pc = "idle"
    BY DEF Idle, Reqs
  <1>7. ASSUME Undisturbed(w)
        PROVE  /\ now = req[w].at /\ entry.l = l /\ lims[l].event = act
               /\ RetryAfter(w) \in Nat /\ RetryAfter(w) >= act - now /\ RetryAfter(w) >= 1
    <2>1. now = req[w].at /\ entry.l = l /\ lims[l].event = act
      BY <1>7 DEF Undisturbed
    <2>2. RetryAfter(w) = IF act - req[w].at < 1 THEN 1 ELSE act - req[w].at
      BY DEF RetryAfter
    <2>3. act \in Int /\ now \in Nat
      BY <1>2, <1>4
    <2> HIDE DEF act
    <2> QED BY <2>1, <2>2, <2>3, SMT
  <1> HIDE DEF act, c, u, l
  <1>8. c.last <= now /\ (c.units >= 0 \/ c.last - c.units <= c.event)
    <2>1. CASE act < now \/ back <= 0
      BY <1>3, <1>4, <2>1
    <2>2. CASE ~(act < now \/ back <= 0)
      <3>1. /\ c.units = (IF Full < u + back THEN Full ELSE u + back) /\ c.last = now
            /\ \/ c.event = lims[l].event
               \/ act = lims[l].event /\ c.event = act - Cost
        BY <1>3, <2>2
      <3>2. back \in Int /\ back > 0 /\ (act = lims[l].event => back = Cost)
        BY <1>2, <1>4, <2>2, FullFacts, SMT
      <3> HIDE DEF back
      <3>3. CASE u + back >= 0
        BY <1>4, <3>1, <3>2, <3>3, FullFacts, SMT
      <3>4. CASE ~(u + back >= 0)
        <4>1. now - u <= lims[l].event /\ c.units = u + back
          BY <1>4, <1>5, <3>1, <3>2, <3>4, FullFacts, SMT
        <4> QED BY <1>2, <1>4, <3>1, <3>2, <4>1, FullFacts, SMT
      <3> QED BY <3>3, <3>4
    <2> QED BY <2>1, <2>2
  <1>9. \/ promise' = None
        \/ /\ promise' \in Nat /\ entry.l = l
           /\ c.units >= Cost \/ c.units + promise' - c.last >= Cost
    <2>1. CASE ~Undisturbed(w)
      BY <1>1, <2>1
    <2>2. CASE Undisturbed(w)
      <3>1. /\ now = req[w].at /\ entry.l = l /\ lims[l].event = act
            /\ RetryAfter(w) \in Nat /\ RetryAfter(w) >= act - now /\ RetryAfter(w) >= 1
        BY <1>7, <2>2
      <3>2. promise' = now + RetryAfter(w)
        BY <1>1, <2>2
      <3>3. back = Cost
        BY <1>2, <3>1, FullFacts, SMT
      <3>4. /\ c.units = (IF Full < u + Cost THEN Full ELSE u + Cost) /\ c.last = now
        BY <1>2, <1>3, <1>4, <3>1, <3>3, FullFacts, SMT
      <3>5. promise' \in Nat
        BY <1>4, <3>1, <3>2, SMT
      <3>6. CASE u >= 0
        BY <1>4, <3>1, <3>4, <3>5, <3>6, FullFacts, SMT
      <3>7. CASE now - u <= act
        BY <1>2, <1>4, <3>1, <3>2, <3>4, <3>5, <3>7, FullFacts, SMT
      <3> QED BY <1>5, <3>1, <3>6, <3>7
    <2> QED BY <2>1, <2>2
  <1> QED BY <1>1, <1>3, <1>6, <1>8, <1>9, UseInv DEF l

\* RateInv is inductive.
LEMMA RateInvStep ==
    ASSUME RateInv, [Next]_vars
    PROVE  RateInv'
  <1>0. TypeOK /\ (\A i \in 1 .. Len(lims) : Bucket(i)) /\ Current /\ Kept
    BY DEF RateInv
  <1>1. CASE UNCHANGED vars
    BY <1>1 DEF vars, RateInv, TypeOK, Bucket, Current, Kept
  <1>2. CASE Cleanup
    <2>1. /\ entry # None /\ now - entry.seen > TTL /\ entry' = None
          /\ UNCHANGED <<now, lims, req, load, promise>>
      BY <1>2 DEF Cleanup
    <2>2. now \in Nat /\ entry.seen \in Nat
      BY <1>0, <2>1, RateAssumption, SMT DEF TypeOK, Time
    <2>3. \A w \in Requests : req[w].pc # "allow"
      <3> SUFFICES ASSUME NEW w \in Requests, req[w].pc = "allow" PROVE FALSE
        OBVIOUS
      <3>1. req[w].got <= entry.seen /\ now - req[w].got <= MaxStall /\ req[w].got \in Nat
        BY <1>0, RequestShape DEF Current
      <3> QED BY <2>1, <2>2, <3>1, FullFacts, SMT
    <2>4. TypeOK'
      BY <1>0, <2>1 DEF TypeOK
    <2>5. \A i \in 1 .. Len(lims') : Bucket(i)'
      BY <1>0, <2>1 DEF Bucket
    <2> QED BY <1>0, <2>1, <2>3, <2>4, <2>5 DEF RateInv, Current, Kept
  <1>3. CASE Tick
    <2>1. /\ now < MaxTime /\ now' = now + 1
          /\ \A w \in Requests : req[w].pc = "allow" => now - req[w].got < MaxStall
          /\ load' = (IF load = 0 THEN 0 ELSE load - 1)
          /\ UNCHANGED <<lims, entry, req, promise>>
      BY <1>3 DEF Tick
    <2>2. now \in Nat /\ now' \in Time /\ load' \in Nat
      BY <1>0, <2>1, RateAssumption, SMT DEF TypeOK, Time
    <2>3. TypeOK'
      BY <1>0, <2>1, <2>2 DEF TypeOK
    <2>4. \A i \in 1 .. Len(lims') : Bucket(i)'
      <3> SUFFICES ASSUME NEW i \in 1 .. Len(lims) PROVE Bucket(i)'
        BY <2>1
      <3>1. lims[i].last \in Nat
        BY <1>0, LimiterShape
      <3> QED BY <1>0, <2>1, <2>2, <3>1, SMT DEF Bucket
    <2>5. Current'
      <3>1. /\ entry' = entry /\ req' = req /\ now' = now + 1
            /\ entry # None => entry.seen \in Nat /\ entry.seen <= now + 1
        BY <1>0, <2>1, <2>2, RateAssumption, SMT DEF TypeOK, Time, Current
      <3>2. ASSUME NEW w \in Requests, req[w].pc = "allow"
            PROVE  /\ entry # None /\ req[w].l = entry.l /\ req[w].got <= entry.seen
                   /\ (now + 1) - req[w].got <= MaxStall
        <4>1. req[w].got \in Nat
          BY <1>0, <3>2, RequestShape
        <4> QED BY <1>0, <2>1, <2>2, <3>2, <4>1, FullFacts, SMT DEF Current
      <3>3. ASSUME NEW w \in Requests, req[w].pc = "cancel"
            PROVE  req[w].at <= req[w].act /\ req[w].at <= now + 1
        <4>1. req[w].at \in Nat
          BY <1>0, <3>3, RequestShape
        <4> QED BY <1>0, <2>2, <3>3, <4>1, SMT DEF Current
      <3>4. \A w \in Requests :
               /\ req'[w].pc = "allow" =>
                     /\ entry' # None /\ req'[w].l = entry'.l
                     /\ req'[w].got <= entry'.seen /\ now' - req'[w].got <= MaxStall
               /\ req'[w].pc = "cancel" =>
                     req'[w].at <= req'[w].act /\ req'[w].at <= now'
        BY <3>1, <3>2, <3>3
      <3>5. entry' # None => entry'.seen <= now'
        BY <3>1
      <3> QED BY <3>4, <3>5 DEF Current
    <2>6. Kept'
      BY <1>0, <2>1 DEF Kept
    <2> QED BY <2>3, <2>4, <2>5, <2>6 DEF RateInv
  <1> QED BY <1>1, <1>2, <1>3, GetLimiterInv, AllowInv, ReserveInv, CancelInv DEF Next

\* It holds when the server starts.
LEMMA RateInvInit ==
    Init => RateInv /\ Taken
  <1> SUFFICES ASSUME Init PROVE RateInv /\ Taken
    OBVIOUS
  <1>1. /\ now = 0 /\ lims = << >> /\ Len(lims) = 0 /\ entry = None /\ load = 0
        /\ promise = None /\ req = [w \in Requests |-> Idle]
    BY DEF Init
  <1>2. \A w \in Requests : req[w] = Idle /\ req[w].pc = "idle"
    BY <1>1 DEF Idle
  <1>3. TypeOK
    <2>1. now \in Time /\ Len(lims) <= MaxLimiters /\ lims \in Seq(Limiters)
      BY <1>1, RateAssumption, SMT DEF Time
    <2>2. req \in [Requests -> Reqs]
      BY <1>1 DEF Reqs
    <2> QED BY <1>1, <1>2, <2>1, <2>2, SMT DEF TypeOK
  <1> QED BY <1>1, <1>2, <1>3, SMT DEF RateInv, Current, Kept, Taken

\* RateLimiter's TypeOK.
THEOREM RateTypeCorrect ==
    Spec => []TypeOK
  <1>1. RateInv /\ [Next]_vars => RateInv'
    BY RateInvStep
  <1>2. RateInv => TypeOK
    BY DEF RateInv
  <1> QED BY <1>1, <1>2, RateInvInit, PTL DEF Spec

\* RetryAfterHonest: the Retry-After of RateLimitByIP and RateLimitByUser is long
\* enough, however many requests of the key are in flight and whenever its entry is
\* evicted.
THEOREM RetryAfterAlwaysHonest ==
    Spec => RetryAfterHonest
  <1>1. ASSUME RateInv, Next, NEW w \in Requests, req[w].pc = "allow",
               req'[w].pc # "allow", promise # None, now >= promise
        PROVE  req'[w].pc = "idle"
    <2>0. TypeOK /\ (\A i \in 1 .. Len(lims) : Bucket(i)) /\ Current /\ Kept
      BY <1>1 DEF RateInv
    <2>1. Allow(w)
      <3>1. ASSUME NEW v \in Requests, v # w,
                   GetLimiter(v) \/ Allow(v) \/ Reserve(v) \/ CancelAndAnswer(v)
            PROVE  req'[w] = req[w]
        BY <2>0, <3>1 DEF GetLimiter, Allow, Reserve, CancelAndAnswer, TypeOK
      <3>2. Cleanup \/ Tick => req' = req
        BY DEF Cleanup, Tick
      <3>3. ~GetLimiter(w) /\ ~Reserve(w) /\ ~CancelAndAnswer(w)
        BY <1>1 DEF GetLimiter, Reserve, CancelAndAnswer
      <3> QED BY <1>1, <3>1, <3>2, <3>3 DEF Next
    <2> DEFINE l == req[w].l
    <2>2. /\ l \in 1 .. Len(lims) /\ entry # None /\ l = entry.l
          /\ lims[l].units \in Int /\ lims[l].last \in Nat /\ now \in Nat /\ promise \in Nat
          /\ lims[l].last <= now
          /\ Units(l) = IF Full < lims[l].units + now - lims[l].last THEN Full
                        ELSE lims[l].units + now - lims[l].last
      <3>1. l \in 1 .. Len(lims) /\ entry # None /\ l = entry.l
        BY <1>1, <2>0, RequestShape DEF Current
      <3>2. promise \in Nat
        BY <1>1, <2>0 DEF TypeOK
      <3> HIDE DEF l
      <3> QED BY <2>0, <3>1, <3>2, LimiterShape DEF Bucket
    <2>3. \/ lims[l].units >= Cost
          \/ lims[l].units + promise - lims[l].last >= Cost
      BY <1>1, <2>0, <2>2 DEF Kept
    <2> HIDE DEF l
    <2>4. Units(l) >= Cost
      <3> DEFINE a == lims[l].units
                 b == lims[l].last
      <3>1. /\ now >= promise /\ now \in Nat /\ promise \in Nat
            /\ a \in Int /\ b \in Nat /\ b <= now
            /\ a >= Cost \/ a + promise - b >= Cost
        BY <1>1, <2>2, <2>3
      <3>2. Units(l) = IF Full < a + now - b THEN Full ELSE a + now - b
        BY <2>2
      <3> HIDE DEF a, b
      <3>3. a + now - b >= Cost
        BY <3>1, FullFacts, SMT
      <3> QED BY <3>2, <3>3, FullFacts
    <2>5. req' = [req EXCEPT ![w] = Idle]
      BY <2>1, <2>2, <2>0, <2>4, LimiterShape, FullFacts, SMTT(30) DEF Allow, l
    <2> QED BY <2>0, <2>5 DEF TypeOK, Idle
  <1>2. RateInv /\ [Next]_vars =>
           [\A w \in Requests :
               /\ req[w].pc = "allow" /\ req'[w].pc # "allow"
               /\ promise # None
               /\ now >= promise
               => req'[w].pc = "idle"]_vars
    BY <1>1
  <1>3. RateInv /\ [Next]_vars => RateInv'
    BY RateInvStep
  <1> QED BY <1>2, <1>3, RateInvInit, PTL DEF Spec, RetryAfterHonest

\* A request of another limiter, or one that neither takes nor reserves a token of
\* the key's, leaves Taken alone.
LEMMA TakenKept ==
    ASSUME RateInv, Taken, UNCHANGED <<now, entry, load>>,
           entry # None => lims'[entry.l] = lims[entry.l],
           \A w \in Requests : req'[w].pc = "cancel" /\ req'[w] # req[w] =>
                                  req'[w].l # entry.l
    PROVE  Taken'
  <1>1. CASE entry = None
    BY <1>1 DEF Taken
  <1>2. CASE entry # None
    <2>1. Units(entry.l)' = Units(entry.l)
      BY <1>2 DEF Units
    <2> QED BY <1>2, <2>1 DEF Taken
  <1> QED BY <1>1, <1>2

\* Allow.
LEMMA TakenAllow ==
    ASSUME RateInv, RateInv', Taken, NEW w \in Requests, Allow(w)
    PROVE  Taken'
  <1>0. TypeOK /\ Current /\ (\A i \in 1 .. Len(lims) : Bucket(i)) /\ TypeOK'
    BY DEF RateInv
  <1> DEFINE l == req[w].l
             u == Units(l)
  <1>1. /\ req[w].pc = "allow" /\ UNCHANGED <<now, entry>> /\ l \in 1 .. Len(lims)
        /\ entry # None /\ l = entry.l /\ req[w].got <= entry.seen
        /\ now - req[w].got <= MaxStall /\ load \in Nat /\ req[w].got \in Nat
        /\ entry.seen \in Nat
    BY <1>0, RequestShape, RateAssumption, SMTT(30) DEF Allow, TypeOK, Current, Time
  <1>2. u \in Int /\ now \in Nat /\ u <= Full
    BY <1>0, <1>1, LimiterShape
  <1>3. CASE u >= Cost
    <2>1. /\ lims' = [lims EXCEPT ![l] = Reserved(l)] /\ load' = load + Cost
          /\ req' = [req EXCEPT ![w] = Idle]
      BY <1>2, <1>3, FullFacts, SMT DEF Allow
    <2>2. /\ Reserved(l) \in Limiters /\ Reserved(l).last = now
          /\ Reserved(l).units = u - Cost /\ Reserved(l).event = now
      BY <1>0, <1>1, <1>2, <1>3, ReservedShape, FullFacts, SMTT(30)
    <2>3. lims'[l] = Reserved(l)
      BY <1>0, <1>1, <2>1, <2>2, LimiterMove
    <2>4. req'[w].pc = "idle" /\ \A v \in Requests \ {w} : req'[v] = req[v]
      BY <1>0, <2>1 DEF TypeOK, Idle
    <2> HIDE DEF u, l
    <2>5. Units(entry.l)' = u - Cost
      <3>1. Units(entry.l)' = IF Full < (u - Cost) + (now - now) THEN Full
                        ELSE (u - Cost) + (now - now)
        <4>1. now' = now /\ entry' = entry /\ entry.l = l
          BY <1>1
        <4> QED BY <2>2, <2>3, <4>1 DEF Units, AtMost
      <3> QED BY <1>2, <3>1, FullFacts, SMT
    <2>6. load <= Full - u
      BY <1>1 DEF Taken, u
    <2>7. /\ load + Cost <= Full - (u - Cost) /\ load + Cost <= Full
          /\ load + Cost <= Full + entry.seen + MaxStall - now
      <3> DEFINE g == req[w].got
                 e == entry.seen
      <3>1. /\ load \in Nat /\ u \in Int /\ now \in Nat /\ u <= Full /\ u >= Cost
            /\ load <= Full - u
        BY <1>1, <1>2, <1>3, <2>6
      <3>2. g \in Nat /\ e \in Nat /\ g <= e /\ now - g <= MaxStall
        BY <1>1
      <3> HIDE DEF g, e
      <3>3. load + Cost <= Full - (u - Cost) /\ load + Cost <= Full
        BY <3>1, FullFacts, SMT
      <3>4. load + Cost <= Full + e + MaxStall - now
        BY <3>1, <3>2, <3>3, FullFacts, SMT
      <3> QED BY <3>3, <3>4 DEF e
    <2>8. ASSUME NEW v \in Requests, req'[v].pc = "cancel", req'[v].l = l, now <= req'[v].act
          PROVE  /\ now = req'[v].act
                 /\ (load + Cost) + Cost <= Full - (u - Cost)
      <3>1. req'[v] = req[v]
        BY <2>4, <2>8
      <3>2. /\ now = req[v].act \/ u <= now - req[v].act
            /\ load + Cost <= Full - u /\ req[v].act \in Int
        BY <1>0, <1>1, <2>8, <3>1, RequestShape DEF Taken, u
      <3>3. ~(u <= now - req[v].act)
        <4> DEFINE t == req[v].act
        <4>1. t \in Int /\ now <= t /\ now \in Nat /\ u \in Int /\ u >= Cost
          BY <1>2, <1>3, <2>8, <3>1, <3>2
        <4> HIDE DEF t
        <4>2. ~(u <= now - t)
          BY <4>1, FullFacts, SMT
        <4> QED BY <4>2 DEF t
      <3>4. now = req'[v].act
        BY <3>1, <3>2, <3>3
      <3>5. (load + Cost) + Cost <= Full - (u - Cost)
        <4>1. load \in Nat /\ u \in Int /\ load + Cost <= Full - u
          BY <1>1, <1>2, <3>2
        <4> QED BY <4>1, FullFacts, SMT
      <3> QED BY <3>4, <3>5
    <2>9. /\ entry' = entry /\ now' = now /\ load' = load + Cost /\ entry # None
          /\ entry.l = l /\ lims'[l].event = now
      BY <1>1, <2>1, <2>2, <2>3
    <2>10. /\ load' <= Full - Units(entry.l)' /\ load' <= Full
           /\ load' <= Full + entry.seen + MaxStall - now
      BY <2>5, <2>7, <2>9
    <2>11. \A v \in Requests :
              req'[v].pc = "cancel" /\ req'[v].l = entry.l /\ now <= req'[v].act =>
                 /\ lims'[entry.l].event = req'[v].act /\ now = req'[v].act
                 /\ load' + Cost <= Full - Units(entry.l)'
      BY <2>5, <2>8, <2>9
    <2> QED BY <2>9, <2>10, <2>11 DEF Taken
  <1>4. CASE ~(u >= Cost)
    <2>1. /\ lims' = lims /\ load' = load
          /\ req' = [req EXCEPT ![w] = [pc |-> "refused", l |-> l]]
      BY <1>4 DEF Allow
    <2>2. req'[w].pc = "refused" /\ \A v \in Requests \ {w} : req'[v] = req[v]
      BY <1>0, <2>1 DEF TypeOK
    <2> QED BY <1>1, <2>1, <2>2, TakenKept
  <1> QED BY <1>3, <1>4

\* Reserve: the only refusal of its limiter.
LEMMA TakenReserve ==
    ASSUME RateInv, RateInv', Taken, RefusalsApart', NEW w \in Requests, Reserve(w)
    PROVE  Taken'
  <1>0. TypeOK /\ TypeOK'
    BY DEF RateInv
  <1> DEFINE l == req[w].l
             u == Units(l)
             r == [pc |-> "cancel", l |-> l, act |-> Reserved(l).event, at |-> now]
  <1>1. /\ req[w].pc = "refused" /\ UNCHANGED <<now, entry, load>>
        /\ lims' = [lims EXCEPT ![l] = Reserved(l)] /\ req' = [req EXCEPT ![w] = r]
        /\ l \in 1 .. Len(lims) /\ load \in Nat
    BY <1>0, RequestShape DEF Reserve, TypeOK
  <1>2. u \in Int /\ now \in Nat /\ u <= Full
    BY <1>0, <1>1, LimiterShape
  <1>3. /\ Reserved(l) \in Limiters /\ Reserved(l).last = now
        /\ Reserved(l).units = u - Cost
        /\ Reserved(l).event = IF u < Cost THEN now + Cost - u ELSE now
    BY <1>0, <1>1, ReservedShape
  <1>4. /\ lims'[l] = Reserved(l)
        /\ \A i \in 1 .. Len(lims) : i # l => lims'[i] = lims[i]
    BY <1>0, <1>1, <1>3, LimiterMove
  <1>5. req'[w] = r /\ \A v \in Requests \ {w} : req'[v] = req[v]
    BY <1>0, <1>1 DEF TypeOK
  <1>6. r.pc = "cancel" /\ r.l = l /\ r.act = Reserved(l).event
    OBVIOUS
  <1> HIDE DEF r
  <1>7. CASE entry = None
    BY <1>1, <1>7 DEF Taken
  <1>8. CASE entry # None /\ entry.l # l
    <2>1. entry.l \in 1 .. Len(lims)
      BY <1>0, <1>8 DEF TypeOK
    <2> QED BY <1>1, <1>4, <1>5, <1>6, <1>8, <2>1, TakenKept
  <1>9. CASE entry # None /\ entry.l = l
    <2>0. /\ load <= Full - u /\ load <= Full
          /\ load = 0 \/ load <= Full + entry.seen + MaxStall - now
      BY <1>9 DEF Taken
    <2> HIDE DEF l, u
    <2>1. Units(entry.l)' = u - Cost
      <3>1. Units(entry.l)' = IF Full < (u - Cost) + (now - now) THEN Full
                        ELSE (u - Cost) + (now - now)
        <4>1. now' = now /\ entry' = entry /\ entry.l = l
          BY <1>1, <1>9
        <4> QED BY <1>3, <1>4, <4>1 DEF Units, AtMost
      <3> QED BY <1>2, <3>1, FullFacts, SMT
    <2>2. load + Cost <= Full - (u - Cost) /\ load <= Full - (u - Cost)
      BY <1>1, <1>2, <2>0, FullFacts, SMT
    <2>3. ASSUME NEW v \in Requests, req'[v].pc = "cancel", req'[v].l = l
          PROVE  v = w
      BY <1>5, <1>6, <2>3 DEF RefusalsApart
    <2>4. now = Reserved(l).event \/ u - Cost <= now - Reserved(l).event
      BY <1>2, <1>3, FullFacts, SMT
    <2> QED BY <1>1, <1>3, <1>4, <1>5, <1>6, <1>9, <2>0, <2>1, <2>2, <2>3, <2>4, SMT DEF Taken
  <1> QED BY <1>7, <1>8, <1>9

\* Cancel: what is put back was reserved.
LEMMA TakenCancel ==
    ASSUME RateInv, RateInv', Taken, RefusalsApart, NEW w \in Requests, CancelAndAnswer(w)
    PROVE  Taken'
  <1>0. TypeOK /\ TypeOK'
    BY DEF RateInv
  <1> DEFINE l == req[w].l
             act == req[w].act
             u == Units(l)
             c == Cancelled(l, act)
             back == Cost - (lims[l].event - act)
  <1>1. /\ req[w].pc = "cancel" /\ UNCHANGED <<now, entry, load>>
        /\ lims' = [lims EXCEPT ![l] = c] /\ req' = [req EXCEPT ![w] = Idle]
        /\ l \in 1 .. Len(lims) /\ load \in Nat /\ act \in Int
    BY <1>0, RequestShape DEF CancelAndAnswer, TypeOK
  <1>2. u \in Int /\ now \in Nat /\ u <= Full /\ lims[l].event \in Int
    BY <1>0, <1>1, LimiterShape
  <1>3. /\ c \in Limiters
        /\ act < now \/ back <= 0 => c = lims[l]
        /\ ~(act < now \/ back <= 0) =>
              /\ c.units = (IF Full < u + back THEN Full ELSE u + back)
              /\ c.last = now
    BY <1>0, <1>1, CancelledShape, ZenonT(30)
  <1>4. lims'[l] = c /\ \A i \in 1 .. Len(lims) : i # l => lims'[i] = lims[i]
    BY <1>0, <1>1, <1>3, LimiterMove
  <1>5. req'[w].pc = "idle" /\ \A v \in Requests \ {w} : req'[v] = req[v]
    BY <1>0, <1>1 DEF TypeOK, Idle
  <1>6. CASE entry = None
    BY <1>1, <1>6 DEF Taken
  <1>7. CASE entry # None /\ entry.l # l
    <2>1. entry.l \in 1 .. Len(lims)
      BY <1>0, <1>7 DEF TypeOK
    <2> QED BY <1>1, <1>4, <1>5, <1>7, <2>1, TakenKept
  <1>8. CASE entry # None /\ entry.l = l
    <2>0. /\ load <= Full - u /\ load <= Full
          /\ load = 0 \/ load <= Full + entry.seen + MaxStall - now
          /\ now <= act => lims[l].event = act /\ load + Cost <= Full - u
      BY <1>1, <1>8 DEF Taken
    <2>1. CASE act < now
      <3>1. lims'[entry.l] = lims[entry.l]
        BY <1>3, <1>4, <1>8, <2>1
      <3>2. \A v \in Requests : req'[v].pc = "cancel" => req'[v] = req[v]
        BY <1>5
      <3> QED BY <1>1, <3>1, <3>2, TakenKept
    <2>2. CASE ~(act < now)
      <3> HIDE DEF act, u, c, l
      <3>1. lims[l].event = act /\ load + Cost <= Full - u /\ back = Cost
        BY <1>1, <1>2, <2>0, <2>2, FullFacts, SMT
      <3>2. c.units = (IF Full < u + Cost THEN Full ELSE u + Cost) /\ c.last = now
        BY <1>3, <2>2, <3>1, FullFacts, SMT
      <3>3. c.units = u + Cost
        BY <1>1, <1>2, <3>1, <3>2, FullFacts, SMT
      <3>4. Units(entry.l)' = u + Cost
        <4>1. Units(entry.l)' = IF Full < (u + Cost) + (now - now) THEN Full
                          ELSE (u + Cost) + (now - now)
          <5>1. now' = now /\ entry' = entry /\ entry.l = l
            BY <1>1, <1>8
          <5> QED BY <1>4, <3>2, <3>3, <5>1 DEF Units, AtMost
        <4> QED BY <1>1, <1>2, <3>1, <4>1, FullFacts, SMT
      <3>5. load <= Full - (u + Cost)
        BY <1>1, <1>2, <3>1, FullFacts, SMT
      <3>6. \A v \in Requests : ~(req'[v].pc = "cancel" /\ req'[v].l = l)
        BY <1>1, <1>5 DEF RefusalsApart, l
      <3> QED BY <1>1, <1>8, <2>0, <3>4, <3>5, <3>6 DEF Taken
    <2> QED BY <2>1, <2>2
  <1> QED BY <1>6, <1>7, <1>8

\* Every step keeps Taken while the refusals of a limiter do not overlap.
LEMMA TakenStep ==
    ASSUME RateInv, RateInv', Taken, RefusalsApart, RefusalsApart', [Next]_vars
    PROVE  Taken'
  <1>0. TypeOK /\ Current /\ (\A i \in 1 .. Len(lims) : Bucket(i))
    BY DEF RateInv
  <1>1. CASE UNCHANGED vars
    BY <1>1, TakenKept DEF vars
  <1>2. ASSUME NEW w \in Requests, GetLimiter(w)
        PROVE  Taken'
    <2> DEFINE l == IF entry = None THEN Len(lims') ELSE entry.l
               r == [pc |-> "allow", l |-> l, got |-> now]
    <2>1. /\ entry' = [l |-> l, seen |-> now] /\ req' = [req EXCEPT ![w] = r]
          /\ UNCHANGED <<now, load>>
      BY <1>2 DEF GetLimiter
    <2>2. r.pc = "allow"
      OBVIOUS
    <2> HIDE DEF r, l
    <2>3. /\ req'[w].pc = "allow" /\ \A v \in Requests \ {w} : req'[v] = req[v]
          /\ entry'.l = l /\ entry'.seen = now
      BY <1>0, <2>1, <2>2 DEF TypeOK
    <2>4. now \in Nat /\ load \in Nat /\ Len(lims) \in Nat /\ l \in Nat
      <3>1. now \in Nat /\ load \in Nat /\ Len(lims) \in Nat
        BY <1>0, RateAssumption, SMT DEF TypeOK, Time
      <3>2. CASE entry = None
        <4>1. Len(lims') \in Nat
          BY SMT DEF RateInv, TypeOK
        <4> QED BY <3>1, <3>2, <4>1 DEF l
      <3>3. CASE entry # None
        BY <1>0, <3>1, <3>3, SMT DEF l, TypeOK
      <3> QED BY <3>1, <3>2, <3>3
    <2>5. entry' # None
      <3>1. entry' \in [l: Nat, seen: Nat]
        BY <2>1, <2>4
      <3> QED BY <3>1, RateAssumption
    <2>6. CASE entry # None
      <3>1. lims' = lims /\ l = entry.l
        BY <1>2, <2>6 DEF GetLimiter, l
      <3>2. Units(entry.l)' = Units(entry.l)
        BY <2>1, <2>3, <3>1 DEF Units
      <3>3. load = 0 \/ load <= Full + now + MaxStall - now
        <4>1. entry.seen <= now /\ entry.seen \in Nat
          BY <1>0, <2>6, RateAssumption, SMT DEF Current, TypeOK, Time
        <4>2. load = 0 \/ load <= Full + entry.seen + MaxStall - now
          BY <2>6 DEF Taken
        <4> QED BY <2>4, <4>1, <4>2, FullFacts, SMT
      <3>4. \A v \in Requests :
               req'[v].pc = "cancel" /\ req'[v].l = entry'.l /\ now' <= req'[v].act =>
                  /\ lims'[entry'.l].event = req'[v].act
                  /\ now' = req'[v].act \/ Units(entry.l)' <= now' - req'[v].act
                  /\ load' + Cost <= Full - Units(entry.l)'
        BY <2>1, <2>3, <2>6, <3>1, <3>2, ZenonT(30) DEF Taken
      <3>5. load' <= Full - Units(entry.l)' /\ load' <= Full
        BY <2>1, <2>6, <3>2 DEF Taken
      <3>6. load' = 0 \/ load' <= Full + entry'.seen + MaxStall - now'
        BY <2>1, <2>3, <3>3
      <3> QED BY <2>5, <3>4, <3>5, <3>6 DEF Taken
    <2>7. CASE entry = None
      <3>1. lims' = Append(lims, NewLimiter) /\ l = Len(lims') /\ load = 0
        BY <1>2, <2>7 DEF GetLimiter, l, Taken
      <3>2. l = Len(lims) + 1 /\ lims'[l] = NewLimiter
        BY <1>0, <3>1, SMT DEF TypeOK
      <3>3. Units(entry.l)' = IF Full < Full + (now - now) THEN Full ELSE Full + (now - now)
        <4>1. now' = now /\ lims'[entry'.l].units = Full /\ lims'[entry'.l].last = now
          BY <2>1, <2>3, <3>2, SMT DEF NewLimiter
        <4> QED BY <4>1 DEF Units, AtMost
      <3>4. Units(entry.l)' = Full
        BY <2>4, <3>3, FullFacts, SMT
      <3>5. \A v \in Requests : ~(req'[v].pc = "cancel" /\ req'[v].l = entry'.l)
        <4> SUFFICES ASSUME NEW v \in Requests, req'[v].pc = "cancel", req'[v].l = entry'.l
                     PROVE  FALSE
          OBVIOUS
        <4>1. req'[v] = req[v]
          BY <2>3
        <4>2. req[v].l \in 1 .. Len(lims)
          BY <1>0, <4>1, RequestShape
        <4> QED BY <2>3, <2>4, <3>2, <4>1, <4>2, SMT
      <3>6. load' = 0 /\ load' <= Full - Units(entry.l)' /\ load' <= Full
        BY <2>1, <3>1, <3>4, FullFacts, SMT
      <3> QED BY <2>5, <3>5, <3>6 DEF Taken
    <2> QED BY <2>6, <2>7
  <1>3. CASE Cleanup
    <2>1. /\ entry # None /\ now - entry.seen > TTL /\ entry' = None /\ load' = load
      BY <1>3 DEF Cleanup
    <2>2. now \in Nat /\ entry.seen \in Nat /\ load \in Nat
      BY <1>0, <2>1, RateAssumption, SMT DEF TypeOK, Time
    <2>3. load = 0 \/ load <= Full + entry.seen + MaxStall - now
      BY <2>1 DEF Taken
    <2>4. load = 0
      BY <2>1, <2>2, <2>3, FullFacts, SMT
    <2> QED BY <2>1, <2>4 DEF Taken
  <1>4. CASE Tick
    <2>1. /\ now' = now + 1 /\ load' = (IF load = 0 THEN 0 ELSE load - 1)
          /\ lims' = lims /\ entry' = entry /\ req' = req
      BY <1>4 DEF Tick
    <2>2. now \in Nat /\ load \in Nat
      BY <1>0, RateAssumption, SMT DEF TypeOK, Time
    <2>3. CASE entry = None
      BY <2>1, <2>3 DEF Taken
    <2>4. CASE entry # None
      <3> DEFINE l == entry.l
                 u == Units(l)
      <3>1. entry.seen \in Nat /\ l \in 1 .. Len(lims)
        BY <1>0, <2>4, RateAssumption, SMT DEF TypeOK, Time
      <3>2. /\ u \in Int /\ u <= Full /\ lims[l].units \in Int /\ lims[l].last \in Nat
            /\ u = IF Full < lims[l].units + now - lims[l].last THEN Full
                   ELSE lims[l].units + now - lims[l].last
        BY <1>0, <3>1, LimiterShape
      <3>3. Units(entry.l)' = IF Full < lims[l].units + ((now + 1) - lims[l].last) THEN Full
                              ELSE lims[l].units + ((now + 1) - lims[l].last)
        BY <2>1 DEF Units, AtMost
      <3>4. /\ load <= Full - u /\ load <= Full
            /\ load = 0 \/ load <= Full + entry.seen + MaxStall - now
        BY <2>4 DEF Taken
      <3> HIDE DEF u, l
      <3>5. /\ Units(entry.l)' \in Int /\ Units(entry.l)' <= Full /\ Units(entry.l)' <= u + 1
        BY <2>2, <3>2, <3>3, FullFacts, SMT
      <3>6. load' <= Full - Units(entry.l)' /\ load' <= Full
        BY <2>1, <2>2, <3>2, <3>4, <3>5, FullFacts, SMT
      <3>7. load' = 0 \/ load' <= Full + entry.seen + MaxStall - (now + 1)
        BY <2>1, <2>2, <3>1, <3>4, FullFacts, SMTT(30)
      <3>8. ASSUME NEW w \in Requests, req[w].pc = "cancel", req[w].l = l, now + 1 <= req[w].act
            PROVE  /\ lims[l].event = req[w].act
                   /\ Units(entry.l)' <= (now + 1) - req[w].act
                   /\ load' + Cost <= Full - Units(entry.l)'
        <4>1. req[w].act \in Int
          BY <1>0, <3>8, RequestShape
        <4>2. /\ lims[l].event = req[w].act /\ u <= now - req[w].act
              /\ load + Cost <= Full - u
          BY <2>2, <2>4, <3>8, <4>1, SMT DEF Taken, u, l
        <4> QED BY <2>1, <2>2, <3>2, <3>5, <3>8, <4>1, <4>2, FullFacts, SMT
      <3>9. now' = now + 1 /\ lims' = lims /\ entry' = entry /\ req' = req /\ entry # None
            /\ l = entry.l
        BY <2>1, <2>4 DEF l
      <3> QED BY <3>6, <3>7, <3>8, <3>9 DEF Taken
    <2> QED BY <2>3, <2>4
  <1> QED BY <1>1, <1>2, <1>3, <1>4, TakenAllow, TakenReserve, TakenCancel DEF Next

\* RateBound, if the refusals of a limiter do not overlap between the Reserve and the
\* Cancel of retryAfterSeconds: evictions, requests that use a limiter after the mutex
\* is released and reservations that are undone never add up to more than a burst and
\* the refill.
THEOREM RateBoundedApart ==
    Spec /\ []RefusalsApart => []RateBound
  <1>1. RateInv /\ [Next]_vars => RateInv'
    BY RateInvStep
  <1>2. RateInv /\ RateInv' /\ Taken /\ RefusalsApart /\ RefusalsApart' /\ [Next]_vars
           => Taken'
    BY TakenStep
  <1>3. RateInv /\ Taken => RateBound
    <2> SUFFICES ASSUME RateInv, Taken PROVE load <= Full
      BY DEF RateBound
    <2>1. CASE entry = None
      BY <2>1, FullFacts, SMT DEF Taken
    <2>2. CASE entry # None
      BY <2>2 DEF Taken
    <2> QED BY <2>1, <2>2
  <1> QED BY <1>1, <1>2, <1>3, RateInvInit, PTL DEF Spec

---------------------------------------------------------------------------
(* The CSRF check                                                          *)

\* What a calm request knows of the cookie, by how far it is.
CallSafe(c) ==
    /\ c.pc = "send" /\ c.calm => Settled /\ c.header = jar
    /\ c.pc = "serve" /\ c.calm => c.header = c.cookie /\ c.cookie # NoToken
    /\ c.pc = "answer" /\ c.calm => c.ok

CsrfInv == CsrfTypeOK /\ \A s \in Scripts : CallSafe(call[s])

\* Where a request is says which fields it has.
LEMMA CallShape ==
    ASSUME CsrfTypeOK, NEW s \in Scripts
    PROVE  /\ call[s].pc = "send" => call[s] \in [pc: {"send"}, header: Cookies, calm: BOOLEAN]
           /\ call[s].pc = "serve" =>
                 call[s] \in [pc: {"serve"}, header: Cookies, cookie: Cookies, calm: BOOLEAN,
                              write: BOOLEAN]
           /\ call[s].pc = "answer" =>
                 call[s] \in [pc: {"answer"}, set: Tokens, ok: BOOLEAN, calm: BOOLEAN]
           /\ call[s].pc \in {"idle", "send", "serve", "answer"}
           /\ CallIdle \in Calls /\ CallIdle.pc = "idle"
  BY SMT DEF CsrfTypeOK, Calls, CallIdle

\* A request moves: a settled cookie stays as it is and stays settled.
LEMMA CallMove ==
    ASSUME CsrfInv, NEW s \in Scripts, NEW c \in Calls, CallSafe(c),
           jar' \in Cookies, made' \subseteq Tokens, call' = [call EXCEPT ![s] = c],
           Settled => /\ jar' = jar
                      /\ c.pc = "serve" => c.cookie = jar
                      /\ c.pc = "answer" => c.set = jar
    PROVE  CsrfInv'
  <1>1. CsrfTypeOK'
    BY DEF CsrfInv, CsrfTypeOK
  <1>2. \A r \in Scripts : call'[r] = IF r = s THEN c ELSE call[r]
    BY DEF CsrfInv, CsrfTypeOK
  <1>3. Settled => Settled' /\ jar' = jar
    BY <1>2, SMT DEF Settled
  <1>4. \A r \in Scripts : CallSafe(call'[r])
    BY <1>2 DEF CsrfInv
  <1>5. \A r \in Scripts : CallSafe(call[r])'
    BY <1>3, <1>4 DEF CallSafe
  <1> QED BY <1>1, <1>5 DEF CsrfInv

\* The cookie expires: no request that is still to be sent is calm.
LEMMA JarGone ==
    ASSUME CsrfInv, JarExpires
    PROVE  CsrfInv'
  <1>1. ASSUME NEW r \in Scripts
        PROVE  call'[r] \in Calls /\ CallSafe(call[r])'
    <2>1. call[r] \in Calls /\ CallSafe(call[r])
      BY DEF CsrfInv, CsrfTypeOK
    <2>2. CASE call[r].pc = "send"
      <3> DEFINE g == [call[r] EXCEPT !.calm = FALSE]
      <3>1. call[r] \in [pc: {"send"}, header: Cookies, calm: BOOLEAN]
        BY <2>2, CallShape DEF CsrfInv
      <3>2. /\ g \in [pc: {"send"}, header: Cookies, calm: BOOLEAN] /\ g.pc = "send"
            /\ g.calm = FALSE
        BY <2>2, <3>1
      <3>3. g \in Calls
        BY <3>2 DEF Calls
      <3>4. call'[r] = g
        BY <2>2 DEF JarExpires
      <3> HIDE DEF g
      <3> QED BY <3>2, <3>3, <3>4 DEF CallSafe
    <2>3. CASE call[r].pc # "send"
      <3>1. call'[r] = call[r]
        BY <2>3 DEF JarExpires
      <3> QED BY <2>1, <2>3, <3>1 DEF CallSafe
    <2> QED BY <2>2, <2>3
  <1>2. call' = [r \in Scripts |-> call'[r]]
    BY DEF JarExpires
  <1>3. CsrfTypeOK'
    BY <1>1, <1>2 DEF CsrfInv, CsrfTypeOK, JarExpires, Cookies
  <1> QED BY <1>1, <1>3 DEF CsrfInv

\* Every step of a script, of the server and of the browser.
LEMMA CsrfNextInv ==
    ASSUME CsrfInv, [CsrfNext]_csrfVars
    PROVE  CsrfInv'
  <1> USE DEF CsrfInv
  <1>1. ASSUME NEW s \in Scripts, ReadCookie(s)
        PROVE  CsrfInv'
    <2> DEFINE g == [pc |-> "send", header |-> jar, calm |-> Settled]
    <2>1. Settled \in BOOLEAN
      BY DEF Settled
    <2>2. g \in Calls /\ g.pc = "send" /\ g.header = jar /\ g.calm = Settled
      BY <2>1 DEF CsrfTypeOK, Calls
    <2>3. call' = [call EXCEPT ![s] = g] /\ UNCHANGED <<jar, made>>
      BY <1>1 DEF ReadCookie
    <2> HIDE DEF g
    <2>4. CallSafe(g)
      BY <2>2 DEF CallSafe
    <2> QED BY <2>2, <2>3, <2>4, CallMove DEF CsrfTypeOK
  <1>2. ASSUME NEW s \in Scripts, Send(s)
        PROVE  CsrfInv'
    <2>1. PICK w \in BOOLEAN :
             call' = [call EXCEPT ![s] =
                        [pc |-> "serve", header |-> call[s].header, cookie |-> jar,
                         calm |-> call[s].calm, write |-> w]]
      BY <1>2 DEF Send
    <2> DEFINE g == [pc |-> "serve", header |-> call[s].header, cookie |-> jar,
                     calm |-> call[s].calm, write |-> w]
    <2>2. /\ call[s] \in [pc: {"send"}, header: Cookies, calm: BOOLEAN]
          /\ call[s].calm => Settled /\ call[s].header = jar
      BY <1>2, CallShape DEF Send, CallSafe
    <2>3. /\ g \in Calls /\ g.pc = "serve" /\ g.cookie = jar
          /\ g.header = call[s].header /\ g.calm = call[s].calm
      BY <2>2 DEF CsrfTypeOK, Calls
    <2>4. call' = [call EXCEPT ![s] = g] /\ UNCHANGED <<jar, made>>
      BY <1>2, <2>1 DEF Send
    <2> HIDE DEF g
    <2>5. CallSafe(g)
      BY <2>2, <2>3 DEF CallSafe, Settled
    <2> QED BY <2>3, <2>4, <2>5, CallMove DEF CsrfTypeOK
  <1>3. ASSUME NEW s \in Scripts, Serve(s)
        PROVE  CsrfInv'
    <2>1. PICK token \in CookieTokens(call[s]) :
             /\ made' = made \cup {token}
             /\ call' = [call EXCEPT ![s] =
                           [pc |-> "answer", set |-> token,
                            ok |-> Passes(call[s], token), calm |-> call[s].calm]]
      BY <1>3 DEF Serve
    <2> DEFINE g == [pc |-> "answer", set |-> token,
                     ok |-> Passes(call[s], token), calm |-> call[s].calm]
    <2>2. /\ call[s] \in [pc: {"serve"}, header: Cookies, cookie: Cookies, calm: BOOLEAN,
                          write: BOOLEAN]
          /\ call[s].calm => call[s].header = call[s].cookie /\ call[s].cookie # NoToken
      BY <1>3, CallShape DEF Serve, CallSafe
    <2>3. token \in Tokens /\ (call[s].cookie # NoToken => token = call[s].cookie)
      BY <2>2 DEF CookieTokens, Cookies
    <2>4. Passes(call[s], token) \in BOOLEAN
      BY DEF Passes
    <2>5. call[s].calm => Passes(call[s], token)
      BY <2>2, <2>3 DEF Passes
    <2>6. /\ g \in Calls /\ g.pc = "answer" /\ g.set = token
          /\ g.calm = call[s].calm /\ g.ok = Passes(call[s], token)
      BY <2>2, <2>3, <2>4 DEF Calls
    <2>7. call' = [call EXCEPT ![s] = g] /\ UNCHANGED jar /\ made' \subseteq Tokens
      BY <1>3, <2>1, <2>3 DEF Serve, CsrfTypeOK
    <2> HIDE DEF g
    <2>8. CallSafe(g)
      BY <2>5, <2>6 DEF CallSafe
    <2>9. Settled => token = jar
      BY <1>3, <2>3 DEF Serve, Settled
    <2> QED BY <2>6, <2>7, <2>8, <2>9, CallMove DEF CsrfTypeOK
  <1>4. ASSUME NEW s \in Scripts, TurnedAway(s)
        PROVE  CsrfInv'
    BY <1>4, CallMove, CallShape DEF TurnedAway, CallSafe, CsrfTypeOK
  <1>5. ASSUME NEW s \in Scripts, Receive(s)
        PROVE  CsrfInv'
    <2>1. call[s].set \in Cookies
      BY <1>5, CallShape DEF Receive, Cookies
    <2>2. Settled => call[s].set = jar
      BY <1>5 DEF Receive, Settled
    <2>3. CallIdle \in Calls /\ CallIdle.pc = "idle" /\ CallSafe(CallIdle)
      BY <1>5, CallShape DEF CallSafe
    <2> QED BY <1>5, <2>1, <2>2, <2>3, CallMove DEF Receive, CsrfTypeOK
  <1>6. CASE JarExpires
    BY <1>6, JarGone
  <1>7. CASE UNCHANGED csrfVars
    BY <1>7 DEF csrfVars, CsrfTypeOK, CallSafe, Settled
  <1> QED BY <1>1, <1>2, <1>3, <1>4, <1>5, <1>6, <1>7 DEF CsrfNext

\* Before the first answer.
LEMMA CsrfInitInv == CsrfInit => CsrfInv
  BY SMT DEF CsrfInit, CsrfInv, CsrfTypeOK, CallSafe, Calls, CallIdle, Cookies

\* The cookie and the requests of the browser keep their types.
LEMMA CsrfTypeCorrect == CsrfSpec => []CsrfTypeOK
  <1>1. CsrfInv => CsrfTypeOK
    BY DEF CsrfInv
  <1> QED BY <1>1, CsrfInitInv, CsrfNextInv, PTL DEF CsrfSpec

\* CSRFMiddleware turns no script away that read a settled cookie which did not
\* expire before it was sent, for any number of requests in flight.
THEOREM SettledScriptsPass == CsrfSpec => []SettledNeverRefused
  <1>1. CsrfInv => SettledNeverRefused
    BY DEF CsrfInv, CallSafe, SettledNeverRefused
  <1> QED BY <1>1, CsrfInitInv, CsrfNextInv, PTL DEF CsrfSpec
=============================================================================
