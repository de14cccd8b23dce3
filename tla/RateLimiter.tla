---------------------------- MODULE RateLimiter ----------------------------
(***************************************************************************)
(* The rate limit of one key, an IP address or a user: the map of limiters *)
(* under its mutex, the goroutine that evicts idle entries, and concurrent *)
(* requests that look the limiter up and then use it outside the mutex.    *)
(* The keys do not share anything.  A limiter is a token bucket of         *)
(* golang.org/x/time/rate, modelled from how the code uses it; a token is  *)
(* Cost units, and one unit is refilled per tick of the clock.             *)
(***************************************************************************)
EXTENDS Integers, Sequences, FiniteSets

CONSTANTS
    Requests,    \* requests of the key that can be in flight
    None,        \* no entry, no promise
    Burst,       \* tokens of a full bucket
    Cost,        \* ticks in which one token is refilled
    TTL,         \* idle time after which an entry is evicted
    MaxStall,    \* a request uses the limiter within this time of its lookup
    MaxTime,     \* bound of the clock
    MaxLimiters, \* bound of the limiters made for the key
    MaxDebt      \* bound of what refusals that overlap leave reserved

\* RateLimitByIP and RateLimitByUser refill a bucket within one minute and evict
\* after five; nothing blocks between the lookup and the use, which leaves four.
ASSUME RateAssumption ==
    /\ Burst \in Nat \ {0} /\ Cost \in Nat \ {0}
    /\ TTL \in Nat /\ MaxStall \in Nat
    /\ Burst * Cost + MaxStall <= TTL
    /\ MaxTime \in Nat /\ MaxLimiters \in Nat /\ MaxDebt \in Nat
    /\ None \notin [l: Nat, seen: Nat]

VARIABLES
    now,        \* the clock
    lims,       \* the limiters made so far
    entry,      \* the key's entry in the map, or None
    req,        \* req[w]: a request in flight
    load,       \* history: what was admitted, less what was refilled since
    promise     \* history: Retry-After of the last answer, if nobody came since

vars == <<now, lims, entry, req, load, promise>>

Time == 0 .. MaxTime
Full == Burst * Cost

Idle == [pc |-> "idle"]

\* units can be negative while tokens are reserved ahead; event is when the
\* latest reservation may act.
Limiters == [units: Int, last: Time, event: Int]

Reqs ==
    {Idle}
    \cup [pc: {"allow"}, l: Nat, got: Time]
    \cup [pc: {"refused"}, l: Nat]
    \cup [pc: {"cancel"}, l: Nat, act: Int, at: Time]

\* Limiters, requests and the clock keep their types.
TypeOK ==
    /\ now \in Time
    /\ lims \in Seq(Limiters) /\ Len(lims) <= MaxLimiters
    /\ entry \in [l: 1 .. Len(lims), seen: Time] \cup {None}
    /\ req \in [Requests -> Reqs]
    /\ \A w \in Requests : req[w].pc # "idle" => req[w].l \in 1 .. Len(lims)
    /\ \A i \in 1 .. Len(lims) : lims[i].units <= Full
    /\ load \in Nat
    /\ promise \in Nat \cup {None}

Init ==
    /\ now = 0
    /\ lims = << >>
    /\ entry = None
    /\ req = [w \in Requests |-> Idle]
    /\ load = 0
    /\ promise = None

-----------------------------------------------------------------------------
(* The token bucket.                                                       *)

AtMost(a, b) == IF a < b THEN a ELSE b

NewLimiter == [units |-> Full, last |-> now, event |-> now]

\* advance: what the bucket holds now.
Units(l) == AtMost(Full, lims[l].units + now - lims[l].last)

\* reserveN for one token: it may act once the bucket is out of debt.
Reserved(l) ==
    LET u == Units(l) - Cost
    IN  [units |-> u, last |-> now, event |-> IF u < 0 THEN now - u ELSE now]

\* Mutant: what is put back is not capped at a full bucket.
CancelledOver(l, act) ==
    LET back == Cost - (lims[l].event - act)
    IN  IF act < now \/ back <= 0 THEN lims[l]
        ELSE [lims[l] EXCEPT !.units = Full + back]

\* Cancel of a reservation that may act at time act: what was reserved after it
\* is not restored, nor anything once its time has passed.
Cancelled(l, act) ==
    LET back == Cost - (lims[l].event - act)
    IN  IF act < now \/ back <= 0 THEN lims[l]
        ELSE [units |-> AtMost(Full, Units(l) + back), last |-> now,
              event |-> IF act = lims[l].event /\ act - Cost >= now
                        THEN act - Cost ELSE lims[l].event]

-----------------------------------------------------------------------------
(* The requests and the clean-up.                                          *)

\* Mutant: only a new entry notes when it was seen.
LookupUnseen(w) ==
    /\ req[w].pc = "idle"
    /\ \/ /\ entry # None
          /\ req' = [req EXCEPT ![w] = [pc |-> "allow", l |-> entry.l, got |-> now]]
          /\ UNCHANGED <<entry, lims>>
       \/ /\ entry = None /\ Len(lims) < MaxLimiters
          /\ lims' = Append(lims, NewLimiter)
          /\ entry' = [l |-> Len(lims) + 1, seen |-> now]
          /\ req' = [req EXCEPT ![w] =
                       [pc |-> "allow", l |-> Len(lims) + 1, got |-> now]]
    /\ UNCHANGED <<now, load, promise>>

\* getLimiter, under the mutex.
GetLimiter(w) ==
    /\ req[w].pc = "idle"
    /\ \/ entry # None /\ UNCHANGED lims
       \/ entry = None /\ Len(lims) < MaxLimiters /\ lims' = Append(lims, NewLimiter)
    /\ LET l == IF entry = None THEN Len(lims') ELSE entry.l
       IN  /\ entry' = [l |-> l, seen |-> now]
           /\ req' = [req EXCEPT ![w] = [pc |-> "allow", l |-> l, got |-> now]]
    /\ UNCHANGED <<now, load, promise>>

\* limiter.Allow(): a token now, or a refusal that leaves the bucket alone.
Allow(w) ==
    /\ req[w].pc = "allow"
    /\ LET l == req[w].l
       IN  \/ /\ Units(l) >= Cost
              /\ lims' = [lims EXCEPT ![l] = Reserved(l)]
              /\ load' = load + Cost
              /\ req' = [req EXCEPT ![w] = Idle]
           \/ /\ Units(l) < Cost
              /\ req' = [req EXCEPT ![w] = [pc |-> "refused", l |-> l]]
              /\ UNCHANGED <<lims, load>>
    /\ promise' = None
    /\ UNCHANGED <<now, entry>>

\* retryAfterSeconds: Reserve and Delay, then Cancel and the answer.
Reserve(w) ==
    /\ req[w].pc = "refused"
    /\ Reserved(req[w].l).units >= 0 - MaxDebt
    /\ LET l == req[w].l
       IN  /\ lims' = [lims EXCEPT ![l] = Reserved(l)]
           /\ req' = [req EXCEPT ![w] = [pc |-> "cancel", l |-> l,
                                         act |-> Reserved(l).event, at |-> now]]
    /\ promise' = None
    /\ UNCHANGED <<now, entry, load>>

RetryAfter(w) == IF req[w].act - req[w].at < 1 THEN 1 ELSE req[w].act - req[w].at

\* No time passed since Reserve, the limiter is still the key's, nobody else holds a
\* reservation, and the latest one made is this one.
Undisturbed(w) ==
    /\ now = req[w].at
    /\ entry # None /\ entry.l = req[w].l
    /\ \A v \in Requests \ {w} : req[v].pc # "cancel"
    /\ lims[req[w].l].event = req[w].act

\* Mutant: the reservation is not cancelled.
AnswerReserved(w) ==
    /\ req[w].pc = "cancel"
    /\ promise' = IF Undisturbed(w) THEN now + RetryAfter(w) ELSE None
    /\ req' = [req EXCEPT ![w] = Idle]
    /\ UNCHANGED <<now, lims, entry, load>>

CancelAndAnswer(w) ==
    /\ req[w].pc = "cancel"
    /\ lims' = [lims EXCEPT ![req[w].l] = Cancelled(req[w].l, req[w].act)]
    /\ promise' = IF Undisturbed(w) THEN now + RetryAfter(w) ELSE None
    /\ req' = [req EXCEPT ![w] = Idle]
    /\ UNCHANGED <<now, entry, load>>

\* The clean-up goroutine, at whatever phase its ticker has.
Cleanup ==
    /\ entry # None
    /\ now - entry.seen > TTL
    /\ entry' = None
    /\ UNCHANGED <<now, lims, req, load, promise>>

Tick ==
    /\ now < MaxTime
    /\ \A w \in Requests : req[w].pc = "allow" => now - req[w].got < MaxStall
    /\ now' = now + 1
    /\ load' = IF load = 0 THEN 0 ELSE load - 1
    /\ UNCHANGED <<lims, entry, req, promise>>

Next ==
    \/ \E w \in Requests :
          GetLimiter(w) \/ Allow(w) \/ Reserve(w) \/ CancelAndAnswer(w)
    \/ Cleanup
    \/ Tick

Spec == Init /\ [][Next]_vars

-----------------------------------------------------------------------------
(* Properties.                                                             *)

\* In any stretch of time at most a burst and what is refilled meanwhile is
\* admitted, although an evicted key starts again with a full bucket, requests
\* use a limiter after the mutex is released, and refusals reserve and cancel.
\* (load is the largest excess over the refill of a stretch that ends now.)
RateBound == load <= Full

\* No two refusals of one limiter are between Reserve and Cancel at the same time.
RefusalsApart ==
    \A v, w \in Requests :
        req[v].pc = "cancel" /\ req[w].pc = "cancel" /\ req[v].l = req[w].l => v = w

\* The Retry-After of a refusal is right: whoever waits that long, with no other
\* request of the key reserving or asking in between, is admitted.
RetryAfterHonest ==
    [][\A w \in Requests :
          /\ req[w].pc = "allow" /\ req'[w].pc # "allow"
          /\ promise # None
          /\ now >= promise
          => req'[w].pc = "idle"]_vars
=============================================================================
