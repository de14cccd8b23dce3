----------------------------- MODULE MCAccounts -----------------------------
(***************************************************************************)
(* A small instance of Accounts.  The mix of a behaviour never changes:     *)
(* guesses at an account over time, or logins and changes of the password   *)
(* that has to be changed.                                                  *)
(***************************************************************************)
EXTENDS Accounts, TLC

VARIABLE mix

MCInit ==
    /\ AccInit
    /\ mix \in {"guesses", "change"}
    /\ row.force <=> mix = "change"

\* Guessing is about the lockout: a right guess shows there, its session in the
\* other mix.  Changing needs one failure and a clock that outlives a challenge.
Restriction ==
    /\ mix = "guesses" =>
          /\ row'.active
          /\ \A w \in Workers : login'[w].pc \in {"idle", "check", "touch"}
    /\ mix = "change" => now' <= ChallengeTTL /\ acct'.attempts = 0

MCNext == AccNext /\ Restriction /\ UNCHANGED mix

MCSpec == MCInit /\ [][MCNext]_<<accVars, mix>>

\* Requests, passwords and challenge tokens are interchangeable.
Symmetry ==
    Permutations(Workers) \cup Permutations(Passwords)
    \cup Permutations(Changers) \cup Permutations(Challenges)
=============================================================================
