----------------------------- MODULE MCAdminApi -----------------------------
(***************************************************************************)
(* A small instance of what every request to the administration API goes   *)
(* through, the rate limit and the CSRF check, and of the listings it asks *)
(* for.  They share no state: the mix of a behaviour says which one moves. *)
(***************************************************************************)
EXTENDS RateLimiter, Csrf, Listing

VARIABLE mix

mcVars == <<vars, csrfVars, listVars, mix>>

MCInit ==
    /\ Init /\ CsrfInit /\ ListInit
    /\ mix \in {"limit", "csrf", "list"}
    /\ mix # "list" => kind = "clients"

MCNext ==
    /\ \/ mix = "limit" /\ Next /\ UNCHANGED <<csrfVars, listVars>>
       \/ mix = "csrf" /\ CsrfNext /\ UNCHANGED <<vars, listVars>>
       \/ mix = "list" /\ ListNext /\ UNCHANGED <<vars, csrfVars>>
          /\ walk.pc # "done"
    /\ UNCHANGED mix

MCSpec == MCInit /\ [][MCNext]_mcVars

\* The three components keep their types.
ApiTypeOK == TypeOK /\ CsrfTypeOK /\ ListTypeOK
=============================================================================
