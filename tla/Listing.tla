------------------------------ MODULE Listing ------------------------------
(***************************************************************************)
(* The listings of the administration API: an administrator reads one of   *)
(* the tables clients, users, authorization_codes and access_tokens page   *)
(* by page, following the total of each answer, while rows are inserted,   *)
(* change their status or are deleted.  A request is two statements, the   *)
(* page and the count.  flag is is_active of clients and users and         *)
(* is_revoked of codes and tokens.                                         *)
(***************************************************************************)
EXTENDS Integers, Sequences, FiniteSets, Functions

CONSTANTS
    RowIds,         \* rows that can be inserted, numbers used in order
    Ids,            \* client and user ids
    ZeroId,         \* uuid.Nil
    Absent,         \* an absent query parameter, a NULL column, no row yet
    Gone,           \* a row that was deleted
    Limits,         \* limits asked for (of 1 .. 100)
    Offsets,        \* offsets asked for first
    IntWidth,       \* bits of the int32 that the offset is converted to
    MaxLeft         \* bound of the rows that leave a listing while it is read

ASSUME ListingAssumption ==
    /\ IsFiniteSet(RowIds) /\ RowIds = 1 .. Cardinality(RowIds)
    /\ Absent \notin Ids \cup BOOLEAN /\ ZeroId \notin Ids \cup {Absent}
    /\ Limits \subseteq Nat \ {0}
    /\ Offsets \subseteq Nat
    /\ IntWidth \in Nat \ {0} /\ MaxLeft \in Nat

VARIABLES
    kind,           \* the table that is listed
    table,          \* row id |-> its columns; at is created_at
    walk            \* the administrator's requests

listVars == <<kind, table, walk>>

Kinds == {"clients", "users", "codes", "tokens"}

\* The columns that the listings of a table use.  The access token of a direct
\* login has no client.
TableRows ==
    [clients |-> [at: RowIds, flag: BOOLEAN],
     users   |-> [at: RowIds, flag: BOOLEAN, admin: BOOLEAN],
     codes   |-> [at: RowIds, flag: BOOLEAN, client: Ids, user: Ids],
     tokens  |-> [at: RowIds, flag: BOOLEAN, client: Ids \cup {Absent}, user: Ids]]

\* NULL markers are not rows.
ASSUME NoRowAssumption ==
    \A k \in Kinds : Absent \notin TableRows[k] /\ Gone \notin TableRows[k]

\* The parameters that the handlers of the four routes let pass.
ClientQueries == [flag: BOOLEAN \cup {Absent}]
UserQueries   == [flag: BOOLEAN \cup {Absent}, admin: BOOLEAN \cup {Absent}]
CodeQueries   == [client: Ids \cup {Absent}, user: Ids \cup {Absent},
                  flag: BOOLEAN \cup {Absent}]
TokenQueries  == [client: Ids \cup {Absent}, user: Ids \cup {Absent},
                  flag: BOOLEAN \cup {Absent}]

Queries == [clients |-> ClientQueries, users |-> UserQueries,
            codes |-> CodeQueries, tokens |-> TokenQueries]

WalkIdle == [pc |-> "idle"]

\* off is the offset asked for next.  The rest is history: rows seen, rows that
\* were on the listing all along (when the walk begins with the first row), how
\* often a row left it, and whether two rows on it had the same created_at.
Walks ==
    {WalkIdle} \cup
    [pc: {"list", "count", "done"}, q: UNION {Queries[k] : k \in Kinds},
     limit: Limits, off: Nat, seen: SUBSET RowIds, kept: SUBSET RowIds,
     left: Nat, tied: BOOLEAN]

ListTypeOK ==
    /\ kind \in Kinds
    /\ table \in [RowIds -> TableRows[kind] \cup {Absent, Gone}]
    /\ walk \in Walks
    /\ walk.pc # "idle" => walk.q \in Queries[kind]

ListInit ==
    /\ kind \in Kinds
    /\ table = [i \in RowIds |-> Absent]
    /\ walk = WalkIdle

RowsOf(t) == {i \in RowIds : t[i] \notin {Absent, Gone}}

-----------------------------------------------------------------------------
(* What a request selects.                                                 *)

Given(p, default) == IF p = Absent THEN default ELSE p

\* The services turn the parameters into the values of the statement, where an
\* absent one becomes a default or the zero value, never NULL.
ClientFilter(q) == [flag |-> Given(q.flag, TRUE)]

UserFilter(q) == [flag |-> Given(q.flag, TRUE), admin |-> Given(q.admin, FALSE)]

CodeFilter(q) ==
    [client |-> Given(q.client, ZeroId), user |-> Given(q.user, ZeroId),
     flag |-> Given(q.flag, FALSE)]

\* Mutant: only the ids that are given are compared.
TokenFilterGiven(q) ==
    [col \in {c \in DOMAIN q : q[c] # Absent} |-> q[col]]

TokenFilter(q) ==
    [client |-> Given(q.client, ZeroId), user |-> Given(q.user, ZeroId),
     flag |-> Given(q.flag, FALSE)]

Filter(q) ==
    CASE kind = "clients" -> ClientFilter(q)
      [] kind = "users"   -> UserFilter(q)
      [] kind = "codes"   -> CodeFilter(q)
      [] kind = "tokens"  -> TokenFilter(q)

\* The WHERE clause; no column is compared with NULL successfully.
Selected(t, q) ==
    {i \in RowsOf(t) : \A col \in DOMAIN Filter(q) : t[i][col] = Filter(q)[col]}

\* ORDER BY created_at DESC: rows of the same time in whatever order.
Ordered(S) ==
    {s \in Injection(1 .. Cardinality(S), S) :
        \A i, j \in 1 .. Len(s) : i < j => table[s[i]].at >= table[s[j]].at}

\* int32(o): two's complement.
Int32(o) ==
    LET m == o % 2^IntWidth
    IN  IF m < 2^(IntWidth - 1) THEN m ELSE m - 2^IntWidth

\* What the conversion relies on: half of the values are below zero.
ASSUME WidthAssumption ==
    2^(IntWidth - 1) \in Nat \ {0} /\ 2^IntWidth = 2 * 2^(IntWidth - 1)

\* LIMIT and OFFSET.
Page(s, limit, off) ==
    {s[i] : i \in {j \in 1 .. Len(s) : off < j /\ j <= off + limit}}

-----------------------------------------------------------------------------
(* The administrator's requests.                                           *)

Start ==
    /\ walk.pc = "idle"
    /\ \E q \in Queries[kind], l \in Limits, o \in Offsets :
         walk' = [pc |-> "list", q |-> q, limit |-> l, off |-> o, seen |-> {},
                  kept |-> IF o = 0 THEN Selected(table, q) ELSE {},
                  left |-> 0, tied |-> FALSE]
    /\ UNCHANGED <<kind, table>>

\* The page; an OFFSET below zero is an error, and the walk is over.
ListPage ==
    /\ walk.pc = "list"
    /\ LET S == Selected(table, walk.q)  o == Int32(walk.off)
       IN  \/ /\ o < 0
              /\ walk' = WalkIdle
           \/ /\ o >= 0
              /\ \E s \in Ordered(S) :
                   walk' = [walk EXCEPT
                     !.pc = "count", !.off = @ + walk.limit,
                     !.seen = @ \cup Page(s, walk.limit, o),
                     !.tied = @ \/ \E i, j \in S :
                                      i # j /\ table[i].at = table[j].at]
    /\ UNCHANGED <<kind, table>>

\* Mutant: the total is that of the page.
CountRowsOfPage ==
    /\ walk.pc = "count"
    /\ walk' = [walk EXCEPT !.pc = IF walk.off < Cardinality(walk.seen)
                                   THEN "list" ELSE "done"]
    /\ UNCHANGED <<kind, table>>

\* The count, and the answer: there is another page before the total.
CountRows ==
    /\ walk.pc = "count"
    /\ walk' = [walk EXCEPT !.pc =
                  IF walk.off < Cardinality(Selected(table, walk.q))
                  THEN "list" ELSE "done"]
    /\ UNCHANGED <<kind, table>>

\* A statement fails.
ListFails ==
    /\ walk.pc \in {"list", "count"}
    /\ walk' = WalkIdle
    /\ UNCHANGED <<kind, table>>

-----------------------------------------------------------------------------
(* Everybody else.                                                         *)

\* What a change of the table means for the histories.
Watched(new) ==
    IF walk.pc \notin {"list", "count"} THEN walk
    ELSE LET before == Selected(table, walk.q)
             after  == Selected(new, walk.q)
         IN  [walk EXCEPT !.kept = @ \cap after,
                          !.left = @ + Cardinality(before \ after)]

Changes(new) ==
    /\ table' = new
    /\ walk' = Watched(new)
    /\ walk.pc \in {"list", "count"} => walk'.left <= MaxLeft
    /\ UNCHANGED kind

\* An INSERT, now or at the very time of the latest one.
InsertRow ==
    \E i \in RowIds :
        /\ table[i] = Absent /\ \A j \in 1 .. (i - 1) : table[j] # Absent
        /\ \E r \in TableRows[kind] :
             /\ r.at = i \/ \E j \in RowsOf(table) : /\ r.at = table[j].at
                                                    /\ \A k \in RowsOf(table) :
                                                          table[k].at <= r.at
             /\ Changes([table EXCEPT ![i] = r])

\* A client is deactivated, a user activated or deactivated, a code or a token
\* revoked.
ChangeStatus ==
    \E i \in RowsOf(table) :
        /\ kind = "clients" => table[i].flag
        /\ kind \in {"codes", "tokens"} => ~table[i].flag
        /\ Changes([table EXCEPT ![i].flag = ~@])

\* Expired codes and tokens are deleted.
DeleteRow ==
    /\ kind \in {"codes", "tokens"}
    /\ \E i \in RowsOf(table) : Changes([table EXCEPT ![i] = Gone])

ListNext ==
    \/ Start \/ ListPage \/ CountRows \/ ListFails
    \/ InsertRow \/ ChangeStatus \/ DeleteRow

ListSpec == ListInit /\ [][ListNext]_listVars

-----------------------------------------------------------------------------
(* Properties.                                                             *)

\* Whoever reads a listing to its end misses at most as many of the rows that
\* were on it all along as rows left it meanwhile, unless rows share a creation
\* time: rows that are inserted, or come back, never hide another one.
MissesOnlyWhatLeft ==
    walk.pc = "done" /\ ~walk.tied =>
        Cardinality(walk.kept \ walk.seen) <= walk.left

\* An id that is absent from a request does not widen the listing, as the comment on
\* ListAuthorizationCodesParams has it, but empties it: the zero UUID is compared.  A
\* session is on the listing only of requests that name both its client and its
\* user, so that the token of a direct login, which has no client, is on none;
\* every other row is on the listing of some request.
ListedByName ==
    /\ kind \in {"codes", "tokens"} =>
          \A q \in Queries[kind] :
              Selected(table, q) # {} => q.client # Absent /\ q.user # Absent
    /\ \A i \in RowsOf(table) :
          (\E q \in Queries[kind] : i \in Selected(table, q))
          <=> ~(kind = "tokens" /\ table[i].client = Absent)
=============================================================================
