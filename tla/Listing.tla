------------------------------- MODULE Listing -------------------------------
(***************************************************************************)
(* A client walks through GET /v1/sms or GET /v1/account/ledger, page by   *)
(* page, following next_cursor, while new rows keep arriving               *)
(* (internal/handler, ListByAccount of internal/repository).  The two      *)
(* listings are the same program on two tables.                            *)
(*                                                                         *)
(* Rows are those of the client's account.  They are read on the replica,  *)
(* where they appear when they are replicated: not in the order of         *)
(* created_at, which the inserting process takes from its own clock before *)
(* its transaction commits, and which several rows may share.              *)
(***************************************************************************)
EXTENDS Integers, FiniteSets

CONSTANTS
    Rows,         \* row ids, in the order in which Postgres compares them
    Times,        \* values of created_at
    RawLimits,    \* the limit parameters a client may send
    DefaultLimit, \* page size when the parameter is missing or not positive
    MaxLimit,     \* largest page size
    NoCursor      \* a request without a cursor

ASSUME RowAssumption   == /\ Rows \subseteq Nat
                          /\ IsFiniteSet(Rows)
                          /\ Times \subseteq Nat
                          /\ NoCursor \notin Rows
ASSUME LimitAssumption == /\ RawLimits \subseteq Int
                          /\ MaxLimit \in Nat
                          /\ DefaultLimit \in 1 .. MaxLimit

VARIABLES
    visible,   \* rows the replica has
    createdAt, \* their created_at
    pc,        \* where the walk stands
    limit,     \* page size of the request, as the handler has parsed it
    cursor,    \* cursor of the next request
    atStart,   \* rows that were visible when the walk began
    collected, \* rows the client has been given so far
    repeated   \* those of them it has been given more than once

table == <<visible, createdAt>>
walk  == <<pc, limit, cursor, atStart, collected, repeated>>
vars  == <<table, walk>>

TypeOK ==
    /\ visible \subseteq Rows
    /\ createdAt \in [visible -> Times]
    /\ pc \in {"new", "ask", "anchor", "query", "done", "invalid"}
    /\ limit \in 1 .. MaxLimit
    /\ cursor \in Rows \cup {NoCursor}
    /\ atStart \subseteq Rows
    /\ collected \subseteq Rows
    /\ repeated \subseteq Rows

Init ==
    /\ visible = {}
    /\ createdAt = [r \in {} |-> 0]
    /\ pc = "new"
    /\ limit = DefaultLimit
    /\ cursor = NoCursor
    /\ atStart = {}
    /\ collected = {}
    /\ repeated = {}

-----------------------------------------------------------------------------
\* parseLimit of the handler.
ParseLimit(raw) ==
    IF raw <= 0 THEN DefaultLimit ELSE IF raw > MaxLimit THEN MaxLimit ELSE raw

\* The same in ListByAccount.
RepositoryLimit(l) ==
    IF l <= 0 THEN DefaultLimit ELSE IF l > MaxLimit THEN MaxLimit ELSE l

\* Variant (defect): rows created at the same time are taken for equal.
BeforeByTime(r, s) == createdAt[r] < createdAt[s]

\* Variant (defect): the row of the cursor is listed again.
BeforeOrSame(r, s) ==
    createdAt[r] < createdAt[s] \/ (createdAt[r] = createdAt[s] /\ r <= s)

\* created_at < anchor OR (created_at = anchor AND id < anchor)
Before(r, s) ==
    createdAt[r] < createdAt[s] \/ (createdAt[r] = createdAt[s] /\ r < s)

\* ORDER BY created_at DESC, id DESC: r comes after s in a listing.
Follows(r, s) ==
    createdAt[r] < createdAt[s] \/ (createdAt[r] = createdAt[s] /\ r < s)

\* Rows that are left for the request.
Remaining ==
    IF cursor = NoCursor THEN visible ELSE {r \in visible : Before(r, cursor)}

\* The first `size` of them.
IsPage(page, size) ==
    /\ page \subseteq Remaining
    /\ \A r \in page, s \in Remaining \ page : Follows(s, r)
    /\ Cardinality(page) <= size
    /\ page = Remaining \/ Cardinality(page) = size

LastOf(page) == CHOOSE r \in page : \A s \in page : s = r \/ Follows(r, s)

-----------------------------------------------------------------------------
\* A row is replicated.
Appear(r, t) ==
    /\ r \notin visible
    /\ visible' = visible \cup {r}
    /\ createdAt' = [s \in visible' |-> IF s = r THEN t ELSE createdAt[s]]
    /\ UNCHANGED walk

\* The client asks for a page; the handler parses its limit.
Request(raw) ==
    /\ pc \in {"new", "ask"}
    /\ limit' = ParseLimit(raw)
    /\ pc' = IF cursor = NoCursor THEN "query" ELSE "anchor"
    /\ atStart' = IF pc = "new" THEN visible ELSE atStart
    /\ UNCHANGED <<table, cursor, collected, repeated>>

\* The first statement with a cursor: its row is looked up.
ResolveCursor ==
    /\ pc = "anchor"
    /\ pc' = IF cursor \in visible THEN "query" ELSE "invalid"
    /\ UNCHANGED <<table, limit, cursor, atStart, collected, repeated>>

\* The page; a full one comes with a cursor for the next.
QueryPage ==
    /\ pc = "query"
    /\ \E page \in SUBSET visible :
          /\ IsPage(page, RepositoryLimit(limit))
          /\ collected' = collected \cup page
          /\ repeated' = repeated \cup (collected \cap page)
          /\ IF Cardinality(page) = limit
                THEN pc' = "ask" /\ cursor' = LastOf(page)
                ELSE pc' = "done" /\ UNCHANGED cursor
    /\ UNCHANGED <<table, limit, atStart>>

WalkStep == (\E raw \in RawLimits : Request(raw)) \/ ResolveCursor \/ QueryPage

Finished == pc = "done" /\ visible = Rows /\ UNCHANGED vars

Next == (\E r \in Rows, t \in Times : Appear(r, t)) \/ WalkStep \/ Finished

Spec == Init /\ [][Next]_vars

\* The client goes on as long as it is given a cursor, and is answered.
FairSpec == Spec /\ WF_vars(WalkStep)
-----------------------------------------------------------------------------
(* Properties.                                                             *)

\* No row is given to the client twice, however rows arrive during the walk.
NoDuplicates == repeated = {}

\* A walk that is over has given out every row that was there when it began:
\* neither ties in created_at nor rows that appear meanwhile hide one.
WalkIsComplete == pc = "done" => atStart \subseteq collected

\* A walk comes to its end, and never by a cursor that is refused.
WalkEnds == pc # "new" ~> pc = "done"

\* What the two invariants rest on: the rows given out are the ones from the
\* cursor upwards, of which no row of the beginning is missing.
WalkJustified ==
    /\ cursor # NoCursor => cursor \in collected
    /\ collected \subseteq visible
    /\ atStart \subseteq visible
    /\ pc \in {"new", "ask", "anchor", "query"} =>
          \A r \in collected : cursor # NoCursor /\ ~Before(r, cursor)
    /\ pc \in {"ask", "anchor", "query"} =>
          \A r \in atStart : r \in collected \/ cursor = NoCursor \/ Before(r, cursor)
    /\ pc = "new" => cursor = NoCursor /\ collected = {}
    /\ pc \in {"ask", "anchor"} => cursor # NoCursor
    /\ pc # "invalid"

Safety == NoDuplicates /\ WalkIsComplete /\ WalkJustified
=============================================================================
