-------------------------- MODULE TransactionHistory --------------------------
(***************************************************************************)
(* A client that reads the pages of its transaction history while          *)
(* transfers and deposits add rows to it.  A page is two statements: the   *)
(* rows, ORDER BY created_at DESC with a limit and an offset, and then     *)
(* their number, from which the handler computes how many pages there are. *)
(* A row's created_at is read from the clock before its transaction        *)
(* commits, so rows become visible out of the order of created_at, and     *)
(* rows with the same created_at come in an order of the query's own.      *)
(* A page whose first statement fails is answered 500: nothing changes.    *)
(***************************************************************************)
EXTENDS Integers, FiniteSets

CONSTANTS
  Rows,        \* rows that the wallet's table may come to hold
  CreatedAt,   \* row -> its created_at
  Limits,      \* values of the parameter "limit" that a client may send
  Pages,       \* values of the parameter "page" of a client that jumps
  Default,     \* page size when there is no valid one, 10 in the code
  Largest,     \* largest page size, 100 in the code
  MaxInt       \* largest int, 2^63 - 1 in the code

ASSUME HistoryAssumption ==
  /\ IsFiniteSet(Rows) /\ CreatedAt \in [Rows -> Nat]
  /\ Limits \subseteq Int /\ Pages \subseteq Int
  /\ Default \in Nat \ {0} /\ Largest \in Nat \ {0}
  /\ MaxInt \in Nat /\ Largest * (Cardinality(Rows) + 1) <= MaxInt

VARIABLES
  rows,    \* the wallet's committed rows
  client,  \* the state of the client
  seen,    \* history: row -> the pages on which the client has received it
  first,   \* history: rows that were there when it asked for the first page
  misled   \* history: a page's total came from a query that failed

vars == <<rows, client, seen, first, misled>>

(* A client goes on until the last page of "meta" ("total"), or until a    *)
(* page is not full ("short").                                             *)
Client(pc, style, page, limit, full) ==
  [pc |-> pc, style |-> style, page |-> page, limit |-> limit, full |-> full]

Init ==
  /\ rows \in SUBSET Rows
  /\ client = Client("idle", "total", 0, 0, FALSE)
  /\ seen = [s \in Rows |-> {}]
  /\ first = {}
  /\ misled = FALSE

-----------------------------------------------------------------------------
(* GetPaginationDetails.                                                   *)

(* Mutant: the default is not limited.                                     *)
LimitUnchecked(asked) == IF asked # 0 THEN asked ELSE Default

Limit(asked) ==
  LET valid == IF asked > 0 THEN asked ELSE Default IN
  IF valid > Largest THEN Largest ELSE valid

Page(asked) == IF asked > 0 THEN asked ELSE 1

(* An int wraps around: it goes from -MaxInt - 1 to MaxInt.                 *)
Wrapped(n) == ((n + MaxInt + 1) % (2 * (MaxInt + 1))) - (MaxInt + 1)

(* Mutant: the offset counts pages of the default size.                    *)
OffsetOfDefault(page, limit) == Wrapped((page - 1) * Default)

Offset(page, limit) == Wrapped((page - 1) * limit)

(* Mutant: an integer division, without Ceil.                              *)
TotalPagesFloor(count, limit) == count \div limit

(* int(math.Ceil(float64(count) / float64(limit)))                         *)
TotalPages(count, limit) == (count + limit - 1) \div limit

-----------------------------------------------------------------------------
AtTime(c) == {s \in rows : CreatedAt[s] = c}
Newer(c) == {s \in rows : CreatedAt[s] > c}

Least(a, b) == IF a < b THEN a ELSE b
Positive(a) == IF a > 0 THEN a ELSE 0

(* How many of the ranks from .. from + n - 1 are in a window.             *)
Overlap(from, n, skip, limit) ==
  Positive(Least(from + n, skip + limit) - (IF from < skip THEN skip ELSE from))

(* The answers of the query.  A negative OFFSET is left out of it by gorm. *)
PagesOf(limit, offset) ==
  {S \in SUBSET rows : \A c \in {CreatedAt[s] : s \in rows} :
     Cardinality(S \cap AtTime(c)) =
       Overlap(Cardinality(Newer(c)), Cardinality(AtTime(c)),
               Positive(offset), limit)}

StartWalk(style, asked) ==
  /\ client.pc = "idle"
  /\ client' = Client("list", style, 1, Limit(asked), FALSE)
  /\ first' = rows
  /\ UNCHANGED <<rows, seen, misled>>

(* A client asks for a page of its choice.                                 *)
JumpTo(asked) ==
  /\ client.pc = "done"
  /\ client' = Client("list", "jump", Page(asked), client.limit, FALSE)
  /\ UNCHANGED <<rows, seen, first, misled>>

GetTransactions ==
  /\ client.pc = "list"
  /\ \E S \in PagesOf(client.limit, Offset(client.page, client.limit)) :
       /\ seen' = [s \in Rows |->
                     IF s \in S THEN seen[s] \cup {client.page} ELSE seen[s]]
       /\ client' = Client("count", client.style, client.page, client.limit,
                           Cardinality(S) = client.limit)
  /\ UNCHANGED <<rows, first, misled>>

GoesOn(total) ==
  \/ client.style = "total" /\ client.page < total
  \/ client.style = "short" /\ client.full

(* The error of the count is dropped: then it is 0.                        *)
CountTransactions ==
  /\ client.pc = "count"
  /\ \E count \in {Cardinality(rows), 0} :
       /\ client' = IF GoesOn(TotalPages(count, client.limit))
            THEN Client("list", client.style, client.page + 1, client.limit, FALSE)
            ELSE Client("done", client.style, client.page, client.limit, FALSE)
       /\ misled' = (misled \/ count # Cardinality(rows))
  /\ UNCHANGED <<rows, seen, first>>

(* A transfer or a deposit commits a row.                                  *)
RowAppears(s) ==
  /\ s \notin rows
  /\ rows' = rows \cup {s}
  /\ UNCHANGED <<client, seen, first, misled>>

Next ==
  \/ \E style \in {"total", "short"}, asked \in Limits : StartWalk(style, asked)
  \/ \E asked \in Pages : JumpTo(asked)
  \/ GetTransactions
  \/ CountTransactions
  \/ \E s \in Rows : RowAppears(s)

Spec == Init /\ [][Next]_vars

-----------------------------------------------------------------------------
(* Properties.                                                             *)

(* Type invariant of the client: a page has at least one row and at most   *)
(* Largest, whatever the client sends.                                     *)
TypeOK ==
  /\ rows \subseteq Rows
  /\ client \in [pc : {"idle", "list", "count", "done"},
                 style : {"total", "short", "jump"}, page : Nat,
                 limit : 0 .. Largest, full : BOOLEAN]
  /\ client.pc # "idle" => client.limit >= 1
  /\ seen \in [Rows -> SUBSET (Nat \ {0})]
  /\ \A s \in Rows : seen[s] # {} => s \in rows
  /\ first \subseteq rows
  /\ misled \in BOOLEAN

Untied(s) == \A t \in rows : CreatedAt[t] = CreatedAt[s] => t = s

(* A client that goes on to the end has seen every transaction that was    *)
(* there when it began, although rows appear between its requests and      *)
(* between the two statements of a page, also behind those it has seen.    *)
(* What it needs for that: the count did not fail, or the client does not  *)
(* rely on total_pages; and no other row has the same created_at.          *)
WalkSeesAll ==
  client.pc = "done" /\ client.style # "jump" =>
    \A s \in first :
      Untied(s) /\ (client.style = "total" => ~misled) => seen[s] # {}

FitsInt(page) == (page - 1) * client.limit <= MaxInt

(* The client finds a transaction on two different pages only when a newer *)
(* one has pushed it down since the walk began, or when another has its    *)
(* created_at, or when (page - 1) * limit does not fit an int: then some   *)
(* early page is answered under a far number.                              *)
SecondPageHasReason ==
  \A s \in rows : \A p, q \in seen[s] :
    p < q /\ FitsInt(q) /\ Untied(s) =>
      \E t \in rows \ first : CreatedAt[t] > CreatedAt[s]
=============================================================================
