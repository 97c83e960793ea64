---------------------------- MODULE HistoryProofs ----------------------------
(***************************************************************************)
(* Proofs about TransactionHistory, for any number of rows, any times of   *)
(* creation and any page size: a walk through the pages sees every         *)
(* transaction that was there when it began, and a transaction comes on    *)
(* two pages only for a reason.  Both rest on a row's rank, the number of  *)
(* rows that are newer: it never falls, and a page has the rows whose rank *)
(* is in its window.                                                       *)
(***************************************************************************)
EXTENDS TransactionHistory, FiniteSetTheorems, WellFoundedInduction, TLAPS

(* A set of natural numbers has a least element.                           *)
Below == OpToRel(<, Nat)

LEMMA BelowIs == \A x, y \in Nat : <<x, y>> \in Below <=> x < y
  BY DEF Below, OpToRel

LEMMA BelowWellFounded == IsWellFoundedOn(Below, Nat)
  BY NatLessThanWellFounded, Zenon DEF Below

LEMMA LeastOf ==
  ASSUME NEW S, S \subseteq Nat, S # {}
  PROVE  \E x \in S : \A y \in S : x <= y
<1>1. PICK x \in S : \A y \in S : ~(<<y, x>> \in Below)
  BY BelowWellFounded, WFMin
<1>2. ASSUME NEW y \in S PROVE x <= y
  BY <1>1, BelowIs, x \in Nat, y \in Nat, ~(y < x)
<1> QED
  BY <1>2
-----------------------------------------------------------------------------
(* Arithmetic.                                                             *)

LEMMA ProductMonotone ==
  ASSUME NEW a \in Int, NEW b \in Int, NEW l \in Nat, a <= b
  PROVE  a * l <= b * l
<1>1. (b - a) * l >= 0
  BY b - a \in Nat
<1>2. (b - a) * l = b * l - a * l
  OBVIOUS
<1> QED
  BY <1>1, <1>2

(* Page p is not the last one exactly when there are rows beyond it.       *)
LEMMA TotalPagesIs ==
  ASSUME NEW count \in Nat, NEW l \in Nat \ {0}, NEW p \in Nat
  PROVE  p < TotalPages(count, l) <=> p * l < count
<1> DEFINE q == TotalPages(count, l)
<1>1. q \in Int /\ q * l <= count + l - 1 /\ count + l - 1 < q * l + l
  BY DEF TotalPages
<1>2. CASE p < q
  <2>1. (p + 1) * l <= q * l
    BY <1>1, <1>2, ProductMonotone
  <2>2. (p + 1) * l = p * l + l
    OBVIOUS
  <2> QED
    BY <1>1, <1>2, <2>1, <2>2
<1>3. CASE q <= p
  <2>1. q * l <= p * l
    BY <1>1, <1>3, ProductMonotone
  <2> QED
    BY <1>1, <1>3, <2>1
<1> QED
  BY <1>1, <1>2, <1>3

LEMMA WrappedFits ==
  ASSUME NEW n \in Nat, n <= MaxInt
  PROVE  Wrapped(n) = n
  BY HistoryAssumption DEF Wrapped

LEMMA LimitIs ==
  ASSUME NEW asked \in Int
  PROVE  Limit(asked) \in 1 .. Largest
  BY HistoryAssumption DEF Limit
-----------------------------------------------------------------------------
(* Types.  A client that has begun asks for pages from 1 on, and has seen  *)
(* nothing before it begins.                                               *)
ClientInv ==
  /\ TypeOK
  /\ client.pc # "idle" => client.page >= 1
  /\ client.pc = "idle" => seen = [s \in Rows |-> {}] /\ ~misled

LEMMA ClientInit == Init => ClientInv
<1> SUFFICES ASSUME Init PROVE ClientInv
  OBVIOUS
<1>1. client \in [pc : {"idle", "list", "count", "done"},
                  style : {"total", "short", "jump"}, page : Nat,
                  limit : 0 .. Largest, full : BOOLEAN] /\ client.pc = "idle"
  BY HistoryAssumption DEF Init, Client
<1>2. /\ seen = [s \in Rows |-> {}]
      /\ seen \in [Rows -> SUBSET (Nat \ {0})]
      /\ \A s \in Rows : seen[s] = {}
  BY DEF Init
<1>3. first \subseteq rows /\ rows \subseteq Rows /\ misled = FALSE
  BY DEF Init
<1> QED
  BY <1>1, <1>2, <1>3 DEF ClientInv, TypeOK

LEMMA ClientStep == ClientInv /\ [Next]_vars => ClientInv'
<1> SUFFICES ASSUME ClientInv, [Next]_vars PROVE ClientInv'
  OBVIOUS
<1> USE DEF ClientInv, TypeOK, Client
<1>1. ASSUME NEW style \in {"total", "short"}, NEW asked \in Limits, StartWalk(style, asked)
      PROVE  ClientInv'
  <2>1. Limit(asked) \in 0 .. Largest /\ Limit(asked) >= 1
    BY LimitIs, HistoryAssumption
  <2> QED
    BY <1>1, <2>1 DEF StartWalk
<1>2. ASSUME NEW asked \in Pages, JumpTo(asked) PROVE ClientInv'
  <2>1. Page(asked) \in Nat \ {0}
    BY HistoryAssumption DEF Page
  <2> QED
    BY <1>2, <2>1 DEF JumpTo
<1>3. CASE GetTransactions
  <2>1. PICK S \in PagesOf(client.limit, Offset(client.page, client.limit)) :
          /\ seen' = [s \in Rows |->
                        IF s \in S THEN seen[s] \cup {client.page} ELSE seen[s]]
          /\ client' = Client("count", client.style, client.page, client.limit,
                              Cardinality(S) = client.limit)
    BY <1>3 DEF GetTransactions
  <2>2. S \subseteq rows /\ client.page \in Nat \ {0}
    BY <1>3 DEF GetTransactions, PagesOf
  <2> QED
    BY <1>3, <2>1, <2>2 DEF GetTransactions
<1>4. CASE CountTransactions
  BY <1>4 DEF CountTransactions
<1>5. ASSUME NEW s \in Rows, RowAppears(s) PROVE ClientInv'
  BY <1>5 DEF RowAppears
<1>6. CASE UNCHANGED vars
  BY <1>6 DEF vars
<1> QED
  BY <1>1, <1>2, <1>3, <1>4, <1>5, <1>6 DEF Next

LEMMA ClientAlways == Spec => []ClientInv
  BY ClientInit, ClientStep, PTL DEF Spec

(* Whatever limit and page a client sends, a page has at least one row and *)
(* at most Largest, and only committed rows have been seen.                *)
THEOREM HistoryTypeCorrect == Spec => []TypeOK
<1>1. ClientInv => TypeOK
  BY DEF ClientInv
<1> QED
  BY <1>1, ClientAlways, PTL
-----------------------------------------------------------------------------
(* Ranks.                                                                  *)

Rank(s) == Cardinality(Newer(CreatedAt[s]))

LEMMA RowsFinite ==
  ASSUME TypeOK
  PROVE  /\ IsFiniteSet(rows)
         /\ Cardinality(rows) \in Nat
         /\ Cardinality(rows) <= Cardinality(Rows)
  BY HistoryAssumption, FS_Subset, FS_CardinalityType DEF TypeOK

LEMMA RowsCounted ==
  ASSUME TypeOK, NEW S, S \subseteq rows
  PROVE  /\ IsFiniteSet(S)
         /\ Cardinality(S) \in Nat
         /\ Cardinality(S) <= Cardinality(rows)
  BY RowsFinite, FS_Subset, FS_CardinalityType

(* A row is not newer than itself.                                         *)
LEMMA RankIs ==
  ASSUME TypeOK, NEW s \in rows
  PROVE  Rank(s) \in Nat /\ Rank(s) < Cardinality(rows)
<1>1. Newer(CreatedAt[s]) \subseteq rows /\ s \notin Newer(CreatedAt[s])
  BY HistoryAssumption DEF Newer, TypeOK
<1>2. Cardinality(Newer(CreatedAt[s])) # Cardinality(rows)
  BY <1>1, RowsFinite, FS_Subset
<1> QED
  BY <1>1, <1>2, RowsCounted, RowsFinite DEF Rank

(* A row that appears raises the rank of the older ones.                   *)
LEMMA RankRises ==
  ASSUME TypeOK, TypeOK', NEW s \in rows, rows \subseteq rows'
  PROVE  Rank(s)' >= Rank(s)
<1>1. Newer(CreatedAt[s]) \subseteq Newer(CreatedAt[s])'
  BY DEF Newer
<1>2. IsFiniteSet(Newer(CreatedAt[s])')
  <2>1. IsFiniteSet(rows')
    BY HistoryAssumption, FS_Subset DEF TypeOK
  <2> QED
    BY <2>1, FS_Subset DEF Newer
<1> QED
  BY <1>1, <1>2, FS_Subset DEF Rank

(* A row alone in its time is on the page whose window has its rank.       *)
LEMMA OnItsPage ==
  ASSUME TypeOK, NEW s \in rows, Untied(s),
         NEW limit \in Nat \ {0}, NEW offset \in Nat, NEW S \in PagesOf(limit, offset)
  PROVE  s \in S <=> offset <= Rank(s) /\ Rank(s) < offset + limit
<1>1. AtTime(CreatedAt[s]) = {s}
  BY DEF AtTime, Untied
<1>2. Cardinality(AtTime(CreatedAt[s])) = 1
  BY <1>1, FS_Singleton
<1>3. Cardinality(S \cap AtTime(CreatedAt[s])) = Overlap(Rank(s), 1, offset, limit)
  BY <1>2 DEF PagesOf, Rank, Positive
<1>4. S \cap AtTime(CreatedAt[s]) = IF s \in S THEN {s} ELSE {}
  BY <1>1
<1>5. Cardinality(S \cap AtTime(CreatedAt[s])) = IF s \in S THEN 1 ELSE 0
  BY <1>4, FS_Singleton, FS_EmptySet
<1>6. Rank(s) \in Nat
  BY RankIs
<1> QED
  BY <1>3, <1>5, <1>6 DEF Overlap, Positive, Least

(* The oldest of the rows that are newer than c.                           *)
LEMMA OldestNewer ==
  ASSUME TypeOK, NEW c \in Int, Newer(c) # {}
  PROVE  \E d \in {CreatedAt[s] : s \in rows} :
           d \in Nat /\ d > c /\ AtTime(d) # {} /\ Newer(c) = Newer(d) \cup AtTime(d)
<1> DEFINE Times == {CreatedAt[s] : s \in Newer(c)}
<1>1. Times \subseteq Nat /\ Times # {}
  BY HistoryAssumption DEF Newer, TypeOK
<1>2. PICK d \in Times : \A e \in Times : d <= e
  BY <1>1, LeastOf
<1>3. PICK s \in rows : d = CreatedAt[s] /\ d > c
  BY <1>2 DEF Newer
<1>4. d \in Nat
  BY <1>1
<1>5. \A t \in rows : CreatedAt[t] \in Nat
  BY HistoryAssumption DEF TypeOK
<1>6. \A t \in rows : CreatedAt[t] > c <=> CreatedAt[t] >= d
  BY <1>2, <1>3, <1>4, <1>5 DEF Newer
<1>7. Newer(c) = Newer(d) \cup AtTime(d)
  BY <1>4, <1>5, <1>6 DEF Newer, AtTime
<1> QED
  BY <1>3, <1>4, <1>7 DEF AtTime

(* Windows of adjacent ranks add up.                                       *)
LEMMA OverlapAdds ==
  ASSUME NEW a \in Nat, NEW n \in Nat, NEW skip \in Nat, NEW limit \in Nat
  PROVE  Overlap(0, a, skip, limit) + Overlap(a, n, skip, limit)
           = Overlap(0, a + n, skip, limit)
  BY DEF Overlap, Positive, Least

(* A page has as many rows as its window has ranks.                        *)
LEMMA PageSize ==
  ASSUME TypeOK, NEW limit \in Nat \ {0}, NEW offset \in Nat,
         NEW S \in PagesOf(limit, offset)
  PROVE  Cardinality(S) = Overlap(0, Cardinality(rows), offset, limit)
<1> DEFINE Sized(c) == Cardinality(S \cap Newer(c))
                         = Overlap(0, Cardinality(Newer(c)), offset, limit)
           Bad == {c \in Int : ~Sized(c)}
           Ranks == {Cardinality(Newer(c)) : c \in Bad}
<1>a. \A c \in Int : Newer(c) \subseteq rows
  BY DEF Newer
<1>b. \A c \in Int : AtTime(c) \subseteq rows
  BY DEF AtTime
<1>1. Bad = {}
  <2> SUFFICES ASSUME Bad # {} PROVE FALSE
    OBVIOUS
  <2>1. Ranks # {} /\ Ranks \subseteq Nat
    BY <1>a, RowsCounted
  <2>2. PICK n \in Ranks : \A m \in Ranks : n <= m
    BY <2>1, LeastOf
  <2>3. PICK c \in Bad : n = Cardinality(Newer(c))
    BY <2>2
  <2>4. CASE Newer(c) = {}
    <3>1. Cardinality(Newer(c)) = 0 /\ Cardinality(S \cap Newer(c)) = 0
      BY <2>4, FS_EmptySet
    <3>2. Sized(c)
      BY <3>1 DEF Overlap, Positive, Least
    <3> QED
      BY <3>2
  <2>5. CASE Newer(c) # {}
    <3>1. PICK d \in {CreatedAt[s] : s \in rows} :
            d \in Nat /\ d > c /\ AtTime(d) # {} /\ Newer(c) = Newer(d) \cup AtTime(d)
      BY <2>5, OldestNewer
    <3>2. /\ IsFiniteSet(Newer(d)) /\ Cardinality(Newer(d)) \in Nat
          /\ IsFiniteSet(AtTime(d)) /\ Cardinality(AtTime(d)) \in Nat
      BY <1>a, <1>b, <3>1, RowsCounted
    <3>3. Newer(d) \cap AtTime(d) = {}
      BY <3>1, HistoryAssumption DEF Newer, AtTime, TypeOK
    <3>4. Cardinality(Newer(c)) = Cardinality(Newer(d)) + Cardinality(AtTime(d))
      BY <3>1, <3>2, <3>3, FS_Union, FS_EmptySet
    <3>5. Cardinality(AtTime(d)) > 0
      BY <3>1, <3>2, FS_EmptySet
    <3>6. Sized(d)
      <4>1. Cardinality(Newer(d)) < n
        BY <2>3, <3>2, <3>4, <3>5
      <4>2. \A m \in Ranks : ~(m < n)
        <5> HIDE DEF Ranks
        <5> QED
          BY <2>1, <2>2
      <4>3. d \in Int
        BY <3>1
      <4> QED
        BY <4>1, <4>2, <4>3
    <3>7. Cardinality(S \cap AtTime(d))
            = Overlap(Cardinality(Newer(d)), Cardinality(AtTime(d)), offset, limit)
      BY <3>1 DEF PagesOf, Positive
    <3>8. Cardinality(S \cap Newer(c))
            = Cardinality(S \cap Newer(d)) + Cardinality(S \cap AtTime(d))
      <4>1. S \cap Newer(c) = (S \cap Newer(d)) \cup (S \cap AtTime(d))
        BY <3>1
      <4>2. (S \cap Newer(d)) \cap (S \cap AtTime(d)) = {}
        BY <3>3
      <4>3. IsFiniteSet(S \cap Newer(d)) /\ IsFiniteSet(S \cap AtTime(d))
        BY <3>2, FS_Intersection
      <4>4. /\ Cardinality(S \cap Newer(d)) \in Nat
            /\ Cardinality(S \cap AtTime(d)) \in Nat
        BY <4>3, FS_CardinalityType
      <4> QED
        BY <4>1, <4>2, <4>3, <4>4, FS_Union, FS_EmptySet
    <3>9. Sized(c)
      BY <3>2, <3>4, <3>6, <3>7, <3>8, OverlapAdds
    <3> QED
      BY <3>9
  <2> QED
    BY <2>4, <2>5
<1>2. Newer(-1) = rows
  BY HistoryAssumption DEF Newer, TypeOK
<1>3. Sized(-1)
  BY <1>1
<1>4. S \cap rows = S
  BY DEF PagesOf
<1> QED
  BY <1>2, <1>3, <1>4
-----------------------------------------------------------------------------
(* The walk through the pages.  A row that was there when it began and is  *)
(* alone in its time has been seen, or its rank is beyond the pages read   *)
(* so far: ranks do not fall, so it cannot slip through between two pages. *)
Turned == (IF client.pc = "list" THEN client.page - 1 ELSE client.page) * client.limit

Walking == client.pc \in {"list", "count"} /\ client.style # "jump"

Ahead == \A s \in first : Untied(s) => seen[s] # {} \/ Rank(s) >= Turned

AllSeen == \A s \in first : Untied(s) => seen[s] # {}

WalkInv ==
  /\ ClientInv
  /\ WalkSeesAll
  /\ Walking => (client.page - 1) * client.limit <= Cardinality(Rows) /\ Ahead
  /\ client.pc = "count" /\ client.style = "short" =>
       IF client.full THEN client.page * client.limit <= Cardinality(Rows) ELSE AllSeen

LEMMA OffsetIs ==
  ASSUME NEW page \in Nat \ {0}, NEW limit \in Nat, (page - 1) * limit <= MaxInt
  PROVE  Offset(page, limit) = (page - 1) * limit /\ (page - 1) * limit \in Nat
<1>1. (page - 1) * limit \in Nat
  BY page - 1 \in Nat
<1> QED
  BY <1>1, WrappedFits DEF Offset

(* The offsets of a walk fit an int.                                       *)
LEMMA RowsFit == Cardinality(Rows) \in Nat /\ Cardinality(Rows) <= MaxInt
<1>1. Cardinality(Rows) \in Nat
  BY HistoryAssumption, FS_CardinalityType
<1>2. 1 * (Cardinality(Rows) + 1) <= Largest * (Cardinality(Rows) + 1)
  BY <1>1, HistoryAssumption, ProductMonotone
<1> QED
  BY <1>1, <1>2, HistoryAssumption

LEMMA WalkStart ==
  ASSUME WalkInv, NEW style \in {"total", "short"}, NEW asked \in Limits,
         StartWalk(style, asked), ClientInv'
  PROVE  WalkInv'
<1>1. /\ client'.pc = "list" /\ client'.style = style /\ client'.page = 1
      /\ client'.limit = Limit(asked) /\ Limit(asked) \in Nat
      /\ rows' = rows /\ first' = rows /\ rows \subseteq Rows
  BY LimitIs, HistoryAssumption DEF StartWalk, Client, WalkInv, ClientInv, TypeOK
<1>2. Turned' = 0 /\ (client'.page - 1) * client'.limit = 0
  BY <1>1 DEF Turned
<1>3. \A s \in rows : Rank(s)' >= 0
  BY <1>1, RankIs DEF WalkInv, ClientInv, Rank, Newer
<1> QED
  BY <1>1, <1>2, <1>3, RowsFit DEF WalkInv, WalkSeesAll, Ahead

LEMMA WalkJump ==
  ASSUME WalkInv, NEW asked \in Pages, JumpTo(asked), ClientInv'
  PROVE  WalkInv'
<1>1. client'.pc = "list" /\ client'.style = "jump"
  BY DEF JumpTo, Client
<1> QED
  BY <1>1 DEF WalkInv, WalkSeesAll, Walking

(* A page of the walk shows the rows of its window; when it is not full,   *)
(* the window was the last one.                                            *)
LEMMA WalkPage ==
  ASSUME WalkInv, GetTransactions, ClientInv'
  PROVE  WalkInv'
<1> DEFINE limit == client.limit
           offset == (client.page - 1) * limit
<1>1. PICK S \in PagesOf(client.limit, Offset(client.page, client.limit)) :
        /\ seen' = [s \in Rows |->
                      IF s \in S THEN seen[s] \cup {client.page} ELSE seen[s]]
        /\ client' = Client("count", client.style, client.page, client.limit,
                            Cardinality(S) = client.limit)
  BY DEF GetTransactions
<1>2. /\ client.pc = "list" /\ UNCHANGED <<rows, first, misled>>
      /\ client.page \in Nat \ {0} /\ limit \in Nat \ {0}
      /\ TypeOK /\ first \subseteq rows /\ rows \subseteq Rows
  BY DEF GetTransactions, WalkInv, ClientInv, TypeOK
<1>3. /\ client'.pc = "count" /\ client'.style = client.style
      /\ client'.page = client.page /\ client'.limit = limit
      /\ client'.full = (Cardinality(S) = limit)
  BY <1>1 DEF Client
<1>4. WalkSeesAll'
  BY <1>3 DEF WalkSeesAll
<1>5. CASE client.style = "jump"
  BY <1>3, <1>4, <1>5 DEF WalkInv, Walking
<1>6. CASE client.style # "jump"
  <2>1. offset <= Cardinality(Rows) /\ Ahead
    BY <1>2, <1>6 DEF WalkInv, Walking
  <2>2. Offset(client.page, limit) = offset /\ offset \in Nat
    <3>1. offset \in Int /\ offset <= MaxInt
      BY <1>2, <2>1, RowsFit, HistoryAssumption
    <3> QED
      BY <1>2, <3>1, OffsetIs
  <2>3. S \in PagesOf(limit, offset)
    BY <1>1, <2>2
  <2>4. Turned = offset /\ Turned' = offset + limit /\ client.page * limit = offset + limit
    BY <1>2, <1>3 DEF Turned
  <2>5. \A s \in first : Untied(s)' = Untied(s) /\ Rank(s)' = Rank(s)
    BY <1>2 DEF Untied, Rank, Newer
  <2>6. ASSUME NEW s \in first, Untied(s), seen'[s] = {}
        PROVE  Rank(s) \in Nat /\ Rank(s) >= offset + limit
    <3>1. s \notin S /\ seen[s] = {}
      BY <1>1, <1>2, <2>6
    <3>2. Rank(s) \in Nat /\ Rank(s) >= offset
      BY <1>2, <2>1, <2>4, <2>6, <3>1, RankIs DEF Ahead
    <3> QED
      BY <1>2, <2>2, <2>3, <2>6, <3>1, <3>2, OnItsPage
  <2>7. Ahead'
    BY <2>4, <2>5, <2>6, <1>2 DEF Ahead
  <2>8. Cardinality(S) = Overlap(0, Cardinality(rows), offset, limit)
    BY <1>2, <2>2, <2>3, PageSize
  <2>9. Cardinality(rows) \in Nat /\ Cardinality(rows) <= Cardinality(Rows)
    BY <1>2, RowsFinite
  <2>10. ASSUME Cardinality(S) = limit PROVE offset + limit <= Cardinality(Rows)
    BY <1>2, <2>2, <2>8, <2>9, <2>10, RowsFit DEF Overlap, Positive, Least
  <2>11. ASSUME Cardinality(S) # limit PROVE AllSeen'
    <3>1. Cardinality(rows) < offset + limit
      BY <1>2, <2>2, <2>8, <2>9, <2>11 DEF Overlap, Positive, Least
    <3>2. \A s \in first : Rank(s) \in Nat /\ Rank(s) < Cardinality(rows)
      BY <1>2, RankIs
    <3>3. ASSUME NEW s \in first, Untied(s), seen'[s] = {} PROVE FALSE
      BY <2>2, <2>6, <2>9, <3>1, <3>2, <3>3, <1>2
    <3> QED
      BY <1>2, <2>5, <3>3 DEF AllSeen
  <2>12. IF client'.full THEN client'.page * client'.limit <= Cardinality(Rows)
                         ELSE AllSeen'
    <3>1. CASE Cardinality(S) = limit
      BY <1>3, <2>4, <2>10, <3>1
    <3>2. CASE Cardinality(S) # limit
      BY <1>3, <2>11, <3>2
    <3> QED
      BY <3>1, <3>2
  <2>13. (client'.page - 1) * client'.limit <= Cardinality(Rows)
    BY <1>3, <2>1
  <2>14. Ahead' /\ (client'.page - 1) * client'.limit <= Cardinality(Rows)'
    BY <2>7, <2>13
  <2> QED
    BY <1>4, <2>12, <2>14 DEF WalkInv
<1> QED
  BY <1>5, <1>6

(* The walk goes on to the next page, or its end has been seen.            *)
LEMMA WalkCount ==
  ASSUME WalkInv, CountTransactions, ClientInv'
  PROVE  WalkInv'
<1> DEFINE limit == client.limit
           page == client.page
<1>1. PICK count \in {Cardinality(rows), 0} :
        /\ client' = IF GoesOn(TotalPages(count, limit))
             THEN Client("list", client.style, page + 1, limit, FALSE)
             ELSE Client("done", client.style, page, limit, FALSE)
        /\ misled' = (misled \/ count # Cardinality(rows))
  BY DEF CountTransactions
<1>2. /\ client.pc = "count" /\ UNCHANGED <<rows, seen, first>>
      /\ page \in Nat \ {0} /\ limit \in Nat \ {0}
      /\ TypeOK /\ first \subseteq rows /\ rows \subseteq Rows
  BY DEF CountTransactions, WalkInv, ClientInv, TypeOK
<1>3. /\ Cardinality(rows) \in Nat /\ Cardinality(rows) <= Cardinality(Rows)
      /\ Cardinality(Rows) \in Nat /\ count \in Nat /\ count <= Cardinality(rows)
  BY <1>2, RowsFinite, RowsFit
<1>4. \A s \in first : /\ Untied(s)' = Untied(s) /\ Rank(s)' = Rank(s)
                       /\ Rank(s) \in Nat /\ Rank(s) < Cardinality(rows)
  BY <1>2, RankIs DEF Untied, Rank, Newer
<1>5. page < TotalPages(count, limit) <=> page * limit < count
  BY <1>2, <1>3, TotalPagesIs
<1>6. CASE client.style = "jump"
  <2>1. client'.style = "jump"
    BY <1>1, <1>6 DEF Client
  <2> QED
    BY <1>2, <2>1, <1>1 DEF WalkInv, Walking, WalkSeesAll, Client
<1>7. CASE client.style # "jump" /\ GoesOn(TotalPages(count, limit))
  <2>1. /\ client'.pc = "list" /\ client'.style = client.style
        /\ client'.page = page + 1 /\ client'.limit = limit
    BY <1>1, <1>7 DEF Client
  <2>2. page * limit <= Cardinality(Rows)
    BY <1>2, <1>3, <1>5, <1>7 DEF GoesOn, WalkInv
  <2>3. Turned' = page * limit /\ Turned = page * limit
    BY <1>2, <2>1 DEF Turned
  <2>4. Ahead'
    BY <1>2, <1>4, <1>7, <2>3 DEF Ahead, WalkInv, Walking
  <2>5. (client'.page - 1) * client'.limit <= Cardinality(Rows)
    BY <1>2, <2>1, <2>2
  <2> QED
    BY <2>1, <2>4, <2>5 DEF WalkInv, WalkSeesAll
<1>8. CASE client.style # "jump" /\ ~GoesOn(TotalPages(count, limit))
  <2>1. client'.pc = "done" /\ client'.style = client.style
    BY <1>1, <1>8 DEF Client
  <2>2. Ahead /\ Turned = page * limit
    BY <1>2, <1>8 DEF WalkInv, Walking, Turned
  <2>3. ASSUME client.style = "total", ~misled' PROVE AllSeen
    <3>1. count = Cardinality(rows)
      BY <1>1, <2>3
    <3>2. page * limit >= Cardinality(rows)
      BY <1>2, <1>3, <1>5, <1>8, <2>3, <3>1 DEF GoesOn
    <3> QED
      BY <1>2, <1>3, <1>4, <2>2, <3>2 DEF Ahead, AllSeen
  <2>4. ASSUME client.style = "short" PROVE AllSeen
    BY <1>2, <1>8, <2>4 DEF GoesOn, WalkInv
  <2>5. client.style \in {"total", "short"}
    BY <1>2, <1>8 DEF TypeOK
  <2>6. WalkSeesAll'
    BY <1>2, <1>4, <2>1, <2>3, <2>4, <2>5 DEF WalkSeesAll, AllSeen
  <2> QED
    BY <2>1, <2>6 DEF WalkInv, Walking
<1> QED
  BY <1>6, <1>7, <1>8

(* A row that appears, in front of the page or behind it, disturbs nothing.*)
LEMMA WalkRow ==
  ASSUME WalkInv, NEW r \in Rows, RowAppears(r), ClientInv'
  PROVE  WalkInv'
<1>1. /\ rows \subseteq rows' /\ UNCHANGED <<client, seen, first, misled>>
      /\ TypeOK /\ TypeOK' /\ first \subseteq rows
  BY DEF RowAppears, WalkInv, ClientInv, TypeOK
<1>2. \A s \in first : Untied(s)' => Untied(s)
  BY <1>1 DEF Untied
<1>3. \A s \in first : Rank(s) \in Nat /\ Rank(s)' \in Nat /\ Rank(s)' >= Rank(s)
  <2>1. \A s \in first : s \in rows' /\ Rank(s) \in Nat /\ Rank(s)' >= Rank(s)
    BY <1>1, RankIs, RankRises
  <2>2. \A s \in first : Newer(CreatedAt[s])' \subseteq rows' /\ IsFiniteSet(rows')
    BY <1>1, HistoryAssumption, FS_Subset DEF Newer, TypeOK
  <2>3. \A s \in first : Rank(s)' \in Nat
    BY <2>2, FS_Subset, FS_CardinalityType DEF Rank
  <2> QED
    BY <2>1, <2>3
<1>4. Turned' = Turned /\ (Walking => Turned \in Int)
  BY <1>1 DEF Turned, Walking, TypeOK
<1>5. Walking => Ahead'
  BY <1>1, <1>2, <1>3, <1>4 DEF WalkInv, Ahead
<1>6. WalkSeesAll'
  BY <1>1, <1>2 DEF WalkInv, WalkSeesAll
<1>7. AllSeen => AllSeen'
  BY <1>1, <1>2 DEF AllSeen
<1> QED
  BY <1>1, <1>5, <1>6, <1>7 DEF WalkInv, Walking

LEMMA WalkAlways == Spec => []WalkInv
<1>1. Init /\ ClientInv => WalkInv
  BY DEF Init, WalkInv, WalkSeesAll, Walking, Client
<1>2. WalkInv /\ ClientInv' /\ [Next]_vars => WalkInv'
  <2> SUFFICES ASSUME WalkInv, ClientInv', [Next]_vars PROVE WalkInv'
    OBVIOUS
  <2>1. CASE UNCHANGED vars
    BY <2>1 DEF vars, WalkInv, WalkSeesAll, Walking, Ahead, AllSeen, Turned, Rank,
       Newer, Untied
  <2> QED
    BY <2>1, WalkStart, WalkJump, WalkPage, WalkCount, WalkRow DEF Next
<1> QED
  BY <1>1, <1>2, ClientAlways, PTL DEF Spec

(* A client that reads page after page to the end has seen every           *)
(* transaction that was there when it began, however many appear between   *)
(* its requests and in between the two queries of a page.                  *)
THEOREM WalksAreComplete == Spec => []WalkSeesAll
<1>1. WalkInv => WalkSeesAll
  BY DEF WalkInv
<1> QED
  BY <1>1, WalkAlways, PTL
-----------------------------------------------------------------------------
(* Seen twice.  As long as nothing newer has appeared since the walk began *)
(* and nothing has its time, a row's rank is what it was when it was seen. *)
Undisturbed(s) ==
  /\ Untied(s)
  /\ ~ \E t \in rows \ first : CreatedAt[t] > CreatedAt[s]

InWindow(s, p) ==
  (p - 1) * client.limit <= Rank(s) /\ Rank(s) < (p - 1) * client.limit + client.limit

PlacesInv ==
  /\ ClientInv
  /\ \A s \in rows : \A p \in seen[s] :
       FitsInt(p) /\ Undisturbed(s) => InWindow(s, p)

(* A step that shows nothing, with the same page size.                     *)
LEMMA PlacesKept ==
  ASSUME PlacesInv, ClientInv', client'.limit = client.limit,
         UNCHANGED <<rows, seen, first>>
  PROVE  PlacesInv'
  BY DEF PlacesInv, FitsInt, Undisturbed, Untied, InWindow, Rank, Newer

LEMMA PlacesPage ==
  ASSUME PlacesInv, GetTransactions, ClientInv'
  PROVE  PlacesInv'
<1>1. PICK S \in PagesOf(client.limit, Offset(client.page, client.limit)) :
        /\ seen' = [s \in Rows |->
                      IF s \in S THEN seen[s] \cup {client.page} ELSE seen[s]]
        /\ client' = Client("count", client.style, client.page, client.limit,
                            Cardinality(S) = client.limit)
  BY DEF GetTransactions
<1>2. /\ client.page \in Nat \ {0} /\ client.limit \in Nat \ {0}
      /\ UNCHANGED <<rows, first>> /\ client'.limit = client.limit
      /\ TypeOK /\ rows \subseteq Rows
  BY <1>1 DEF GetTransactions, PlacesInv, ClientInv, TypeOK, Client
<1>3. ASSUME NEW s \in rows, s \in S, FitsInt(client.page), Undisturbed(s)
      PROVE  InWindow(s, client.page)
  <2>1. (client.page - 1) * client.limit <= MaxInt
    BY <1>3 DEF FitsInt
  <2>2. /\ Offset(client.page, client.limit) = (client.page - 1) * client.limit
        /\ (client.page - 1) * client.limit \in Nat
    BY <1>2, <2>1, OffsetIs
  <2>3. S \in PagesOf(client.limit, (client.page - 1) * client.limit)
    BY <2>2
  <2> QED
    BY <1>2, <1>3, <2>2, <2>3, OnItsPage DEF InWindow, Undisturbed
<1>4. ASSUME NEW s \in rows, NEW p \in seen'[s], FitsInt(p), Undisturbed(s)
      PROVE  InWindow(s, p)
  <2>1. p \in seen[s] \/ (s \in S /\ p = client.page)
    BY <1>1, <1>2
  <2> QED
    BY <1>3, <1>4, <2>1 DEF PlacesInv
<1> QED
  BY <1>2, <1>4 DEF PlacesInv, FitsInt, Undisturbed, Untied, InWindow, Rank, Newer

LEMMA PlacesRow ==
  ASSUME PlacesInv, NEW r \in Rows, RowAppears(r), ClientInv'
  PROVE  PlacesInv'
<1>1. /\ r \notin rows /\ rows' = rows \cup {r} /\ UNCHANGED <<client, seen, first>>
      /\ first \subseteq rows /\ rows' \subseteq Rows /\ seen[r] = {}
  BY DEF RowAppears, PlacesInv, ClientInv, TypeOK
<1>2. ASSUME NEW s \in rows, NEW p \in seen[s], FitsInt(p), Undisturbed(s)'
      PROVE  InWindow(s, p)'
  <2>1. ~(CreatedAt[r] > CreatedAt[s])
    BY <1>1, <1>2 DEF Undisturbed
  <2>2. Undisturbed(s)
    BY <1>1, <1>2 DEF Undisturbed, Untied
  <2>3. Newer(CreatedAt[s])' = Newer(CreatedAt[s])
    BY <1>1, <2>1 DEF Newer
  <2> QED
    BY <1>1, <1>2, <2>2, <2>3 DEF PlacesInv, InWindow, Rank
<1>3. \A p : FitsInt(p)' = FitsInt(p)
  BY <1>1 DEF FitsInt
<1> QED
  BY <1>1, <1>2, <1>3 DEF PlacesInv

LEMMA PlacesStep == PlacesInv /\ ClientInv' /\ [Next]_vars => PlacesInv'
<1> SUFFICES ASSUME PlacesInv, ClientInv', [Next]_vars PROVE PlacesInv'
  OBVIOUS
<1>1. ASSUME NEW style \in {"total", "short"}, NEW asked \in Limits, StartWalk(style, asked)
      PROVE  PlacesInv'
  <2>1. \A s \in rows' : seen'[s] = {}
    BY <1>1 DEF StartWalk, PlacesInv, ClientInv, TypeOK
  <2> QED
    BY <2>1 DEF PlacesInv
<1>2. ASSUME NEW asked \in Pages, JumpTo(asked) PROVE PlacesInv'
  BY <1>2, PlacesKept DEF JumpTo, Client
<1>3. CASE CountTransactions
  BY <1>3, PlacesKept DEF CountTransactions, Client
<1>4. CASE UNCHANGED vars
  BY <1>4, PlacesKept DEF vars
<1> QED
  BY <1>1, <1>2, <1>3, <1>4, PlacesPage, PlacesRow DEF Next

(* Two windows have no rank in common.                                     *)
LEMMA OneWindow ==
  ASSUME PlacesInv, NEW s \in rows, NEW p \in seen[s], NEW q \in seen[s],
         p < q, InWindow(s, p), InWindow(s, q)
  PROVE  FALSE
<1>1. /\ p \in Nat /\ q \in Nat /\ client.limit \in Nat /\ Rank(s) \in Nat
  BY RankIs DEF PlacesInv, ClientInv, TypeOK
<1>2. p * client.limit <= (q - 1) * client.limit
  BY <1>1, ProductMonotone
<1>3. (p - 1) * client.limit + client.limit = p * client.limit
  BY <1>1
<1> QED
  BY <1>1, <1>2, <1>3 DEF InWindow

(* A transaction comes on two pages only when a newer one has pushed it    *)
(* down, when another has its created_at, or when an offset has wrapped.   *)
THEOREM SecondPagesHaveReason == Spec => []SecondPageHasReason
<1>1. Init /\ ClientInv => PlacesInv
  BY DEF Init, PlacesInv, ClientInv, TypeOK
<1>2. PlacesInv => SecondPageHasReason
  <2> SUFFICES ASSUME PlacesInv, NEW s \in rows, NEW p \in seen[s], NEW q \in seen[s],
                      p < q, FitsInt(q), Untied(s),
                      ~ \E t \in rows \ first : CreatedAt[t] > CreatedAt[s]
               PROVE  FALSE
    BY DEF SecondPageHasReason
  <2>1. /\ p \in Nat /\ q \in Nat /\ client.limit \in Nat
    BY DEF PlacesInv, ClientInv, TypeOK
  <2>2. (p - 1) * client.limit <= (q - 1) * client.limit
    BY <2>1, ProductMonotone
  <2>3. FitsInt(p)
    BY <2>1, <2>2, HistoryAssumption DEF FitsInt
  <2>4. InWindow(s, p) /\ InWindow(s, q)
    BY <2>3 DEF PlacesInv, Undisturbed
  <2> QED
    BY <2>4, OneWindow
<1> QED
  BY <1>1, <1>2, PlacesStep, ClientAlways, ClientInit, PTL DEF Spec
=============================================================================
