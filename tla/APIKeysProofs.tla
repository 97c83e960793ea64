----------------------------- MODULE APIKeysProofs -----------------------------
(***************************************************************************)
(* Proofs about APIKeys, for any users, keys and number of concurrent      *)
(* requests: the race between counting and inserting exceeds the limit by  *)
(* no more than the requests that take part in it, a revocation is         *)
(* effective for every request that begins after it, and rollovers grant   *)
(* nothing that was not granted with the first key.                        *)
(***************************************************************************)
EXTENDS APIKeys, FiniteSetTheorems, TLAPS

(* The steps of a handler agree with what it serves: only a rollover looks *)
(* for an old key, only an API call is authenticated by one, and both have *)
(* a key.                                                                  *)
WellFormed(q) ==
  /\ q \in RequestState
  /\ q.pc = "find" => q.op = "rollover"
  /\ q.pc = "lookup" => q.op = "call"
  /\ IF q.op \in {"rollover", "call"} THEN q.old \in Keys ELSE ~q.unfit

TypeInv ==
  /\ TypeOK
  /\ \A r \in Requests : WellFormed(req[r])
  /\ \A k \in Keys : keys[k].revoked => Exists(k)

-----------------------------------------------------------------------------
(* Types.                                                                  *)

(* A goroutine that serves nothing is well formed.                         *)
LEMMA IdleWellFormed == WellFormed(Idle)
BY DEF WellFormed, Idle, Request, RequestState

(* A step that changes one request only keeps TypeInv when the request     *)
(* that results is well formed.                                            *)
LEMMA OneRequestStep ==
  ASSUME TypeInv, NEW r \in Requests, NEW q, WellFormed(q),
         req' = [req EXCEPT ![r] = q], UNCHANGED <<clock, keys, origin>>
  PROVE  TypeInv'
BY DEF TypeInv, TypeOK, WellFormed, Exists

(* What Goto makes of a well-formed request.                               *)
LEMMA GotoWellFormed ==
  ASSUME NEW q, WellFormed(q), NEW pc \in {"count", "insert", "serving"}
  PROVE  WellFormed(Request(pc, q.op, q.user, q.old, q.permissions, q.expires,
                            q.unfit))
BY DEF WellFormed, Request, RequestState

(* The steps that begin a request.                                         *)
LEMMA BeginTypes ==
  ASSUME TypeInv, NEW r \in Requests, Begin(r)
  PROVE  TypeInv'
<1> USE KeysAssumption
<1>1. ASSUME NEW u \in Users, NEW names \in SUBSET PermissionNames,
             NEW lifetime \in Lifetimes, CreateAPIKey(r, u, names, lifetime)
      PROVE  TypeInv'
  <2> DEFINE q == Request("count", "create", u, None, Normalized(names),
                          ParseExpiry(lifetime), FALSE)
  <2>1. ParseExpiry(lifetime) \in Nat
    BY DEF ParseExpiry, TypeInv, TypeOK
  <2>2. Normalized(names) \subseteq AllowedPermissions
    BY <1>1 DEF CreateAPIKey
  <2>3. WellFormed(q)
    BY <2>1, <2>2 DEF WellFormed, Request, RequestState
  <2>4. req' = [req EXCEPT ![r] = q] /\ UNCHANGED <<clock, keys, origin>>
    BY <1>1 DEF CreateAPIKey
  <2> QED
    <3> HIDE DEF q
    <3> QED
      BY <2>3, <2>4, OneRequestStep
<1>2. ASSUME NEW u \in Users, NEW k \in Keys, RolloverAPIKey(r, u, k)
      PROVE  TypeInv'
  <2> DEFINE q == Request("find", "rollover", u, k, {}, 0, keys[k].revoked)
  <2>1. keys[k].revoked \in BOOLEAN
    BY DEF TypeInv, TypeOK, KeyRow
  <2>2. WellFormed(q)
    BY <2>1 DEF WellFormed, Request, RequestState
  <2>3. req' = [req EXCEPT ![r] = q] /\ UNCHANGED <<clock, keys, origin>>
    BY <1>2 DEF RolloverAPIKey
  <2> QED
    <3> HIDE DEF q
    <3> QED
      BY <2>2, <2>3, OneRequestStep
<1>3. ASSUME NEW k \in Keys, NEW ps \in RouteRequires,
             CallWithKey(r, k, ps)
      PROVE  TypeInv'
  <2> DEFINE unfit == keys[k].revoked \/ Expired(k)
             q == Request("lookup", "call", None, k, ps, 0, unfit)
  <2>1. unfit \in BOOLEAN
    OBVIOUS
  <2>2. WellFormed(q)
    <3> HIDE DEF unfit
    <3> QED
      BY <2>1 DEF WellFormed, Request, RequestState, RouteRequires
  <2>3. req' = [req EXCEPT ![r] = q] /\ UNCHANGED <<clock, keys, origin>>
    BY <1>3 DEF CallWithKey
  <2> QED
    <3> HIDE DEF q
    <3> QED
      BY <2>2, <2>3, OneRequestStep
<1> QED
  BY <1>1, <1>2, <1>3 DEF Begin

(* The later steps of a request.                                           *)
LEMMA RequestTypes ==
  ASSUME TypeInv, NEW r \in Requests, Step(r)
  PROVE  TypeInv'
<1> USE KeysAssumption
<1> DEFINE q == req[r]
<1>0. WellFormed(q) /\ q \in RequestState
  BY DEF TypeInv, WellFormed
<1>1. ASSUME Reply(r), UNCHANGED <<clock, keys, origin>>
      PROVE  TypeInv'
  BY <1>1, IdleWellFormed, OneRequestStep DEF Reply
<1>2. ASSUME NEW pc \in {"count", "insert", "serving"}, Goto(r, pc),
             UNCHANGED <<clock, keys, origin>>
      PROVE  TypeInv'
  <2> DEFINE next == Request(pc, q.op, q.user, q.old, q.permissions, q.expires,
                             q.unfit)
  <2>1. WellFormed(next)
    BY <1>0, GotoWellFormed
  <2>2. req' = [req EXCEPT ![r] = next]
    BY <1>2 DEF Goto, TypeInv, TypeOK
  <2> QED
    <3> HIDE DEF next
    <3> QED
      BY <1>2, <2>1, <2>2, OneRequestStep
<1>3. ASSUME FindOldKey(r) PROVE TypeInv'
  <2> DEFINE row == keys[q.old]
             next == Request("count", q.op, q.user, q.old, row.permissions, 0,
                             q.unfit)
  <2>1. q.pc = "find" /\ UNCHANGED <<clock, keys, origin>>
    BY <1>3 DEF FindOldKey
  <2>2. q.op = "rollover" /\ q.old \in Keys
    BY <1>0, <2>1 DEF WellFormed
  <2>3. row \in KeyRow
    BY <2>2 DEF TypeInv, TypeOK
  <2>4. row.permissions \in SUBSET AllowedPermissions
    BY <2>3 DEF KeyRow
  <2>5. WellFormed(next)
    <3> HIDE DEF q, row
    <3> QED
      BY <1>0, <2>2, <2>4 DEF WellFormed, Request, RequestState
  <2>6. Reply(r) \/ req' = [req EXCEPT ![r] = next]
    BY <1>3 DEF FindOldKey
  <2> QED
    <3> HIDE DEF next
    <3> QED
      BY <1>1, <2>1, <2>5, <2>6, OneRequestStep
<1>4. ASSUME CountActiveKeys(r) PROVE TypeInv'
  <2>1. UNCHANGED <<clock, keys, origin>>
    BY <1>4 DEF CountActiveKeys
  <2>2. ASSUME NEW lifetime \in Lifetimes,
               req' = [req EXCEPT ![r] = Request("insert", q.op, q.user, q.old,
                         q.permissions, ParseExpiry(lifetime), q.unfit)]
        PROVE  TypeInv'
    <3> DEFINE next == Request("insert", q.op, q.user, q.old, q.permissions,
                               ParseExpiry(lifetime), q.unfit)
    <3>1. ParseExpiry(lifetime) \in Nat
      BY DEF ParseExpiry, TypeInv, TypeOK
    <3>2. WellFormed(next)
      <4> HIDE DEF q
      <4> QED
        BY <1>0, <3>1 DEF WellFormed, Request, RequestState
    <3> QED
      <4> HIDE DEF next
      <4> QED
        BY <2>1, <2>2, <3>2, OneRequestStep DEF next
  <2> QED
    BY <1>1, <1>2, <1>4, <2>1, <2>2 DEF CountActiveKeys
<1>5. ASSUME ValidateAPIKey(r) PROVE TypeInv'
  <2> DEFINE row == keys[q.old]
             next == Request("serving", q.op, row.owner, q.old, q.permissions, 0,
                             q.unfit)
  <2>1. q.pc = "lookup" /\ UNCHANGED <<clock, keys, origin>>
    BY <1>5 DEF ValidateAPIKey
  <2>2. q.op = "call" /\ q.old \in Keys
    BY <1>0, <2>1 DEF WellFormed
  <2>3. row.owner \in Users \cup {None}
    BY <2>2 DEF TypeInv, TypeOK, KeyRow
  <2>4. WellFormed(next)
    <3> HIDE DEF q, row
    <3> QED
      BY <1>0, <2>2, <2>3 DEF WellFormed, Request, RequestState
  <2>5. Reply(r) \/ req' = [req EXCEPT ![r] = next]
    BY <1>5 DEF ValidateAPIKey
  <2> QED
    <3> HIDE DEF next
    <3> QED
      BY <1>1, <2>1, <2>4, <2>5, OneRequestStep
<1>6. ASSUME EndRequest(r) PROVE TypeInv'
  BY <1>1, <1>6 DEF EndRequest
<1>7. ASSUME NEW k \in Keys, CreateKey(r, k) PROVE TypeInv'
  <2> DEFINE first == IF q.old = None THEN k ELSE origin[q.old]
  <2>1. NewRow(q) \in KeyRow
    <3> HIDE DEF q
    <3> QED
      BY <1>0 DEF NewRow, KeyRow, RequestState
  <2>2. ~NewRow(q).revoked
    BY DEF NewRow
  <2>3. first \in Keys \cup {None}
    <3>1. q.old \in Keys \cup {None}
      <4> HIDE DEF q
      <4> QED
        BY <1>0 DEF RequestState
    <3> QED
      BY <3>1 DEF TypeInv, TypeOK
  <2>4. /\ keys' = [keys EXCEPT ![k] = NewRow(q)]
        /\ origin' = [origin EXCEPT ![k] = first]
        /\ req' = [req EXCEPT ![r] = Idle]
        /\ clock' = clock
    BY <1>7 DEF CreateKey, Reply
  <2> HIDE DEF first
  <2>5. TypeOK'
    BY <2>1, <2>3, <2>4, IdleWellFormed DEF TypeInv, TypeOK, WellFormed
  <2>6. (\A s \in Requests : WellFormed(req[s]))'
    BY <2>4, IdleWellFormed DEF TypeInv, TypeOK, WellFormed
  <2>7. (\A j \in Keys : keys[j].revoked => Exists(j))'
    BY <2>2, <2>4 DEF TypeInv, TypeOK, Exists
  <2> QED
    BY <2>5, <2>6, <2>7 DEF TypeInv
<1> QED
  BY <1>3, <1>4, <1>5, <1>6, <1>7 DEF Step

(* Every step keeps the types.                                             *)
LEMMA TypeStep == TypeInv /\ [Next]_vars => TypeInv'
<1> SUFFICES ASSUME TypeInv, [Next]_vars PROVE TypeInv'
  OBVIOUS
<1> USE KeysAssumption
<1>1. ASSUME NEW u \in Users, NEW k \in Keys, RevokeAPIKey(u, k)
      PROVE  TypeInv'
  <2> DEFINE row == [owner |-> keys[k].owner, permissions |-> keys[k].permissions,
                     expires |-> keys[k].expires, revoked |-> TRUE]
  <2>1. keys' = [keys EXCEPT ![k] = row] /\ UNCHANGED <<clock, origin, req>>
    BY <1>1 DEF RevokeAPIKey, RevokeKey, TypeInv, TypeOK
  <2>2. row \in KeyRow /\ row.owner # None
    <3>1. keys[k] \in KeyRow
      BY DEF TypeInv, TypeOK
    <3> QED
      BY <1>1, <3>1 DEF RevokeAPIKey, KeyRow
  <2> QED
    <3> HIDE DEF row
    <3> QED
      BY <2>1, <2>2 DEF TypeInv, TypeOK, WellFormed, Exists
<1>2. CASE Tick
  BY <1>2 DEF Tick, TypeInv, TypeOK, WellFormed, Exists
<1>3. CASE UNCHANGED vars
  BY <1>3 DEF vars, TypeInv, TypeOK, WellFormed, Exists
<1> QED
  BY <1>1, <1>2, <1>3, BeginTypes, RequestTypes DEF Next

(* The empty table and idle goroutines have their types.                   *)
LEMMA TypeInit == Init => TypeInv
<1> SUFFICES ASSUME Init PROVE TypeInv
  OBVIOUS
<1>1. NoKey \in KeyRow /\ ~NoKey.revoked
  BY DEF NoKey, KeyRow
<1> QED
  BY <1>1, IdleWellFormed, KeysAssumption DEF Init, TypeInv, TypeOK, WellFormed

(* The table and the requests keep their types.                            *)
THEOREM KeysTypeCorrect == Spec => []TypeOK
<1>1. TypeInv => TypeOK
  BY DEF TypeInv
<1> QED
  BY <1>1, TypeInit, TypeStep, PTL DEF Spec
-----------------------------------------------------------------------------
(* The limit on active keys.                                               *)

(* The limit is exceeded by one key less than requests of the user that    *)
(* insert one at the same time, if those never are more than n.            *)
AtOnce(n) == \A u \in Users : Cardinality(Inserting(u)) <= n

WithinLimit(n) ==
  \A u \in Users :
    Cardinality(Active(u)) + Cardinality(Inserting(u)) <= MaxActiveKeys - 1 + n

KeysInv(n) == TypeInv /\ WithinLimit(n)

(* Both sets that the limit counts are finite.                             *)
LEMMA SetsFinite ==
  ASSUME NEW u
  PROVE  /\ IsFiniteSet(Active(u)) /\ Cardinality(Active(u)) \in Nat
         /\ IsFiniteSet(Inserting(u)) /\ Cardinality(Inserting(u)) \in Nat
         /\ Cardinality(Inserting(u)) <= Cardinality(Requests)
         /\ Cardinality(Requests) \in Nat
<1>1. Active(u) \in SUBSET Keys /\ Inserting(u) \in SUBSET Requests
  BY DEF Active, Inserting
<1> QED
  BY <1>1, KeysAssumption, FS_Subset, FS_CardinalityType

(* The same of the next state: the sets are still sets of keys and of      *)
(* requests.                                                               *)
LEMMA SetsFiniteNext ==
  ASSUME NEW u
  PROVE  /\ IsFiniteSet(Active(u)') /\ Cardinality(Active(u)') \in Nat
         /\ IsFiniteSet(Inserting(u)') /\ Cardinality(Inserting(u)') \in Nat
         /\ Cardinality(Inserting(u)') <= Cardinality(Requests)
<1>1. Active(u)' \in SUBSET Keys /\ Inserting(u)' \in SUBSET Requests
  BY DEF Active, Inserting
<1> QED
  BY <1>1, KeysAssumption, FS_Subset, FS_CardinalityType

(* A step after which no user has more active keys, nor more requests      *)
(* about to insert one, keeps the bound.                                   *)
LEMMA Shrinking ==
  ASSUME NEW n \in Nat, WithinLimit(n), NEW u \in Users,
         Active(u)' \subseteq Active(u), Inserting(u)' \subseteq Inserting(u)
  PROVE  Cardinality(Active(u))' + Cardinality(Inserting(u))'
           <= MaxActiveKeys - 1 + n
<1>1. /\ Cardinality(Active(u)') <= Cardinality(Active(u))
      /\ Cardinality(Inserting(u)') <= Cardinality(Inserting(u))
  BY SetsFinite, FS_Subset
<1> QED
  BY <1>1, SetsFinite, SetsFiniteNext, KeysAssumption DEF WithinLimit

(* The check of the limit: whoever passes it saw fewer than the maximum,   *)
(* and no more than n requests can be about to insert.             *)
LEMMA CountKeepsBound ==
  ASSUME NEW n \in Nat, KeysInv(n), AtOnce(n)', NEW r \in Requests, CountActiveKeys(r),
         NEW u \in Users
  PROVE  Cardinality(Active(u))' + Cardinality(Inserting(u))'
           <= MaxActiveKeys - 1 + n
<1>1. Active(u)' = Active(u)
  BY DEF CountActiveKeys, Active
<1>2. CASE ~Full(u)
  <2>1. Cardinality(Active(u)) <= MaxActiveKeys - 1
    BY <1>2, SetsFinite, KeysAssumption DEF Full
  <2> QED
    BY <1>1, <2>1, SetsFinite, SetsFiniteNext, KeysAssumption DEF AtOnce
<1>3. CASE Full(u)
  <2>1. Inserting(u)' \subseteq Inserting(u)
    <3>1. req' = [req EXCEPT ![r] = Idle] \/ req[r].user # u
      BY <1>3 DEF CountActiveKeys, Reply
    <3>2. CASE req' = [req EXCEPT ![r] = Idle]
      BY <3>2 DEF Inserting, Idle, Request, KeysInv, TypeInv, TypeOK
    <3>3. CASE req[r].user # u
      <4>1. \E q : req' = [req EXCEPT ![r] = q] /\ q.user # u
        <5>1. Idle.user # u
          BY KeysAssumption DEF Idle, Request
        <5> QED
          BY <5>1, <3>3 DEF CountActiveKeys, Reply, Goto, Request, KeysInv,
                            TypeInv, TypeOK
      <4> QED
        BY <4>1 DEF Inserting, KeysInv, TypeInv, TypeOK
    <3> QED
      BY <3>1, <3>2, <3>3
  <2> QED
    BY <1>1, <2>1, Shrinking DEF KeysInv
<1> QED
  BY <1>2, <1>3

(* The INSERT: a request that was about to insert becomes a key.           *)
LEMMA InsertKeepsBound ==
  ASSUME NEW n \in Nat, KeysInv(n), NEW r \in Requests, NEW k \in Keys, CreateKey(r, k),
         NEW u \in Users
  PROVE  Cardinality(Active(u))' + Cardinality(Inserting(u))'
           <= MaxActiveKeys - 1 + n
<1>1. /\ keys' = [keys EXCEPT ![k] = NewRow(req[r])]
      /\ req' = [req EXCEPT ![r] = Idle]
      /\ req[r].pc = "insert"
      /\ clock' = clock
  BY DEF CreateKey, Reply
<1>2. Inserting(u)' \subseteq Inserting(u)
  BY <1>1 DEF Inserting, Idle, Request, KeysInv, TypeInv, TypeOK
<1>3. CASE req[r].user # u
  <2>1. Active(u)' \subseteq Active(u)
    BY <1>1, <1>3 DEF Active, NewRow, KeysInv, TypeInv, TypeOK
  <2> QED
    BY <1>2, <2>1, Shrinking DEF KeysInv
<1>4. CASE req[r].user = u
  <2>1. Active(u)' \subseteq Active(u) \cup {k}
    BY <1>1 DEF Active, KeysInv, TypeInv, TypeOK
  <2>2. Inserting(u)' \subseteq Inserting(u) \ {r} /\ r \in Inserting(u)
    BY <1>1, <1>2, <1>4 DEF Inserting, Idle, Request, KeysInv, TypeInv, TypeOK
  <2>3. /\ IsFiniteSet(Active(u) \cup {k})
        /\ Cardinality(Active(u) \cup {k}) <= Cardinality(Active(u)) + 1
        /\ Cardinality(Active(u) \cup {k}) \in Nat
    <3>1. /\ IsFiniteSet(Active(u)) /\ Cardinality(Active(u)) \in Nat
          /\ IsFiniteSet(Active(u) \cup {k})
      BY SetsFinite, FS_AddElement
    <3>2. Cardinality(Active(u) \cup {k}) =
            IF k \in Active(u) THEN Cardinality(Active(u))
                              ELSE Cardinality(Active(u)) + 1
      BY <3>1, FS_AddElement
    <3> QED
      BY <3>1, <3>2
  <2>4. /\ IsFiniteSet(Inserting(u) \ {r})
        /\ Cardinality(Inserting(u) \ {r}) = Cardinality(Inserting(u)) - 1
        /\ Cardinality(Inserting(u) \ {r}) \in Nat
    BY <2>2, SetsFinite, FS_RemoveElement, FS_CardinalityType
  <2>5. Cardinality(Active(u)') <= Cardinality(Active(u) \cup {k})
    BY <2>1, <2>3, FS_Subset
  <2>6. Cardinality(Inserting(u)') <= Cardinality(Inserting(u) \ {r})
    BY <2>2, <2>4, FS_Subset
  <2> QED
    BY <2>3, <2>4, <2>5, <2>6, SetsFinite, SetsFiniteNext, KeysAssumption
    DEF KeysInv, WithinLimit
<1> QED
  BY <1>3, <1>4

(* The other steps of a request leave the table alone, and do not bring a  *)
(* request to its INSERT.                                                  *)
LEMMA OtherStepsKeepBound ==
  ASSUME NEW n \in Nat, KeysInv(n), NEW r \in Requests, NEW u \in Users,
         \/ Begin(r) \/ FindOldKey(r) \/ ValidateAPIKey(r) \/ EndRequest(r)
  PROVE  Cardinality(Active(u))' + Cardinality(Inserting(u))'
           <= MaxActiveKeys - 1 + n
<1>1. UNCHANGED <<clock, keys>>
  BY DEF Begin, CreateAPIKey, RolloverAPIKey, CallWithKey, FindOldKey,
         ValidateAPIKey, EndRequest
<1>2. Active(u)' = Active(u)
  BY <1>1 DEF Active
<1>3. \E q : req' = [req EXCEPT ![r] = q] /\ q.pc # "insert"
  <2>1. CASE Begin(r)
    BY <2>1 DEF Begin, CreateAPIKey, RolloverAPIKey, CallWithKey, Request
  <2>2. CASE FindOldKey(r)
    BY <2>2 DEF FindOldKey, Reply, Idle, Request
  <2>3. CASE ValidateAPIKey(r)
    <3> DEFINE next == Request("serving", req[r].op, keys[req[r].old].owner,
                               req[r].old, req[r].permissions, 0, req[r].unfit)
    <3>1. \/ req' = [req EXCEPT ![r] = Idle]
          \/ req' = [req EXCEPT ![r] = next]
      BY <2>3 DEF ValidateAPIKey, Reply
    <3>2. Idle.pc # "insert" /\ next.pc # "insert"
      BY DEF Idle, Request
    <3> HIDE DEF next
    <3> QED
      BY <3>1, <3>2
  <2>4. CASE EndRequest(r)
    <3>1. req' = [req EXCEPT ![r] = Idle]
      BY <2>4 DEF EndRequest, Reply
    <3>2. Idle.pc # "insert"
      BY DEF Idle, Request
    <3> QED
      BY <3>1, <3>2
  <2> QED
    BY <2>1, <2>2, <2>3, <2>4
<1>4. Inserting(u)' \subseteq Inserting(u)
  BY <1>3 DEF Inserting, KeysInv, TypeInv, TypeOK
<1> QED
  BY <1>2, <1>4, Shrinking DEF KeysInv

(* Every step keeps the bound.                                             *)
LEMMA BoundStep ==
  ASSUME NEW n \in Nat, KeysInv(n), AtOnce(n)', [Next]_vars
  PROVE  KeysInv(n)'
<1> SUFFICES ASSUME NEW u \in Users
             PROVE  Cardinality(Active(u))' + Cardinality(Inserting(u))'
                      <= MaxActiveKeys - 1 + n
  BY TypeStep DEF KeysInv, WithinLimit
<1>1. ASSUME NEW r \in Requests, Begin(r) \/ Step(r)
      PROVE  Cardinality(Active(u))' + Cardinality(Inserting(u))'
               <= MaxActiveKeys - 1 + n
  BY <1>1, CountKeepsBound, InsertKeepsBound, OtherStepsKeepBound DEF Step
<1>2. ASSUME NEW w \in Users, NEW k \in Keys, RevokeAPIKey(w, k)
      PROVE  Active(u)' \subseteq Active(u) /\ Inserting(u)' = Inserting(u)
  BY <1>2 DEF RevokeAPIKey, RevokeKey, Active, Inserting, KeysInv, TypeInv, TypeOK
<1>3. ASSUME Tick
      PROVE  Active(u)' \subseteq Active(u) /\ Inserting(u)' = Inserting(u)
  <2>1. \A k \in Keys : keys[k].expires \in Nat
    BY DEF KeysInv, TypeInv, TypeOK, KeyRow
  <2> QED
    BY <1>3, <2>1 DEF Tick, Active, Inserting, KeysInv, TypeInv, TypeOK
<1>4. ASSUME UNCHANGED vars
      PROVE  Active(u)' \subseteq Active(u) /\ Inserting(u)' = Inserting(u)
  BY <1>4 DEF vars, Active, Inserting
<1> QED
  BY <1>1, <1>2, <1>3, <1>4, Shrinking DEF Next, KeysInv

LEMMA BoundInit ==
  ASSUME NEW n \in Nat, Init
  PROVE  KeysInv(n)
<1>1. ASSUME NEW u \in Users PROVE Active(u) = {} /\ Inserting(u) = {}
  BY KeysAssumption DEF Init, Active, Inserting, NoKey, Idle, Request
<1>2. Cardinality({}) = 0
  BY FS_EmptySet
<1>3. WithinLimit(n)
  BY <1>1, <1>2, KeysAssumption DEF WithinLimit
<1> QED
  BY <1>3, TypeInit DEF KeysInv

(* The race on the limit of active keys is bounded, however many requests  *)
(* and keys there are: at most one key too many for each request but one.  *)
THEOREM RaceIsBounded == Spec => []OvershootBounded
<1> DEFINE n == Cardinality(Requests)
<1>1. n \in Nat
  BY KeysAssumption, FS_CardinalityType
<1>2. Init => KeysInv(n)
  BY <1>1, BoundInit
<1>3. KeysInv(n) /\ [Next]_vars => KeysInv(n)'
  <2>1. AtOnce(n)'
    BY SetsFiniteNext DEF AtOnce
  <2> QED
    BY <1>1, <2>1, BoundStep
<1>4. KeysInv(n) => OvershootBounded
  BY DEF KeysInv, WithinLimit, OvershootBounded
<1> QED
  BY <1>2, <1>3, <1>4, PTL DEF Spec

(* The limit that the 403 states holds as long as no two requests of one   *)
(* user are between their count and their INSERT: nothing else exceeds it, *)
(* no rollover, no expiry and no request of somebody else.                 *)
THEOREM LimitHoldsUnraced == Spec /\ []AtOnce(1) => []AtMostMaxActiveKeys
<1>1. Init => KeysInv(1)
  BY BoundInit
<1>2. KeysInv(1) /\ AtOnce(1)' /\ [Next]_vars => KeysInv(1)'
  BY BoundStep
<1>3. KeysInv(1) => AtMostMaxActiveKeys
  <2> SUFFICES ASSUME KeysInv(1), NEW u \in Users
               PROVE  Cardinality(Active(u)) <= MaxActiveKeys
    BY DEF AtMostMaxActiveKeys
  <2>1. Cardinality(Active(u)) + Cardinality(Inserting(u)) <= MaxActiveKeys - 1 + 1
    BY DEF KeysInv, WithinLimit
  <2> QED
    BY <2>1, SetsFinite, KeysAssumption
<1> QED
  BY <1>1, <1>2, <1>3, PTL DEF Spec
-----------------------------------------------------------------------------
(* Revocation.                                                             *)

(* What a request found unfit when it began: revoked for ever, or expired  *)
(* for good if the request is an API call.                                 *)
UnfitFor(q) ==
  q.unfit => keys[q.old].revoked \/ (q.op = "call" /\ Expired(q.old))

(* RevocationIsEffective is not inductive: a request that has not looked   *)
(* at its key yet is only stopped because the key is still unfit.          *)
RevocationInv ==
  /\ TypeInv
  /\ \A r \in Requests : UnfitFor(req[r])
  /\ RevocationIsEffective

(* No step makes a revoked key, or one that has expired, good again.       *)
LEMMA UnfitForEver ==
  ASSUME TypeInv, [Next]_vars, NEW q, WellFormed(q), UnfitFor(q)
  PROVE  UnfitFor(q)'
<1> PICK k : k = q.old
  OBVIOUS
<1> SUFFICES ASSUME q.unfit
             PROVE  \/ keys'[k].revoked
                    \/ q.op = "call" /\ Exists(k)' /\ clock' > keys'[k].expires
  BY DEF UnfitFor, Expired, Exists
<1>1. \/ keys[k].revoked
      \/ q.op = "call" /\ Exists(k) /\ clock > keys[k].expires
  BY DEF UnfitFor, Expired
<1>0. k \in Keys /\ keys[k] \in KeyRow /\ clock \in Nat /\ Exists(k)
  BY <1>1, KeysAssumption DEF WellFormed, TypeInv, TypeOK
<1>2. CASE clock' = clock /\ keys' = keys
  BY <1>1, <1>2 DEF Exists
<1>3. ASSUME NEW r \in Requests, NEW j \in Keys, CreateKey(r, j)
      PROVE  clock' = clock /\ keys'[k] = keys[k]
  BY <1>0, <1>3 DEF CreateKey, Fresh, TypeInv, TypeOK
<1>4. ASSUME NEW u \in Users, NEW j \in Keys, RevokeAPIKey(u, j)
      PROVE  /\ clock' = clock
             /\ keys'[k] = keys[k] \/ keys'[k].revoked
  BY <1>0, <1>4 DEF RevokeAPIKey, RevokeKey, TypeInv, TypeOK
<1>5. CASE Tick
  BY <1>0, <1>1, <1>5 DEF Tick, KeyRow, Exists
<1>6. ASSUME NEW r \in Requests, Begin(r) \/ Step(r),
             \A j \in Keys : ~CreateKey(r, j)
      PROVE  clock' = clock /\ keys' = keys
  BY <1>6 DEF Begin, Step, CreateAPIKey, RolloverAPIKey, CallWithKey,
              FindOldKey, CountActiveKeys, ValidateAPIKey, EndRequest
<1>7. CASE UNCHANGED vars
  BY <1>1, <1>7 DEF vars, Exists
<1> QED
  BY <1>1, <1>2, <1>3, <1>4, <1>5, <1>6, <1>7 DEF Next, Exists

(* A step of one request: it is enough to look at what becomes of it.      *)
LEMMA OneRequestFit ==
  ASSUME RevocationInv, [Next]_vars, NEW r \in Requests, NEW q,
         req' = [req EXCEPT ![r] = q], UnfitFor(q)',
         q.pc \in {"count", "insert", "serving"} => ~q.unfit
  PROVE  RevocationInv'
<1>1. TypeInv'
  BY TypeStep DEF RevocationInv
<1>2. ASSUME NEW s \in Requests PROVE UnfitFor(req[s])'
  <2>1. CASE s = r
    BY <2>1 DEF RevocationInv, TypeInv, TypeOK
  <2>2. CASE s # r
    <3>1. PICK other : other = req[s]
      OBVIOUS
    <3>2. req'[s] = other /\ WellFormed(other) /\ UnfitFor(other)
      BY <2>2, <3>1 DEF RevocationInv, TypeInv, TypeOK
    <3>3. UnfitFor(other)'
      BY <3>2, UnfitForEver DEF RevocationInv
    <3> QED
      BY <3>2, <3>3 DEF UnfitFor
  <2> QED
    BY <2>1, <2>2
<1>3. RevocationIsEffective'
  BY DEF RevocationIsEffective, RevocationInv, TypeInv, TypeOK
<1> QED
  BY <1>1, <1>2, <1>3 DEF RevocationInv

(* The steps that begin a request note what is unfit now.                  *)
LEMMA BeginFit ==
  ASSUME RevocationInv, NEW r \in Requests, Begin(r)
  PROVE  RevocationInv'
<1>1. clock' = clock /\ keys' = keys /\ [Next]_vars
  BY DEF Begin, CreateAPIKey, RolloverAPIKey, CallWithKey, Next
<1>2. ASSUME NEW q, req' = [req EXCEPT ![r] = q],
             q.pc \in {"count", "insert", "serving"} => ~q.unfit,
             \/ q.unfit \in {FALSE, keys[q.old].revoked}
             \/ q.op = "call" /\ q.unfit = (keys[q.old].revoked \/ Expired(q.old))
      PROVE  RevocationInv'
  <2>1. UnfitFor(q)'
    BY <1>1, <1>2 DEF UnfitFor, Expired, Exists
  <2> QED
    BY <1>1, <1>2, <2>1, OneRequestFit
<1>3. ASSUME NEW u \in Users, NEW names \in SUBSET PermissionNames,
             NEW lifetime \in Lifetimes, CreateAPIKey(r, u, names, lifetime)
      PROVE  RevocationInv'
  <2>1. PICK q : q = Request("count", "create", u, None, Normalized(names),
                             ParseExpiry(lifetime), FALSE)
    OBVIOUS
  <2> QED
    BY <1>2, <1>3, <2>1 DEF CreateAPIKey, Request
<1>4. ASSUME NEW u \in Users, NEW k \in Keys, RolloverAPIKey(r, u, k)
      PROVE  RevocationInv'
  <2>1. PICK q : q = Request("find", "rollover", u, k, {}, 0, keys[k].revoked)
    OBVIOUS
  <2> QED
    BY <1>2, <1>4, <2>1 DEF RolloverAPIKey, Request
<1>5. ASSUME NEW k \in Keys, NEW ps \in RouteRequires,
             CallWithKey(r, k, ps)
      PROVE  RevocationInv'
  <2>1. PICK unfit : unfit = (keys[k].revoked \/ Expired(k))
    OBVIOUS
  <2>2. PICK q : q = Request("lookup", "call", None, k, ps, 0, unfit)
    OBVIOUS
  <2>3. req' = [req EXCEPT ![r] = q]
    BY <1>5, <2>1, <2>2 DEF CallWithKey
  <2>4. /\ q.pc = "lookup" /\ q.op = "call" /\ q.old = k /\ q.unfit = unfit
    BY <2>2 DEF Request
  <2> QED
    BY <1>2, <2>1, <2>3, <2>4
<1> QED
  BY <1>3, <1>4, <1>5 DEF Begin

(* The later steps: a request that goes on after it has looked at its key  *)
(* saw a key that is fit, and so one that was fit when the request began.  *)
LEMMA StepFit ==
  ASSUME RevocationInv, NEW r \in Requests, Step(r)
  PROVE  RevocationInv'
<1> PICK q : q = req[r]
  OBVIOUS
<1>0. [Next]_vars /\ q \in RequestState /\ UnfitFor(q) /\ WellFormed(q)
  BY DEF Next, RevocationInv, TypeInv, TypeOK
<1>1. ASSUME Reply(r) PROVE RevocationInv'
  <2>1. UnfitFor(Idle)' /\ Idle.pc = "idle"
    BY DEF UnfitFor, Idle, Request
  <2> QED
    BY <1>0, <1>1, <2>1, OneRequestFit DEF Reply
<1>2. ASSUME NEW pc, NEW u, NEW ps, NEW expires,
             req' = [req EXCEPT ![r] = Request(pc, q.op, u, q.old, ps,
                                               expires, q.unfit)],
             ~q.unfit
      PROVE  RevocationInv'
  <2>1. PICK next : next = Request(pc, q.op, u, q.old, ps, expires, q.unfit)
    OBVIOUS
  <2>2. next.op = q.op /\ next.unfit = q.unfit /\ next.old = q.old
    BY <2>1 DEF Request
  <2>3. UnfitFor(next)'
    BY <1>2, <2>2 DEF UnfitFor
  <2> QED
    BY <1>0, <1>2, <2>1, <2>2, <2>3, OneRequestFit
<1>3. CASE FindOldKey(r)
  <2>1. CASE Reply(r)
    BY <1>1, <2>1
  <2>2. CASE ~Reply(r)
    <3>1. /\ q.op = "rollover"
          /\ ~keys[q.old].revoked
          /\ req' = [req EXCEPT ![r] = Request("count", q.op, q.user, q.old,
                       keys[q.old].permissions, 0, q.unfit)]
      BY <1>0, <1>3, <2>2 DEF FindOldKey, MayRollOver, WellFormed
    <3>2. ~q.unfit
      BY <1>0, <3>1 DEF UnfitFor
    <3> QED
      BY <1>2, <3>1, <3>2
  <2> QED
    BY <2>1, <2>2
<1>4. CASE CountActiveKeys(r)
  <2>1. q.pc = "count" /\ ~q.unfit
    BY <1>4 DEF CountActiveKeys, RevocationInv, RevocationIsEffective
  <2>2. \/ Reply(r)
        \/ \E ps, expires :
             req' = [req EXCEPT ![r] = Request("insert", q.op, q.user, q.old, ps,
                                               expires, q.unfit)]
    BY <1>4 DEF CountActiveKeys, Goto, RevocationInv, TypeInv, TypeOK
  <2> QED
    BY <1>1, <1>2, <2>1, <2>2
<1>5. CASE ValidateAPIKey(r)
  <2>1. CASE Reply(r)
    BY <1>1, <2>1
  <2>2. CASE ~Reply(r)
    <3>1. /\ Admits(keys[q.old], q.permissions)
          /\ req' = [req EXCEPT ![r] = Request("serving", q.op, keys[q.old].owner,
                       q.old, q.permissions, 0, q.unfit)]
      BY <1>5, <2>2 DEF ValidateAPIKey
    <3>2. q.old \in Keys
      BY <1>0, <1>5 DEF ValidateAPIKey, WellFormed
    <3>3. keys[q.old].expires \in Nat /\ clock \in Nat
      BY <3>2 DEF RevocationInv, TypeInv, TypeOK, KeyRow
    <3>4. ~q.unfit
      BY <1>0, <3>1, <3>3 DEF Admits, UnfitFor, Expired
    <3> QED
      BY <1>2, <3>1, <3>4
  <2> QED
    BY <2>1, <2>2
<1>6. CASE EndRequest(r)
  BY <1>1, <1>6 DEF EndRequest
<1>7. ASSUME NEW k \in Keys, CreateKey(r, k) PROVE RevocationInv'
  BY <1>1, <1>7 DEF CreateKey
<1> QED
  BY <1>3, <1>4, <1>5, <1>6, <1>7 DEF Step

(* A step that leaves all requests alone.                                  *)
LEMMA ElsewhereFit ==
  ASSUME RevocationInv, [Next]_vars, req' = req
  PROVE  RevocationInv'
<1>1. ASSUME NEW r \in Requests PROVE UnfitFor(req[r])'
  <2>1. PICK q : q = req[r]
    OBVIOUS
  <2>2. UnfitFor(q)'
    BY <2>1, UnfitForEver DEF RevocationInv, TypeInv, TypeOK
  <2> QED
    BY <2>1, <2>2 DEF UnfitFor
<1> QED
  BY <1>1, TypeStep DEF RevocationInv, RevocationIsEffective

(* A key that was revoked before a request began is of no use to it, in    *)
(* any number of concurrent rollovers, calls and revocations.              *)
THEOREM RevokedKeysAreDead == Spec => []RevocationIsEffective
<1>1. Init => RevocationInv
  <2> SUFFICES ASSUME Init PROVE RevocationInv
    OBVIOUS
  <2>1. \A r \in Requests : req[r] = Idle
    BY DEF Init
  <2>2. ~Idle.unfit /\ Idle.pc = "idle"
    BY DEF Idle, Request
  <2> QED
    BY <2>1, <2>2, TypeInit DEF RevocationInv, RevocationIsEffective, UnfitFor
<1>2. RevocationInv /\ [Next]_vars => RevocationInv'
  <2> SUFFICES ASSUME RevocationInv, [Next]_vars PROVE RevocationInv'
    OBVIOUS
  <2>1. ASSUME NEW u \in Users, NEW k \in Keys, RevokeAPIKey(u, k)
        PROVE  req' = req
    BY <2>1 DEF RevokeAPIKey
  <2>2. Tick \/ UNCHANGED vars => req' = req
    BY DEF Tick, vars
  <2> QED
    BY <2>1, <2>2, BeginFit, StepFit, ElsewhereFit DEF Next
<1>3. RevocationInv => RevocationIsEffective
  BY DEF RevocationInv
<1> QED
  BY <1>1, <1>2, <1>3, PTL DEF Spec
-----------------------------------------------------------------------------
(* Rollovers.                                                              *)

(* The chain of rollovers that a key ends begins with an existing key of   *)
(* the same owner and with no fewer permissions.                           *)
ChainSound(k) ==
  LET o == origin[k] IN
  Exists(k) =>
    /\ o \in Keys /\ Exists(o)
    /\ keys[k].owner = keys[o].owner
    /\ keys[k].permissions \subseteq keys[o].permissions

(* A request that has looked at a key acts for its owner and asks for no   *)
(* more than the key's permissions; it rolls it over only when expired.    *)
ActsByKey(q) ==
  /\ q.pc = "find" => q.user # None
  /\ q.pc = "serving" => q.old # None
  /\ q.pc \in {"count", "insert", "serving"} /\ q.old # None =>
       /\ q.old \in Keys /\ Exists(q.old)
       /\ q.user = keys[q.old].owner
       /\ q.permissions \subseteq keys[q.old].permissions
       /\ q.op = "rollover" => clock >= keys[q.old].expires

GrantInv ==
  /\ TypeInv
  /\ \A k \in Keys : ChainSound(k)
  /\ \A r \in Requests : ActsByKey(req[r])

(* Of a key that is there, only the revocation may change.                 *)
LEMMA RowKept ==
  ASSUME TypeInv, [Next]_vars
  PROVE  /\ clock' >= clock
         /\ \A k \in Keys : Exists(k) =>
              /\ keys'[k].owner = keys[k].owner
              /\ keys'[k].permissions = keys[k].permissions
              /\ keys'[k].expires = keys[k].expires
              /\ origin'[k] = origin[k]
<1>0. clock \in Nat
  BY DEF TypeInv, TypeOK
<1>1. ASSUME NEW r \in Requests, NEW j \in Keys, CreateKey(r, j)
      PROVE  /\ clock' = clock
             /\ \A k \in Keys : Exists(k) => keys'[k] = keys[k] /\ origin'[k] = origin[k]
  BY <1>1 DEF CreateKey, Fresh, TypeInv, TypeOK
<1>2. ASSUME NEW u \in Users, NEW j \in Keys, RevokeAPIKey(u, j)
      PROVE  /\ clock' = clock /\ origin' = origin
             /\ \A k \in Keys : /\ keys'[k].owner = keys[k].owner
                                /\ keys'[k].permissions = keys[k].permissions
                                /\ keys'[k].expires = keys[k].expires
  BY <1>2 DEF RevokeAPIKey, RevokeKey, TypeInv, TypeOK
<1>3. Tick => clock' >= clock /\ keys' = keys /\ origin' = origin
  BY <1>0 DEF Tick
<1>4. ASSUME NEW r \in Requests, Begin(r) \/ Step(r),
             \A j \in Keys : ~CreateKey(r, j)
      PROVE  clock' = clock /\ keys' = keys /\ origin' = origin
  BY <1>4 DEF Begin, Step, CreateAPIKey, RolloverAPIKey, CallWithKey,
              FindOldKey, CountActiveKeys, ValidateAPIKey, EndRequest
<1>5. UNCHANGED vars => clock' = clock /\ keys' = keys /\ origin' = origin
  BY DEF vars
<1> QED
  BY <1>0, <1>1, <1>2, <1>3, <1>4, <1>5 DEF Next

(* What a request knows of its key stays true while others go on.          *)
LEMMA ActsForEver ==
  ASSUME TypeInv, [Next]_vars, NEW q, ActsByKey(q)
  PROVE  ActsByKey(q)'
<1>1. CASE q.pc \in {"count", "insert", "serving"} /\ q.old # None
  <2> PICK k : k = q.old
    OBVIOUS
  <2>1. k \in Keys /\ Exists(k)
    BY <1>1 DEF ActsByKey
  <2>2. clock' >= clock /\ clock \in Nat /\ clock' \in Nat /\ keys[k].expires \in Nat
    BY <2>1, RowKept, TypeStep DEF TypeInv, TypeOK, KeyRow
  <2>3. /\ keys'[k].owner = keys[k].owner
        /\ keys'[k].permissions = keys[k].permissions
        /\ keys'[k].expires = keys[k].expires
    BY <2>1, RowKept
  <2> QED
    BY <1>1, <2>1, <2>2, <2>3 DEF ActsByKey, Exists
<1> QED
  BY <1>1 DEF ActsByKey

(* A new key continues the chain of the key it replaces, or begins one.    *)
LEMMA NewKeyChain ==
  ASSUME GrantInv, NEW r \in Requests, NEW j \in Keys, CreateKey(r, j)
  PROVE  ChainSound(j)'
<1> USE KeysAssumption
<1> PICK q : q = req[r]
  OBVIOUS
<1>1. /\ keys' = [keys EXCEPT ![j] = NewRow(q)]
      /\ origin' = [origin EXCEPT ![j] = IF q.old = None THEN j ELSE origin[q.old]]
      /\ q.pc = "insert" /\ ~Exists(j) /\ ActsByKey(q)
  BY DEF CreateKey, Fresh, GrantInv
<1>2. keys'[j] = NewRow(q) /\ (\A k \in Keys \ {j} : keys'[k] = keys[k])
  BY <1>1 DEF GrantInv, TypeInv, TypeOK
<1>3. origin'[j] = IF q.old = None THEN j ELSE origin[q.old]
  BY <1>1 DEF GrantInv, TypeInv, TypeOK
<1>4. CASE q.old = None
  BY <1>3, <1>4 DEF ChainSound
<1>5. CASE q.old # None
  <2> PICK k : k = q.old
    OBVIOUS
  <2>1. /\ k \in Keys /\ Exists(k) /\ q.user = keys[k].owner
        /\ q.permissions \subseteq keys[k].permissions
    BY <1>1, <1>5 DEF ActsByKey
  <2> PICK o : o = origin[k]
    OBVIOUS
  <2>2. /\ o \in Keys /\ Exists(o)
        /\ keys[k].owner = keys[o].owner
        /\ keys[k].permissions \subseteq keys[o].permissions
    BY <2>1 DEF GrantInv, ChainSound
  <2>3. o # j /\ keys'[o] = keys[o] /\ origin'[j] = o
    BY <1>1, <1>2, <1>3, <1>5, <2>2
  <2>4. NewRow(q).owner = q.user /\ NewRow(q).permissions = q.permissions
    BY DEF NewRow
  <2> QED
    BY <1>2, <2>1, <2>2, <2>3, <2>4 DEF ChainSound, Exists
<1> QED
  BY <1>4, <1>5

(* Every step keeps the chains.                                            *)
LEMMA ChainStep ==
  ASSUME GrantInv, [Next]_vars, NEW k \in Keys
  PROVE  ChainSound(k)'
<1>1. CASE Exists(k)
  <2> PICK o : o = origin[k]
    OBVIOUS
  <2>1. /\ o \in Keys /\ Exists(o)
        /\ keys[k].owner = keys[o].owner
        /\ keys[k].permissions \subseteq keys[o].permissions
    BY <1>1 DEF GrantInv, ChainSound
  <2>2. /\ keys'[k].owner = keys[k].owner /\ keys'[o].owner = keys[o].owner
        /\ keys'[k].permissions = keys[k].permissions
        /\ keys'[o].permissions = keys[o].permissions
        /\ origin'[k] = o
    BY <1>1, <2>1, RowKept DEF GrantInv
  <2> QED
    BY <2>1, <2>2 DEF ChainSound, Exists
<1>2. CASE ~Exists(k)
  <2>1. ASSUME NEW r \in Requests, NEW j \in Keys, CreateKey(r, j)
        PROVE  j = k \/ ~Exists(k)'
    BY <1>2, <2>1 DEF CreateKey, GrantInv, TypeInv, TypeOK, Exists
  <2>2. ASSUME NEW u \in Users, NEW j \in Keys, RevokeAPIKey(u, j)
        PROVE  ~Exists(k)'
    BY <1>2, <2>2 DEF RevokeAPIKey, RevokeKey, GrantInv, TypeInv, TypeOK, Exists
  <2>3. ASSUME NEW r \in Requests, Begin(r) \/ Step(r),
               \A j \in Keys : ~CreateKey(r, j)
        PROVE  keys' = keys
    BY <2>3 DEF Begin, Step, CreateAPIKey, RolloverAPIKey, CallWithKey,
                FindOldKey, CountActiveKeys, ValidateAPIKey, EndRequest
  <2>4. Tick \/ UNCHANGED vars => keys' = keys
    BY DEF Tick, vars
  <2>5. \/ ~Exists(k)'
        \/ \E r \in Requests : CreateKey(r, k)
    BY <1>2, <2>1, <2>2, <2>3, <2>4 DEF Next, Exists
  <2> QED
    BY <2>5, NewKeyChain DEF ChainSound
<1> QED
  BY <1>1, <1>2

(* A step of one request: it is enough to look at what becomes of it.      *)
LEMMA OneRequestActs ==
  ASSUME GrantInv, [Next]_vars, NEW r \in Requests, NEW q,
         req' = [req EXCEPT ![r] = q], ActsByKey(q)'
  PROVE  GrantInv'
<1>1. TypeInv' /\ \A k \in Keys : ChainSound(k)'
  BY TypeStep, ChainStep DEF GrantInv
<1>2. ASSUME NEW s \in Requests PROVE ActsByKey(req[s])'
  <2>1. CASE s = r
    <3>1. req'[s] = q
      BY <2>1 DEF GrantInv, TypeInv, TypeOK
    <3> QED
      BY <3>1 DEF ActsByKey
  <2>2. CASE s # r
    <3>1. PICK other : other = req[s]
      OBVIOUS
    <3>2. req'[s] = other /\ ActsByKey(other)
      BY <2>2, <3>1 DEF GrantInv, TypeInv, TypeOK
    <3>3. ActsByKey(other)'
      BY <3>2, ActsForEver DEF GrantInv
    <3> QED
      BY <3>2, <3>3 DEF ActsByKey
  <2> QED
    BY <2>1, <2>2
<1> QED
  BY <1>1, <1>2 DEF GrantInv

(* A request that begins has not looked at a key.                          *)
LEMMA BeginActs ==
  ASSUME GrantInv, NEW r \in Requests, Begin(r)
  PROVE  GrantInv'
<1>0. [Next]_vars
  BY DEF Next
<1>1. ASSUME NEW q, req' = [req EXCEPT ![r] = q], q.pc # "serving",
             q.pc \in {"find", "lookup"} \/ q.old = None,
             q.pc = "find" => q.user # None
      PROVE  GrantInv'
  BY <1>0, <1>1, OneRequestActs DEF ActsByKey
<1>2. ASSUME NEW u \in Users, NEW names \in SUBSET PermissionNames,
             NEW lifetime \in Lifetimes, CreateAPIKey(r, u, names, lifetime)
      PROVE  GrantInv'
  <2>1. PICK q : q = Request("count", "create", u, None, Normalized(names),
                             ParseExpiry(lifetime), FALSE)
    OBVIOUS
  <2>2. q.pc = "count" /\ q.old = None
    BY <2>1 DEF Request
  <2>3. req' = [req EXCEPT ![r] = q]
    BY <1>2, <2>1 DEF CreateAPIKey
  <2> QED
    BY <1>1, <2>2, <2>3
<1>3. ASSUME NEW u \in Users, NEW k \in Keys, RolloverAPIKey(r, u, k)
      PROVE  GrantInv'
  <2>1. PICK q : q = Request("find", "rollover", u, k, {}, 0, keys[k].revoked)
    OBVIOUS
  <2>2. q.pc = "find" /\ q.user = u /\ u # None
    BY <2>1, KeysAssumption DEF Request
  <2>3. req' = [req EXCEPT ![r] = q]
    BY <1>3, <2>1 DEF RolloverAPIKey
  <2> QED
    BY <1>1, <2>2, <2>3
<1>4. ASSUME NEW k \in Keys, NEW ps \in RouteRequires,
             CallWithKey(r, k, ps)
      PROVE  GrantInv'
  <2>1. PICK unfit : unfit = (keys[k].revoked \/ Expired(k))
    OBVIOUS
  <2>2. PICK q : q = Request("lookup", "call", None, k, ps, 0, unfit)
    OBVIOUS
  <2>3. req' = [req EXCEPT ![r] = q]
    BY <1>4, <2>1, <2>2 DEF CallWithKey
  <2>4. q.pc = "lookup"
    BY <2>2 DEF Request
  <2> QED
    BY <1>1, <2>3, <2>4
<1> QED
  BY <1>2, <1>3, <1>4 DEF Begin

(* The later steps: what a request goes on with, it has read in the row.   *)
LEMMA StepActs ==
  ASSUME GrantInv, NEW r \in Requests, Step(r)
  PROVE  GrantInv'
<1> USE KeysAssumption
<1> PICK q : q = req[r]
  OBVIOUS
<1>0. [Next]_vars /\ q \in RequestState /\ WellFormed(q) /\ ActsByKey(q)
  BY DEF Next, GrantInv, TypeInv, TypeOK
<1>1. ASSUME Reply(r) PROVE GrantInv'
  <2>1. ActsByKey(Idle)'
    BY DEF ActsByKey, Idle, Request
  <2> QED
    BY <1>0, <1>1, <2>1, OneRequestActs DEF Reply
<1>2. ASSUME NEW pc, NEW u, NEW ps, NEW expires,
             req' = [req EXCEPT ![r] = Request(pc, q.op, u, q.old, ps,
                                               expires, q.unfit)],
             ActsByKey(Request(pc, q.op, u, q.old, ps, expires, q.unfit))
      PROVE  GrantInv'
  <2>1. PICK next : next = Request(pc, q.op, u, q.old, ps, expires, q.unfit)
    OBVIOUS
  <2>2. ActsByKey(next)'
    BY <1>0, <1>2, <2>1, ActsForEver DEF GrantInv
  <2> QED
    BY <1>0, <1>2, <2>1, <2>2, OneRequestActs
<1>3. CASE FindOldKey(r)
  <2>1. CASE Reply(r)
    BY <1>1, <2>1
  <2>2. CASE ~Reply(r)
    <3> PICK k : k = q.old
      OBVIOUS
    <3>1. /\ q.pc = "find" /\ MayRollOver(keys[k], q.user)
          /\ req' = [req EXCEPT ![r] = Request("count", q.op, q.user, q.old,
                       keys[k].permissions, 0, q.unfit)]
      BY <1>3, <2>2 DEF FindOldKey
    <3>2. k \in Keys /\ q.user \in Users \cup {None}
      BY <1>0, <3>1 DEF WellFormed, RequestState
    <3>3. /\ keys[k].owner = q.user /\ clock >= keys[k].expires
      BY <3>1 DEF MayRollOver
    <3>4. q.user # None
      BY <1>0, <3>1 DEF ActsByKey
    <3>5. ActsByKey(Request("count", q.op, q.user, q.old, keys[k].permissions, 0,
                            q.unfit))
      BY <3>2, <3>3, <3>4 DEF ActsByKey, Request, Exists
    <3> QED
      BY <1>2, <3>1, <3>5
  <2> QED
    BY <2>1, <2>2
<1>4. CASE CountActiveKeys(r)
  <2>1. \/ Reply(r)
        \/ \E expires :
             req' = [req EXCEPT ![r] = Request("insert", q.op, q.user, q.old,
                                               q.permissions, expires, q.unfit)]
    BY <1>4 DEF CountActiveKeys, Goto, GrantInv, TypeInv, TypeOK
  <2>2. ASSUME NEW expires
        PROVE  ActsByKey(Request("insert", q.op, q.user, q.old, q.permissions,
                                 expires, q.unfit))
    BY <1>0, <1>4 DEF CountActiveKeys, ActsByKey, Request
  <2> QED
    BY <1>1, <1>2, <2>1, <2>2
<1>5. CASE ValidateAPIKey(r)
  <2>1. CASE Reply(r)
    BY <1>1, <2>1
  <2>2. CASE ~Reply(r)
    <3> PICK k : k = q.old
      OBVIOUS
    <3>1. /\ q.pc = "lookup" /\ Admits(keys[k], q.permissions)
          /\ req' = [req EXCEPT ![r] = Request("serving", q.op, keys[k].owner,
                       q.old, q.permissions, 0, q.unfit)]
      BY <1>5, <2>2 DEF ValidateAPIKey
    <3>2. k \in Keys /\ q.op = "call"
      BY <1>0, <3>1 DEF WellFormed
    <3>3. ActsByKey(Request("serving", q.op, keys[k].owner, q.old, q.permissions,
                            0, q.unfit))
      BY <3>1, <3>2 DEF ActsByKey, Request, Exists, Admits
    <3> QED
      BY <1>2, <3>1, <3>3
  <2> QED
    BY <2>1, <2>2
<1>6. CASE EndRequest(r)
  BY <1>1, <1>6 DEF EndRequest
<1>7. ASSUME NEW k \in Keys, CreateKey(r, k) PROVE GrantInv'
  BY <1>1, <1>7 DEF CreateKey
<1> QED
  BY <1>3, <1>4, <1>5, <1>6, <1>7 DEF Step
(* A step that leaves all requests alone.                                  *)
LEMMA ElsewhereActs ==
  ASSUME GrantInv, [Next]_vars, req' = req
  PROVE  GrantInv'
<1>1. ASSUME NEW r \in Requests PROVE ActsByKey(req[r])'
  <2>1. PICK q : q = req[r]
    OBVIOUS
  <2>2. ActsByKey(q)'
    BY <2>1, ActsForEver DEF GrantInv
  <2> QED
    BY <2>1, <2>2 DEF ActsByKey
<1> QED
  BY <1>1, TypeStep, ChainStep DEF GrantInv

LEMMA GrantAlways == Spec => []GrantInv
<1>1. Init => GrantInv
  <2> SUFFICES ASSUME Init PROVE GrantInv
    OBVIOUS
  <2>1. \A r \in Requests : req[r].pc = "idle"
    BY DEF Init, Idle, Request
  <2>2. \A k \in Keys : ~Exists(k)
    BY DEF Init, NoKey, Exists
  <2> QED
    BY <2>1, <2>2, TypeInit DEF GrantInv, ActsByKey, ChainSound
<1>2. GrantInv /\ [Next]_vars => GrantInv'
  <2> SUFFICES ASSUME GrantInv, [Next]_vars PROVE GrantInv'
    OBVIOUS
  <2>1. ASSUME NEW u \in Users, NEW k \in Keys, RevokeAPIKey(u, k)
        PROVE  req' = req
    BY <2>1 DEF RevokeAPIKey
  <2>2. Tick \/ UNCHANGED vars => req' = req
    BY DEF Tick, vars
  <2> QED
    BY <2>1, <2>2, BeginActs, StepActs, ElsewhereActs DEF Next
<1> QED
  BY <1>1, <1>2, PTL DEF Spec

(* A call that is being served acts for the user who created the first key *)
(* of the chain, and where its route requires a permission he asked for it *)
(* then (/wallet/create requires none): for chains of any length, and      *)
(* whatever was revoked or has expired meanwhile.                          *)
THEOREM ChainsGrantNothing == Spec => []ServedAsGranted
<1>1. GrantInv => ServedAsGranted
  <2> SUFFICES ASSUME GrantInv, NEW r \in Requests, req[r].pc = "serving"
               PROVE  /\ req[r].user = keys[origin[req[r].old]].owner
                      /\ req[r].permissions \subseteq keys[origin[req[r].old]].permissions
    BY DEF ServedAsGranted
  <2> PICK k : k = req[r].old
    OBVIOUS
  <2>1. /\ k \in Keys /\ Exists(k) /\ req[r].user = keys[k].owner
        /\ req[r].permissions \subseteq keys[k].permissions
    BY DEF GrantInv, ActsByKey
  <2>2. /\ keys[k].owner = keys[origin[k]].owner
        /\ keys[k].permissions \subseteq keys[origin[k]].permissions
    BY <2>1 DEF GrantInv, ChainSound
  <2> QED
    BY <2>1, <2>2
<1> QED
  BY <1>1, GrantAlways, PTL

(* While a rollover is under way the key it replaces admits nobody, but    *)
(* for the instant of its expiry, whatever other rollovers do.             *)
THEOREM RolledOverKeysAreDead == Spec => []OldKeyIsUnusable
<1>1. GrantInv => OldKeyIsUnusable
  <2> SUFFICES ASSUME GrantInv, NEW r \in Requests, req[r].op = "rollover",
                      req[r].pc \in {"count", "insert"}, Usable(req[r].old)
               PROVE  clock = keys[req[r].old].expires
    BY DEF OldKeyIsUnusable
  <2> PICK k : k = req[r].old
    OBVIOUS
  <2>1. k \in Keys
    BY DEF GrantInv, TypeInv, WellFormed
  <2>2. k # None
    BY <2>1, KeysAssumption
  <2>3. clock >= keys[k].expires
    BY <2>2 DEF GrantInv, ActsByKey
  <2>4. clock <= keys[k].expires /\ clock \in Nat /\ keys[k].expires \in Nat
    BY <2>1 DEF Usable, GrantInv, TypeInv, TypeOK, KeyRow
  <2> QED
    BY <2>3, <2>4
<1> QED
  BY <1>1, GrantAlways, PTL
=============================================================================
