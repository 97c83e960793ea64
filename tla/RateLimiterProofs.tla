-------------------------- MODULE RateLimiterProofs --------------------------
(***************************************************************************)
(* Proofs about RateLimiter: that a request uses the limiter that the map  *)
(* holds for its address, and that dropping visitors gives an address no   *)
(* more than the one token bucket of TokenBucket, for any number of        *)
(* addresses and requests and any rates that satisfy LimiterAssumption.    *)
(***************************************************************************)
EXTENDS RateLimiter, TLAPS

(* A request in progress has a limiter, and not for longer than Stall.     *)
Bound(r) ==
  req[r] # Free =>
    /\ req[r].ip \in IPs
    /\ req[r].limiter \in Limiters
    /\ visitors[req[r].ip].limiter = req[r].limiter
    /\ req[r].since <= visitors[req[r].ip].lastSeen
    /\ clock - req[r].since <= Stall

(* A visitor has a limiter of its own, which was used last while a request *)
(* held it: no more than Stall after the visitor was last seen.            *)
Owned(ip) ==
  visitors[ip] # NoVisitor =>
    /\ visitors[ip].limiter \in Limiters
    /\ limiter[visitors[ip].limiter].last <= visitors[ip].lastSeen + Stall

LimiterInv ==
  /\ TypeOK
  /\ LimiterIsCurrent
  /\ \A r \in Requests : Bound(r)
  /\ \A ip \in IPs : Owned(ip)

LEMMA CapacityNat == Capacity \in Nat /\ Stall \in Nat /\ ExpireAfter \in Nat /\ LastTick \in Nat
                     /\ Token \in Nat /\ Token > 0 /\ Capacity + Stall <= ExpireAfter
<1>1. \A m, n \in Nat : m * n \in Nat
  OBVIOUS
<1> QED
  BY <1>1, LimiterAssumption DEF Capacity

LEMMA LimiterInit == Init => LimiterInv
<1> SUFFICES ASSUME Init PROVE LimiterInv
  OBVIOUS
<1>1. TypeOK
  BY CapacityNat DEF Init, TypeOK, NoVisitor, Visitor, Free, Holding
<1>2. LimiterIsCurrent
  BY DEF Init, LimiterIsCurrent, NoVisitor, Visitor
<1> QED
  BY <1>1, <1>2 DEF LimiterInv, Bound, Owned, Init

(* A visitor without a limiter is no visitor.                              *)
LEMMA NoLimiterNoVisitor ==
  ASSUME LimiterInv, NEW ip \in IPs
  PROVE  visitors[ip] = NoVisitor <=> visitors[ip].limiter = None
  BY LimiterAssumption DEF LimiterInv, Owned, NoVisitor, Visitor

(* The new limiter is used by nobody else.                                 *)
LEMMA NewVisitor ==
  ASSUME LimiterInv, NEW r \in Requests, NEW ip \in IPs, NEW l \in Limiters,
         req[r] = Free, visitors[ip] = NoVisitor, ~InUse(l), UNCHANGED <<clock, answered>>,
         limiter' = [limiter EXCEPT ![l] = [units |-> Capacity, last |-> clock]],
         visitors' = [visitors EXCEPT ![ip] = Visitor(l, clock)],
         req' = [req EXCEPT ![r] = Holding(ip, l, clock)]
  PROVE  LimiterInv'
<1> USE CapacityNat DEF LimiterInv
<1>a. /\ TypeOK /\ clock \in Nat
      /\ \A i \in IPs : visitors[i].limiter # l
      /\ \A q \in Requests : req[q].limiter # l
  BY DEF TypeOK, InUse
<1>b. /\ visitors'[ip] = Visitor(l, clock)
      /\ \A i \in IPs \ {ip} : visitors'[i] = visitors[i]
      /\ req'[r] = Holding(ip, l, clock)
      /\ \A q \in Requests \ {r} : req'[q] = req[q]
      /\ \A m \in Limiters \ {l} : limiter'[m] = limiter[m]
      /\ limiter'[l].last = clock
  BY <1>a DEF TypeOK
<1>1. TypeOK'
  BY <1>a DEF TypeOK, Visitor, Holding
<1>2. \A q \in Requests : Bound(q)'
  <2>1. ASSUME NEW q \in Requests, q # r, req[q] # Free
        PROVE  req[q].ip # ip
    BY <1>a, <2>1, LimiterAssumption DEF Bound, NoVisitor, Visitor
  <2> QED
    BY <1>a, <1>b, <2>1 DEF Bound, Holding, Visitor
<1>3. \A i \in IPs : Owned(i)'
  BY <1>a, <1>b DEF Owned, Visitor, NoVisitor
<1>4. LimiterIsCurrent'
  BY <1>a, <1>b, <1>2 DEF LimiterIsCurrent, Bound, Visitor
<1> QED
  BY <1>1, <1>2, <1>3, <1>4

LEMMA GetVisitorStep ==
  ASSUME LimiterInv, NEW r \in Requests, NEW ip \in IPs, GetVisitor(r, ip)
  PROVE  LimiterInv'
<1> USE CapacityNat DEF LimiterInv
<1>1. CASE visitors[ip] = NoVisitor
  BY <1>1, NewVisitor DEF GetVisitor
<1>2. CASE visitors[ip] # NoVisitor
  <2>1. /\ req[r] = Free /\ UNCHANGED <<limiter, clock, answered>>
        /\ visitors' = [visitors EXCEPT ![ip] = Visitor(visitors[ip].limiter, clock)]
        /\ req' = [req EXCEPT ![r] = Holding(ip, visitors[ip].limiter, clock)]
    BY <1>2 DEF GetVisitor, Seen
  <2>2. /\ clock \in Nat /\ visitors[ip].limiter \in Limiters
        /\ \A i \in IPs : visitors[i].lastSeen \in 0 .. clock
        /\ \A l \in Limiters : limiter[l].last \in 0 .. clock
    BY <1>2 DEF TypeOK, Owned
  <2>3. /\ visitors'[ip] = Visitor(visitors[ip].limiter, clock)
        /\ \A i \in IPs \ {ip} : visitors'[i] = visitors[i]
        /\ req'[r] = Holding(ip, visitors[ip].limiter, clock)
        /\ \A q \in Requests \ {r} : req'[q] = req[q]
    BY <2>1 DEF TypeOK
  <2>4. \A i \in IPs : visitors'[i].limiter = visitors[i].limiter
    BY <2>3 DEF Visitor
  <2>5. TypeOK'
    BY <2>1, <2>2 DEF TypeOK, Visitor, Holding
  <2>6. \A q \in Requests : Bound(q)'
    <3>1. Bound(r)'
      BY <2>1, <2>2, <2>3 DEF Bound, Holding, Visitor
    <3>2. ASSUME NEW q \in Requests \ {r}
          PROVE  Bound(q)'
      <4>1. CASE req[q].ip = ip
        BY <2>1, <2>2, <2>3, <4>1 DEF Bound, Visitor, TypeOK
      <4>2. CASE req[q].ip # ip
        BY <2>1, <2>3, <4>2 DEF Bound
      <4> QED
        BY <4>1, <4>2
    <3> QED
      BY <3>1, <3>2
  <2>7. \A i \in IPs : Owned(i)'
    <3>1. Owned(ip)'
      BY <2>1, <2>2, <2>3 DEF Owned, Visitor
    <3>2. \A i \in IPs \ {ip} : Owned(i)'
      BY <2>1, <2>3 DEF Owned
    <3> QED
      BY <3>1, <3>2
  <2>8. LimiterIsCurrent'
    BY <2>4, <2>6 DEF LimiterIsCurrent, Bound
  <2> QED
    BY <2>5, <2>6, <2>7, <2>8
<1> QED
  BY <1>1, <1>2

LEMMA LevelRange ==
  ASSUME TypeOK, NEW l \in Limiters
  PROVE  Level(l) \in 0 .. Capacity
<1>1. limiter[l].units \in 0 .. Capacity /\ limiter[l].last \in 0 .. clock /\ clock \in Nat
  BY CapacityNat DEF TypeOK
<1> QED
  BY <1>1, CapacityNat DEF Level

LEMMA AllowStep ==
  ASSUME LimiterInv, NEW r \in Requests, Allow(r)
  PROVE  LimiterInv'
<1> USE CapacityNat DEF LimiterInv
<1>1. PICK ip \in IPs, l \in Limiters :
        /\ ip = req[r].ip /\ l = req[r].limiter /\ visitors[ip].limiter = l
        /\ clock <= visitors[ip].lastSeen + Stall
        /\ clock \in Nat /\ visitors[ip].lastSeen \in Nat
  BY DEF Allow, Bound, TypeOK
<1>2. /\ req' = [req EXCEPT ![r] = Free] /\ UNCHANGED <<clock, visitors>>
      /\ answered' \in [IPs -> {"none", "admitted", "refused"}]
  BY <1>1 DEF Allow, TypeOK
<1>3. /\ limiter' \in [Limiters -> [units : 0 .. Capacity, last : 0 .. clock]]
      /\ \A m \in Limiters \ {l} : limiter'[m] = limiter[m]
      /\ limiter'[l].last \in {limiter[l].last, clock}
  <2>1. CASE UNCHANGED limiter
    BY <2>1 DEF TypeOK
  <2>2. CASE /\ Level(l) >= Token
             /\ limiter' = [limiter EXCEPT ![l] = [units |-> Level(l) - Token, last |-> clock]]
    <3>1. Level(l) - Token \in 0 .. Capacity
      BY <2>2, LevelRange
    <3> QED
      BY <1>1, <2>2, <3>1 DEF TypeOK
  <2> QED
    BY <1>1, <2>1, <2>2 DEF Allow
<1>4. TypeOK'
  BY <1>2, <1>3 DEF TypeOK, Free, Holding
<1>5. \A q \in Requests : Bound(q)'
  BY <1>2 DEF Bound, TypeOK
<1>6. ASSUME NEW i \in IPs
      PROVE  Owned(i)'
  <2>1. CASE visitors[i].limiter = l
    <3>1. i = ip
      BY <1>1, <2>1, LimiterAssumption DEF LimiterIsCurrent
    <3> QED
      BY <1>1, <1>2, <1>3, <3>1 DEF Owned
  <2>2. CASE visitors[i].limiter # l
    BY <1>2, <1>3, <2>2 DEF Owned
  <2> QED
    BY <2>1, <2>2
<1>7. LimiterIsCurrent'
  BY <1>2 DEF LimiterIsCurrent, TypeOK
<1> QED
  BY <1>4, <1>5, <1>6, <1>7

(* A visitor whose limiter is in use is not stale.                         *)
LEMMA CleanupStep ==
  ASSUME LimiterInv, CleanupVisitors
  PROVE  LimiterInv'
<1> USE CapacityNat DEF LimiterInv
<1>1. /\ UNCHANGED <<clock, limiter, req, answered>> /\ clock \in Nat
      /\ \A ip \in IPs : visitors'[ip] = IF Stale(ip) THEN NoVisitor ELSE visitors[ip]
  BY DEF CleanupVisitors, TypeOK
<1>2. TypeOK'
  BY <1>1 DEF CleanupVisitors, TypeOK, NoVisitor, Visitor
<1>3. ASSUME NEW r \in Requests, req[r] # Free
      PROVE  req[r].ip \in IPs /\ visitors'[req[r].ip] = visitors[req[r].ip]
  <2>1. /\ req[r].ip \in IPs /\ req[r].since <= visitors[req[r].ip].lastSeen
        /\ clock - req[r].since <= Stall
        /\ req[r].since \in Nat /\ visitors[req[r].ip].lastSeen \in Nat
    BY <1>3 DEF Bound, TypeOK
  <2> QED
    BY <1>1, <2>1 DEF Stale
<1>4. \A r \in Requests : Bound(r)'
  BY <1>1, <1>3 DEF Bound
<1>5. \A ip \in IPs : Owned(ip)'
  BY <1>1 DEF Owned
<1>6. LimiterIsCurrent'
  BY <1>1, <1>3 DEF LimiterIsCurrent, NoVisitor, Visitor
<1> QED
  BY <1>2, <1>4, <1>5, <1>6

LEMMA ClockStep ==
  ASSUME LimiterInv, Tick \/ UNCHANGED vars
  PROVE  LimiterInv'
<1> USE CapacityNat DEF LimiterInv
<1>1. UNCHANGED <<limiter, visitors, req, answered>> /\ clock \in Nat
  BY DEF Tick, vars, TypeOK
<1>2. CASE UNCHANGED clock
  BY <1>1, <1>2 DEF TypeOK, LimiterIsCurrent, Bound, Owned
<1>3. CASE Tick
  <2>1. clock' = clock + 1 /\ clock' \in 0 .. LastTick
    BY <1>1, <1>3 DEF Tick, TypeOK
  <2>2. TypeOK'
    BY <1>1, <2>1 DEF TypeOK
  <2>3. ASSUME NEW r \in Requests
        PROVE  Bound(r)'
    <3>1. req[r] # Free => clock - req[r].since < Stall /\ req[r].since \in Nat
      BY <1>3 DEF Tick, TypeOK
    <3> QED
      BY <1>1, <2>1, <3>1 DEF Bound
  <2> QED
    BY <1>1, <2>2, <2>3 DEF LimiterIsCurrent, Owned
<1> QED
  BY <1>2, <1>3 DEF vars

LEMMA LimiterStep == LimiterInv /\ [Next]_vars => LimiterInv'
  BY GetVisitorStep, AllowStep, CleanupStep, ClockStep DEF Next

LEMMA LimiterAlways == Spec => []LimiterInv
  BY LimiterInit, LimiterStep, PTL DEF Spec

(* A request uses the limiter that the map holds for its address, and no   *)
(* two addresses share one, although the sweep runs in between.            *)
THEOREM LimiterStaysCurrent == Spec => []LimiterIsCurrent
<1>1. LimiterInv => LimiterIsCurrent
  BY DEF LimiterInv
<1> QED
  BY <1>1, LimiterAlways, PTL

(* The clock, the map, the limiters and the requests are well typed.       *)
THEOREM LimiterTypeCorrect == Spec => []TypeOK
<1>1. LimiterInv => TypeOK
  BY DEF LimiterInv
<1> QED
  BY <1>1, LimiterAlways, PTL

-----------------------------------------------------------------------------
(* Refinement.                                                             *)

BucketOf(ip) ==
  IF visitors[ip] = NoVisitor THEN Capacity ELSE Level(visitors[ip].limiter)

(* Nothing is seen of getVisitor: the limiter of a newcomer is full.       *)
LEMMA GetVisitorStutters ==
  ASSUME LimiterInv, NEW r \in Requests, NEW ip \in IPs, GetVisitor(r, ip)
  PROVE  UNCHANGED <<BucketSeen, answered>>
<1> USE CapacityNat DEF LimiterInv
<1>1. /\ UNCHANGED <<clock, answered>> /\ clock \in Nat
      /\ \A i \in IPs \ {ip} : visitors'[i] = visitors[i]
  BY DEF GetVisitor, TypeOK
<1>2. CASE visitors[ip] # NoVisitor
  <2>1. UNCHANGED limiter /\ visitors'[ip] = Visitor(visitors[ip].limiter, clock)
    BY <1>2 DEF GetVisitor, Seen, TypeOK
  <2>2. visitors'[ip] # NoVisitor
    BY <1>2, <2>1, LimiterAssumption DEF Owned, NoVisitor, Visitor
  <2>3. \A l : Level(l)' = Level(l)
    BY <1>1, <2>1 DEF Level
  <2>4. BucketOf(ip)' = BucketOf(ip)
    BY <1>2, <2>1, <2>2, <2>3 DEF BucketOf, Visitor
  <2>5. \A i \in IPs \ {ip} : BucketOf(i)' = BucketOf(i)
    BY <1>1, <2>3 DEF BucketOf
  <2> QED
    BY <1>1, <2>4, <2>5 DEF BucketSeen, BucketOf
<1>3. CASE visitors[ip] = NoVisitor
  <2>1. PICK l \in Limiters :
          /\ ~InUse(l)
          /\ limiter' = [limiter EXCEPT ![l] = [units |-> Capacity, last |-> clock]]
          /\ visitors' = [visitors EXCEPT ![ip] = Visitor(l, clock)]
    BY <1>3 DEF GetVisitor
  <2>2. /\ limiter'[l] = [units |-> Capacity, last |-> clock]
        /\ \A m \in Limiters \ {l} : limiter'[m] = limiter[m]
        /\ visitors'[ip] = Visitor(l, clock)
        /\ visitors'[ip] # NoVisitor
    BY <2>1, LimiterAssumption DEF TypeOK, NoVisitor, Visitor
  <2>3. Level(l)' = Capacity
    BY <1>1, <2>2 DEF Level
  <2>4. BucketOf(ip)' = BucketOf(ip)
    BY <1>3, <2>2, <2>3 DEF BucketOf, Visitor
  <2>5. ASSUME NEW i \in IPs \ {ip}
        PROVE  BucketOf(i)' = BucketOf(i)
    <3>1. CASE visitors[i] = NoVisitor
      BY <1>1, <3>1 DEF BucketOf
    <3>2. CASE visitors[i] # NoVisitor
      <4>1. visitors[i].limiter \in Limiters \ {l}
        BY <2>1, <3>2 DEF Owned, InUse
      <4>2. Level(visitors[i].limiter)' = Level(visitors[i].limiter)
        BY <1>1, <2>2, <4>1 DEF Level
      <4> QED
        BY <1>1, <3>2, <4>2 DEF BucketOf
    <3> QED
      BY <3>1, <3>2
  <2> QED
    BY <1>1, <2>4, <2>5 DEF BucketSeen, BucketOf
<1> QED
  BY <1>2, <1>3

(* A visitor is dropped when its limiter has long been full.               *)
LEMMA CleanupStutters ==
  ASSUME LimiterInv, CleanupVisitors
  PROVE  UNCHANGED <<BucketSeen, answered>>
<1> USE CapacityNat DEF LimiterInv
<1>1. /\ UNCHANGED <<clock, limiter, req, answered>> /\ clock \in Nat
      /\ \A ip \in IPs : visitors'[ip] = IF Stale(ip) THEN NoVisitor ELSE visitors[ip]
  BY DEF CleanupVisitors, TypeOK
<1>2. ASSUME NEW ip \in IPs
      PROVE  BucketOf(ip)' = BucketOf(ip)
  <2>1. CASE Stale(ip) /\ visitors[ip] # NoVisitor
    <3>1. PICK l \in Limiters : l = visitors[ip].limiter
      BY <2>1 DEF Owned
    <3>2. /\ limiter[l].units \in Nat /\ limiter[l].last \in Nat
          /\ limiter[l].last <= visitors[ip].lastSeen + Stall
          /\ visitors[ip].lastSeen \in Nat
          /\ clock - visitors[ip].lastSeen > ExpireAfter
      BY <2>1, <3>1 DEF Owned, TypeOK, Stale
    <3>3. Level(l) = Capacity
      BY <1>1, <3>2 DEF Level
    <3> QED
      BY <1>1, <2>1, <3>1, <3>3 DEF BucketOf
  <2>2. CASE ~(Stale(ip) /\ visitors[ip] # NoVisitor)
    <3>1. visitors'[ip] = visitors[ip]
      BY <1>1, <2>2
    <3> QED
      BY <1>1, <3>1 DEF BucketOf, Level
  <2> QED
    BY <2>1, <2>2
<1> QED
  BY <1>1, <1>2 DEF BucketSeen, BucketOf

(* Allow takes a token from the bucket of the address, or refuses it.      *)
LEMMA AllowRefines ==
  ASSUME LimiterInv, NEW r \in Requests, Allow(r)
  PROVE  Bucket!Next
<1> USE CapacityNat DEF LimiterInv
<1>1. PICK ip \in IPs, l \in Limiters :
        /\ ip = req[r].ip /\ l = req[r].limiter /\ visitors[ip].limiter = l
        /\ UNCHANGED <<clock, visitors>> /\ clock \in Nat
        /\ visitors[ip] # NoVisitor
  BY LimiterAssumption DEF Allow, Bound, TypeOK, NoVisitor, Visitor
<1>2. BucketSeen = [i \in IPs |-> BucketOf(i)] /\ BucketSeen[ip] = Level(l)
  BY <1>1 DEF BucketSeen, BucketOf
<1>3. CASE /\ Level(l) >= Token
           /\ limiter' = [limiter EXCEPT ![l] = [units |-> Level(l) - Token, last |-> clock]]
           /\ answered' = [answered EXCEPT ![ip] = "admitted"]
  <2>1. /\ limiter'[l] = [units |-> Level(l) - Token, last |-> clock]
        /\ \A m \in Limiters \ {l} : limiter'[m] = limiter[m]
    BY <1>3 DEF TypeOK
  <2>2. Level(l) \in 0 .. Capacity
    BY LevelRange
  <2>3. Level(l)' = Level(l) - Token
    <3>1. PICK v \in 0 .. Capacity : v = Level(l)
      BY <2>2
    <3>2. limiter'[l].units = v - Token /\ limiter'[l].last = clock /\ clock' = clock
      BY <1>1, <2>1, <3>1
    <3>3. Level(l)' = v - Token
      BY <1>1, <1>3, <3>1, <3>2 DEF Level
    <3> QED
      BY <3>1, <3>3
  <2>4. ASSUME NEW i \in IPs \ {ip}
        PROVE  BucketOf(i)' = BucketOf(i)
    <3>1. CASE visitors[i] = NoVisitor
      BY <1>1, <3>1 DEF BucketOf
    <3>2. CASE visitors[i] # NoVisitor
      <4>1. visitors[i].limiter \in Limiters \ {l}
        BY <1>1, <3>2, LimiterAssumption DEF Owned, LimiterIsCurrent
      <4>2. Level(visitors[i].limiter)' = Level(visitors[i].limiter)
        BY <1>1, <2>1, <4>1 DEF Level
      <4> QED
        BY <1>1, <3>2, <4>2 DEF BucketOf
    <3> QED
      BY <3>1, <3>2
  <2>5. BucketOf(ip)' = Level(l) - Token
    BY <1>1, <2>3 DEF BucketOf
  <2>6. BucketSeen' = [BucketSeen EXCEPT ![ip] = BucketSeen[ip] - Token]
    BY <1>2, <2>4, <2>5 DEF BucketSeen, BucketOf
  <2> QED
    BY <1>2, <1>3, <2>6 DEF Bucket!Next, Bucket!Admit
<1>4. CASE /\ Level(l) < Token /\ UNCHANGED limiter
           /\ answered' = [answered EXCEPT ![ip] = "refused"]
  <2>1. BucketSeen' = BucketSeen
    BY <1>1, <1>4 DEF BucketSeen, Level
  <2> QED
    BY <1>2, <1>4, <2>1 DEF Bucket!Next, Bucket!Refuse
<1> QED
  BY <1>1, <1>3, <1>4 DEF Allow

LEMMA TickRefines ==
  ASSUME LimiterInv, Tick
  PROVE  Bucket!Tick
<1> USE CapacityNat DEF LimiterInv
<1>1. /\ UNCHANGED <<limiter, visitors, answered>> /\ clock \in Nat /\ clock' = clock + 1
  BY DEF Tick, TypeOK
<1>2. ASSUME NEW l \in Limiters
      PROVE  Level(l)' = IF Level(l) < Capacity THEN Level(l) + 1 ELSE Capacity
  <2>1. limiter[l].units \in 0 .. Capacity /\ limiter[l].last \in 0 .. clock
    BY DEF TypeOK
  <2> QED
    BY <1>1, <2>1 DEF Level
<1>3. ASSUME NEW ip \in IPs
      PROVE  BucketOf(ip)' = IF BucketOf(ip) < Capacity THEN BucketOf(ip) + 1 ELSE Capacity
  BY <1>1, <1>2 DEF BucketOf, Owned
<1>4. \A ip \in IPs : BucketSeen[ip] = BucketOf(ip)
  BY DEF BucketSeen, BucketOf
<1>5. BucketSeen' = [ip \in IPs |-> IF BucketSeen[ip] < Capacity
                                     THEN BucketSeen[ip] + 1 ELSE Capacity]
  BY <1>3, <1>4 DEF BucketSeen, BucketOf
<1> QED
  BY <1>1, <1>5 DEF Bucket!Tick

LEMMA BucketStep ==
  ASSUME LimiterInv, [Next]_vars
  PROVE  [Bucket!Next]_(Bucket!vars)
<1>1. CASE UNCHANGED vars
  BY <1>1 DEF vars, Bucket!vars, BucketSeen, Level
<1> QED
  BY <1>1, GetVisitorStutters, CleanupStutters, AllowRefines, TickRefines
     DEF Next, Bucket!vars, Bucket!Next

(* To the outside an address has one token bucket all the time: the sweep  *)
(* that forgets it gives it nothing, and no race with it does.             *)
THEOREM LimiterImplementsTokenBucket == Spec => ImplementsTokenBucket
<1>1. Init => Bucket!Init
  BY DEF Init, Bucket!Init, BucketSeen
<1>2. LimiterInv /\ [Next]_vars => [Bucket!Next]_(Bucket!vars)
  BY BucketStep
<1> QED
  BY LimiterAlways, <1>1, <1>2, PTL DEF Spec, ImplementsTokenBucket, Bucket!Spec
=============================================================================
