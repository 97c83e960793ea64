------------------------------ MODULE RateLimiter ------------------------------
(***************************************************************************)
(* The middleware that limits requests by address.  A map guarded by a     *)
(* mutex holds a limiter for each address; a request fetches it under the  *)
(* mutex (getVisitor) and uses it after the mutex is released (Allow),     *)
(* while a background loop drops the limiters of addresses that have not   *)
(* been seen for three minutes.  The limiter is rate.Limiter of            *)
(* golang.org/x/time: it keeps the units that were left at its last use    *)
(* and adds, when it is used again, what the time since then has brought.  *)
(***************************************************************************)
EXTENDS Integers

CONSTANTS
  IPs,
  Requests,     \* goroutines that may serve requests at the same time
  Limiters,     \* limiter objects
  Burst,        \* tokens in a new limiter, RATE_BURST
  Token,        \* ticks that bring one token, so that one tick is 1 unit
  ExpireAfter,  \* ticks of three minutes
  Stall,        \* ticks that may pass between getVisitor and Allow
  LastTick,     \* bound of the model on the clock
  None

Capacity == Burst * Token

(* RATE_LIMIT and RATE_BURST are such that three minutes fill a bucket,    *)
(* and a goroutine does not stop for that long between two statements: the *)
(* code relies on both and checks neither.                                 *)
ASSUME LimiterAssumption ==
  /\ Burst \in Nat /\ Token \in Nat \ {0}
  /\ ExpireAfter \in Nat /\ Stall \in Nat /\ LastTick \in Nat
  /\ Capacity + Stall <= ExpireAfter
  /\ None \notin Limiters \cup IPs

VARIABLES
  clock,
  limiter,   \* limiter object -> its units at its last use
  visitors,  \* address -> its limiter and when it was last seen
  req,       \* goroutine -> the limiter it has fetched
  answered   \* address -> how its last request was answered

vars == <<clock, limiter, visitors, req, answered>>

Visitor(l, seen) == [limiter |-> l, lastSeen |-> seen]
NoVisitor == Visitor(None, 0)

Holding(ip, l, since) == [ip |-> ip, limiter |-> l, since |-> since]
Free == Holding(None, None, 0)

Init ==
  /\ clock = 0
  /\ limiter = [l \in Limiters |-> [units |-> Capacity, last |-> 0]]
  /\ visitors = [ip \in IPs |-> NoVisitor]
  /\ req = [r \in Requests |-> Free]
  /\ answered = [ip \in IPs |-> "none"]

InUse(l) ==
  \/ \E ip \in IPs : visitors[ip].limiter = l
  \/ \E r \in Requests : req[r].limiter = l

(* Units in the limiter now (rate.Limiter.advance).                        *)
Level(l) ==
  LET units == limiter[l].units + (clock - limiter[l].last) IN
  IF units < Capacity THEN units ELSE Capacity

(* Mutants: lastSeen is only set when the visitor is added; the time at    *)
(* which the visitor is to be dropped is stored instead.                   *)
SeenOnce(ip) == visitors[ip].lastSeen
SeenUntil(ip) == clock + ExpireAfter

Seen(ip) == clock

(* getVisitor runs under the mutex, so that it is one step.                *)
GetVisitor(r, ip) ==
  /\ req[r] = Free
  /\ \/ /\ visitors[ip] # NoVisitor
        /\ visitors' = [visitors EXCEPT ![ip] = Visitor(@.limiter, Seen(ip))]
        /\ req' = [req EXCEPT ![r] = Holding(ip, visitors[ip].limiter, clock)]
        /\ UNCHANGED limiter
     \/ /\ visitors[ip] = NoVisitor
        /\ \E l \in Limiters :
             /\ ~InUse(l)
             /\ limiter' = [limiter EXCEPT ![l] = [units |-> Capacity, last |-> clock]]
             /\ visitors' = [visitors EXCEPT ![ip] = Visitor(l, clock)]
             /\ req' = [req EXCEPT ![r] = Holding(ip, l, clock)]
  /\ UNCHANGED <<clock, answered>>

(* rate.Limiter has a mutex of its own: Allow is one step.                 *)
Allow(r) ==
  LET l == req[r].limiter
      ip == req[r].ip IN
  /\ req[r] # Free
  /\ req' = [req EXCEPT ![r] = Free]
  /\ \/ /\ Level(l) >= Token
        /\ limiter' = [limiter EXCEPT ![l] = [units |-> Level(l) - Token, last |-> clock]]
        /\ answered' = [answered EXCEPT ![ip] = "admitted"]
     \/ /\ Level(l) < Token
        /\ answered' = [answered EXCEPT ![ip] = "refused"]
        /\ UNCHANGED limiter
  /\ UNCHANGED <<clock, visitors>>

(* Mutant: every visitor is dropped.                                       *)
StaleAlways(ip) == ip \in IPs
Stale(ip) == clock - visitors[ip].lastSeen > ExpireAfter

(* The loop sleeps for a minute and then sweeps the map under the mutex;   *)
(* the model lets it wake up at any time.                                  *)
CleanupVisitors ==
  /\ visitors' = [ip \in IPs |-> IF Stale(ip) THEN NoVisitor ELSE visitors[ip]]
  /\ UNCHANGED <<clock, limiter, req, answered>>

Tick ==
  /\ clock < LastTick
  /\ \A r \in Requests : req[r] # Free => clock - req[r].since < Stall
  /\ clock' = clock + 1
  /\ UNCHANGED <<limiter, visitors, req, answered>>

Next ==
  \/ \E r \in Requests : Allow(r) \/ \E ip \in IPs : GetVisitor(r, ip)
  \/ CleanupVisitors
  \/ Tick

Spec == Init /\ [][Next]_vars

-----------------------------------------------------------------------------
(* Properties.                                                             *)

(* Type invariant of the map and of the requests that hold a limiter.      *)
TypeOK ==
  /\ clock \in 0 .. LastTick
  /\ limiter \in [Limiters -> [units : 0 .. Capacity, last : 0 .. clock]]
  /\ visitors \in [IPs -> [limiter : Limiters \cup {None}, lastSeen : 0 .. clock]]
  /\ req \in [Requests -> [ip : IPs \cup {None}, limiter : Limiters \cup {None},
                           since : 0 .. clock]]
  /\ answered \in [IPs -> {"none", "admitted", "refused"}]

(* A request uses the limiter that the map holds for its address, although *)
(* the mutex is released in between and the sweep may run, and no limiter  *)
(* serves two addresses.                                                   *)
LimiterIsCurrent ==
  /\ \A r \in Requests : req[r] # Free => visitors[req[r].ip].limiter = req[r].limiter
  /\ \A i, j \in IPs :
       visitors[i].limiter = visitors[j].limiter =>
         i = j \/ visitors[i].limiter = None

(* An address that the sweep forgets gains nothing: to the outside it has  *)
(* had one bucket all the time, and it is refused only when that is empty. *)
BucketSeen ==
  [ip \in IPs |-> IF visitors[ip] = NoVisitor THEN Capacity
                  ELSE Level(visitors[ip].limiter)]

Bucket == INSTANCE TokenBucket WITH bucket <- BucketSeen, answered <- answered
ImplementsTokenBucket == Bucket!Spec
=============================================================================
