------------------------------ MODULE TokenBucket ------------------------------
(***************************************************************************)
(* What the rate limiter promises: every address has a bucket of its own   *)
(* for ever, which fills by one unit at each tick of the clock; a request  *)
(* is admitted when there is a token in it, and only then.                 *)
(***************************************************************************)
EXTENDS Integers

CONSTANTS
  IPs,
  Capacity,  \* units in a full bucket
  Token      \* units of one token

VARIABLES
  bucket,   \* address -> units in its bucket
  answered  \* address -> how its last request was answered

vars == <<bucket, answered>>

Init ==
  /\ bucket = [ip \in IPs |-> Capacity]
  /\ answered = [ip \in IPs |-> "none"]

Admit(ip) ==
  /\ bucket[ip] >= Token
  /\ bucket' = [bucket EXCEPT ![ip] = @ - Token]
  /\ answered' = [answered EXCEPT ![ip] = "admitted"]

Refuse(ip) ==
  /\ bucket[ip] < Token
  /\ answered' = [answered EXCEPT ![ip] = "refused"]
  /\ UNCHANGED bucket

Tick ==
  /\ bucket' = [ip \in IPs |->
                  IF bucket[ip] < Capacity THEN bucket[ip] + 1 ELSE Capacity]
  /\ UNCHANGED answered

Next == Tick \/ \E ip \in IPs : Admit(ip) \/ Refuse(ip)

Spec == Init /\ [][Next]_vars
=============================================================================
