---------------------------- MODULE IdentityRegistry ----------------------------
(***************************************************************************)
(* What the service promises about who is who: an account that is met for  *)
(* the first time gets an identity nobody else has, keeps it for ever, and *)
(* is never taken for anybody else.                                        *)
(***************************************************************************)
CONSTANTS Accounts, Identities, Nobody

VARIABLES
  owner,  \* account -> its identity, Nobody as long as it was never met
  acted   \* <<account, identity>>: the account was answered as the identity

vars == <<owner, acted>>

Init ==
  /\ owner = [a \in Accounts |-> Nobody]
  /\ acted = {}

Available(a, i) == owner[a] = Nobody /\ \A b \in Accounts : owner[b] # i

(* The account is met, and perhaps answered.                               *)
Meet(a, i) ==
  /\ owner[a] = i \/ Available(a, i)
  /\ owner' = [owner EXCEPT ![a] = i]
  /\ acted' \in {acted, acted \cup {<<a, i>>}}

Next == \E a \in Accounts, i \in Identities : Meet(a, i)

Spec == Init /\ [][Next]_vars
=============================================================================
