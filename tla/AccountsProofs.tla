---------------------------- MODULE AccountsProofs ----------------------------
(***************************************************************************)
(* Proofs about Accounts: types, that a Google account is always the same  *)
(* user, that handlers serve the user who logged in, that users and tokens *)
(* implement IdentityRegistry, for any number of accounts, requests and    *)
(* faults; and how far the race for a user's wallet goes.                  *)
(***************************************************************************)
EXTENDS Accounts, FiniteSetTheorems, WellFoundedInduction, TLAPS

PC == {"idle", "find", "create", "auth", "check", "insert", "show"}
Ops == {"none", "login", "create", "show"}
Requesting == [pc : PC, op : Ops, google : GoogleAccounts \cup {None},
               user : UserIDs \cup {None}, expires : Nat, fresh : BOOLEAN]
Row == [id : UserIDs, google : GoogleAccounts, email : {Email[g] : g \in GoogleAccounts}]
Issued == [google : GoogleAccounts, user : UserIDs, expires : Nat]

(* What a step of the code relies on: a request that looks for a user has  *)
(* an account, one with a token has the account and the user that a login  *)
(* was answered with, and one that is served had a valid token when it     *)
(* began.                                                                  *)
RowOf(g, u) == \E row \in users : row.id = u /\ row.google = g
Granted(g, u) == \E t \in tokens : t.user = u /\ t.google = g

Sound(q) ==
  /\ q.pc \in {"find", "create"} => q.google \in GoogleAccounts
  /\ q.pc \in {"auth", "check", "insert", "show"} => Granted(q.google, q.user)
  /\ q.pc = "auth" /\ clock < q.expires => q.fresh
  /\ q.pc \in {"check", "insert", "show"} => q.fresh

RowsUnique ==
  \A row, other \in users : row.id = other.id \/ row.google = other.google => row = other

TokensOfRows == \A t \in tokens : RowOf(t.google, t.user)

IdentityInv ==
  /\ TypeOK
  /\ RowsUnique
  /\ TokensOfRows
  /\ \A r \in Requests : Sound(req[r])

LEMMA TypeOKIs ==
  TypeOK <=> /\ clock \in 0 .. LastTick
             /\ users \subseteq Row
             /\ wallets \subseteq [id : WalletIDs, user : UserIDs, number : Numbers]
             /\ req \in [Requests -> Requesting]
             /\ tokens \subseteq Issued
  BY DEF TypeOK, Row, Requesting, Issued, PC, Ops

LEMMA IdentityInit == Init => IdentityInv
<1> SUFFICES ASSUME Init PROVE IdentityInv
  OBVIOUS
<1>1. Idle \in Requesting /\ Sound(Idle)
  BY DEF Idle, Request, NoToken, Token, Requesting, PC, Ops, Sound
<1>2. TypeOK
  BY <1>1, TypeOKIs, AccountsAssumption DEF Init
<1> QED
  BY <1>1, <1>2 DEF Init, IdentityInv, RowsUnique, TokensOfRows

(* A step that gives goroutine r the request q, and only adds to users and *)
(* to tokens.                                                              *)
LEMMA RequestSet ==
  ASSUME IdentityInv, NEW r \in Requests, NEW q \in Requesting,
         req' = [req EXCEPT ![r] = q],
         clock' = clock,
         users \subseteq users',
         users' \subseteq Row,
         RowsUnique',
         wallets' \subseteq [id : WalletIDs, user : UserIDs, number : Numbers],
         tokens \subseteq tokens',
         tokens' \subseteq Issued,
         \A t \in tokens' : t \in tokens \/ RowOf(t.google, t.user)',
         Sound(q)'
  PROVE  IdentityInv'
<1> USE DEF IdentityInv, RowsUnique, TokensOfRows
<1>1. TypeOK
  OBVIOUS
<1>2. req' \in [Requests -> Requesting] /\ clock' \in 0 .. LastTick
  BY <1>1, TypeOKIs
<1>3. TypeOK'
  BY <1>2 DEF TypeOK, Row, Requesting, Issued, PC, Ops
<1>4. ASSUME NEW g, NEW u
      PROVE  /\ RowOf(g, u) => RowOf(g, u)'
             /\ Granted(g, u) => Granted(g, u)'
  BY DEF RowOf, Granted
<1>5. TokensOfRows'
  BY <1>4
<1>6. ASSUME NEW s \in Requests
      PROVE  Sound(req[s])'
  <2>1. CASE s = r
    <3>1. req'[s] = q
      BY <2>1, <1>1, TypeOKIs
    <3> QED
      BY <3>1 DEF Sound, Granted
  <2>2. CASE s # r
    <3>1. req'[s] = req[s] /\ Sound(req[s])
      BY <2>2, <1>1, TypeOKIs
    <3>2. PICK p \in Requesting : p = req[s] /\ p = req'[s] /\ Sound(p)
      BY <1>1, <3>1, TypeOKIs
    <3> QED
      BY <1>4, <3>2 DEF Sound
  <2> QED
    BY <2>1, <2>2
<1> QED
  BY <1>3, <1>5, <1>6

(* What Goto makes of a request; Reply makes Idle of it.                   *)
LEMMA GotoRequest ==
  ASSUME NEW q \in Requesting, NEW pc \in PC
  PROVE  LET n == Request(pc, q.op, q, q.fresh) IN
         /\ n \in Requesting
         /\ n.pc = pc /\ n.google = q.google /\ n.user = q.user
         /\ n.expires = q.expires /\ n.fresh = q.fresh
<1>1. /\ q.op \in Ops /\ q.google \in GoogleAccounts \cup {None}
      /\ q.user \in UserIDs \cup {None} /\ q.expires \in Nat /\ q.fresh \in BOOLEAN
  BY DEF Requesting
<1> QED
  BY <1>1 DEF Request, Requesting

LEMMA IdleRequest == Idle \in Requesting /\ Idle.pc = "idle" /\ Sound(Idle) /\ Sound(Idle)'
  BY DEF Idle, Request, NoToken, Token, Requesting, PC, Ops, Sound

(* A request that is answered; its step may have added a wallet.           *)
LEMMA ReplyStep ==
  ASSUME IdentityInv, NEW r \in Requests, Reply(r), UNCHANGED <<clock, users, tokens>>,
         wallets' \subseteq [id : WalletIDs, user : UserIDs, number : Numbers]
  PROVE  IdentityInv'
<1>1. req' = [req EXCEPT ![r] = Idle]
  BY DEF Reply
<1>2. users \subseteq Row /\ tokens \subseteq Issued /\ RowsUnique'
  BY TypeOKIs DEF IdentityInv, RowsUnique
<1> QED
  BY <1>1, <1>2, IdleRequest, RequestSet

(* A request that goes on, and changes no table.                           *)
LEMMA GotoStep ==
  ASSUME IdentityInv, NEW r \in Requests, NEW pc \in PC, Goto(r, pc),
         UNCHANGED <<clock, users, wallets, tokens>>,
         pc \in {"find", "create"} => req[r].google \in GoogleAccounts,
         pc \in {"check", "insert", "show"} =>
           Granted(req[r].google, req[r].user) /\ req[r].fresh,
         pc # "auth"
  PROVE  IdentityInv'
<1> DEFINE q == Request(pc, req[r].op, req[r], req[r].fresh)
<1>1. req[r] \in Requesting
  BY TypeOKIs DEF IdentityInv
<1>2. PICK n \in Requesting : /\ n = q /\ n.pc = pc
                              /\ n.google = req[r].google /\ n.user = req[r].user
                              /\ n.expires = req[r].expires /\ n.fresh = req[r].fresh
  BY <1>1, GotoRequest
<1>3. req' = [req EXCEPT ![r] = n]
  BY <1>2 DEF Goto
<1>4. Sound(n)'
  BY <1>2 DEF Sound, Granted
<1>5. /\ users \subseteq Row /\ tokens \subseteq Issued /\ RowsUnique'
      /\ wallets \subseteq [id : WalletIDs, user : UserIDs, number : Numbers]
  BY TypeOKIs DEF IdentityInv, RowsUnique
<1> QED
  BY <1>3, <1>4, <1>5, RequestSet
-----------------------------------------------------------------------------
(* The steps.                                                              *)

LEMMA LoginStep ==
  ASSUME IdentityInv, NEW r \in Requests,
         (\E g \in GoogleAccounts : GoogleCallback(r, g)) \/ FindUser(r)
  PROVE  IdentityInv'
<1>a. /\ users \subseteq Row /\ tokens \subseteq Issued /\ req[r] \in Requesting
      /\ wallets \subseteq [id : WalletIDs, user : UserIDs, number : Numbers]
      /\ RowsUnique /\ Sound(req[r]) /\ clock \in Nat
  BY TypeOKIs, AccountsAssumption DEF IdentityInv
<1>1. ASSUME NEW g \in GoogleAccounts, GoogleCallback(r, g)
      PROVE  IdentityInv'
  <2> DEFINE q == [pc |-> "find", op |-> "login", google |-> g, user |-> None,
                   expires |-> 0, fresh |-> FALSE]
  <2>1. /\ q \in Requesting /\ q.pc = "find" /\ q.google = g
        /\ req' = [req EXCEPT ![r] = q]
    BY <1>1 DEF GoogleCallback, Request, Token, Requesting, PC, Ops
  <2> HIDE DEF q
  <2>2. Sound(q)'
    BY <2>1 DEF Sound
  <2>3. RowsUnique'
    BY <1>a, <1>1 DEF GoogleCallback, RowsUnique
  <2> QED
    BY <1>a, <1>1, <2>1, <2>2, <2>3, RequestSet DEF GoogleCallback
<1>2. ASSUME FindUser(r), NEW row \in users, row.google = req[r].google,
             IssueToken(r, row.id)
      PROVE  IdentityInv'
  <2>1. /\ tokens' = tokens \cup {Token(req[r].google, row.id, clock + TokenLife)}
        /\ req' = [req EXCEPT ![r] = Idle] /\ UNCHANGED <<clock, users, wallets>>
    BY <1>2 DEF FindUser, IssueToken, Reply
  <2>2. row.id \in UserIDs /\ row.google \in GoogleAccounts
    BY <1>a DEF Row
  <2>3. Token(req[r].google, row.id, clock + TokenLife) \in Issued
    BY <1>2, <1>a, <2>2, AccountsAssumption DEF Token, Issued
  <2>4. \A t \in tokens' : t \in tokens \/ RowOf(t.google, t.user)'
    BY <1>2, <2>1 DEF Token, RowOf
  <2>5. RowsUnique'
    BY <1>a, <2>1 DEF RowsUnique
  <2> QED
    BY <1>a, <2>1, <2>3, <2>4, <2>5, IdleRequest, RequestSet
<1>3. CASE FindUser(r) /\ Goto(r, "create") /\ UNCHANGED tokens
  <2>1. req[r].google \in GoogleAccounts
    BY <1>3, <1>a DEF FindUser, Sound
  <2> QED
    BY <1>3, <2>1, GotoStep DEF FindUser, PC
<1> QED
  BY <1>1, <1>2, <1>3 DEF FindUser, FindByGoogleID

LEMMA CreateUserStep ==
  ASSUME IdentityInv, NEW r \in Requests, CreateUser(r)
  PROVE  IdentityInv'
<1>a. /\ users \subseteq Row /\ tokens \subseteq Issued /\ req[r] \in Requesting
      /\ wallets \subseteq [id : WalletIDs, user : UserIDs, number : Numbers]
      /\ RowsUnique /\ Sound(req[r]) /\ clock \in Nat
  BY TypeOKIs, AccountsAssumption DEF IdentityInv
<1>1. /\ req[r].google \in GoogleAccounts /\ UNCHANGED <<clock, wallets>>
      /\ req[r].pc = "create"
  BY <1>a DEF CreateUser, Sound
<1>2. CASE Reply(r) /\ UNCHANGED <<users, tokens>>
  BY <1>1, <1>2, <1>a, ReplyStep
<1>3. ASSUME NEW id \in UserIDs \ {row.id : row \in users}, Unique(req[r].google),
             users' = users \cup {[id |-> id, google |-> req[r].google,
                                  email |-> Email[req[r].google]]},
             IssueToken(r, id) \/ (Reply(r) /\ UNCHANGED tokens)
      PROVE  IdentityInv'
  <2>1. [id |-> id, google |-> req[r].google, email |-> Email[req[r].google]] \in Row
    BY <1>1 DEF Row
  <2>2. RowsUnique'
    BY <1>a, <1>3 DEF RowsUnique, Unique
  <2>3. \E row \in users' : row.id = id /\ row.google = req[r].google
    <3> DEFINE new == [id |-> id, google |-> req[r].google,
                       email |-> Email[req[r].google]]
    <3>1. new \in users' /\ new.id = id /\ new.google = req[r].google
      BY <1>3
    <3> QED
      BY <3>1
  <2>4. CASE Reply(r) /\ UNCHANGED tokens
    BY <1>a, <1>1, <1>3, <2>1, <2>2, <2>4, IdleRequest, RequestSet DEF Reply
  <2>5. CASE IssueToken(r, id)
    <3>1. /\ tokens' = tokens \cup {Token(req[r].google, id, clock + TokenLife)}
          /\ req' = [req EXCEPT ![r] = Idle]
      BY <2>5 DEF IssueToken, Reply
    <3>2. Token(req[r].google, id, clock + TokenLife) \in Issued
      BY <1>1, <1>a, AccountsAssumption DEF Token, Issued
    <3>3. \A t \in tokens' : t \in tokens \/ RowOf(t.google, t.user)'
      BY <3>1, <2>3 DEF Token, RowOf
    <3> QED
      BY <1>a, <1>1, <1>3, <2>1, <2>2, <3>1, <3>2, <3>3, IdleRequest, RequestSet
  <2> QED
    BY <1>3, <2>4, <2>5
<1> QED
  BY <1>2, <1>3 DEF CreateUser

LEMMA TokenStep ==
  ASSUME IdentityInv, NEW r \in Requests,
         \/ \E token \in tokens, op \in {"create", "show"} : CallWithToken(r, token, op)
         \/ ValidateJWT(r)
  PROVE  IdentityInv'
<1>a. /\ users \subseteq Row /\ tokens \subseteq Issued /\ req[r] \in Requesting
      /\ wallets \subseteq [id : WalletIDs, user : UserIDs, number : Numbers]
      /\ RowsUnique /\ Sound(req[r]) /\ clock \in Nat
  BY TypeOKIs, AccountsAssumption DEF IdentityInv
<1>1. ASSUME NEW token \in tokens, NEW op \in {"create", "show"},
             CallWithToken(r, token, op)
      PROVE  IdentityInv'
  <2>1. PICK b \in BOOLEAN : b = (clock < token.expires)
    <3>1. CASE clock < token.expires
      <4>1. TRUE = (clock < token.expires)
        BY <3>1
      <4> QED
        BY <4>1, Zenon
    <3>2. CASE ~(clock < token.expires)
      <4>1. FALSE = (clock < token.expires)
        BY <3>2
      <4> QED
        BY <4>1, Zenon
    <3> QED
      BY <3>1, <3>2
  <2>2. token.google \in GoogleAccounts /\ token.user \in UserIDs /\ token.expires \in Nat
    BY <1>a DEF Issued
  <2> DEFINE q == [pc |-> "auth", op |-> op, google |-> token.google, user |-> token.user,
                   expires |-> token.expires, fresh |-> b]
  <2>3. /\ q \in Requesting /\ q.pc = "auth" /\ q.google = token.google
        /\ q.user = token.user /\ q.expires = token.expires /\ q.fresh = b
    BY <2>2 DEF Requesting, PC, Ops
  <2>4. req' = [req EXCEPT ![r] = q] /\ UNCHANGED <<clock, users, wallets, tokens>>
    BY <1>1, <2>1 DEF CallWithToken, Request
  <2> HIDE DEF q
  <2>5. Granted(token.google, token.user)
    BY DEF Granted
  <2>6. Sound(q)' /\ RowsUnique'
    BY <1>a, <2>1, <2>3, <2>4, <2>5 DEF Sound, Granted, RowsUnique
  <2> QED
    BY <1>a, <2>3, <2>4, <2>6, RequestSet
<1>2. CASE ValidateJWT(r)
  <2>1. UNCHANGED <<clock, users, wallets, tokens>> /\ req[r].pc = "auth"
    BY <1>2 DEF ValidateJWT
  <2>2. CASE Reply(r)
    BY <1>a, <2>1, <2>2, ReplyStep
  <2>3. ASSUME NEW pc \in {"check", "show"}, Goto(r, pc), Valid(req[r].expires)
        PROVE  IdentityInv'
    <3>1. Granted(req[r].google, req[r].user) /\ req[r].fresh
      BY <1>a, <2>1, <2>3 DEF Sound, Valid
    <3> QED
      BY <2>1, <2>3, <3>1, GotoStep DEF PC
  <2> QED
    BY <1>2, <2>2, <2>3 DEF ValidateJWT
<1> QED
  BY <1>1, <1>2

LEMMA WalletStep ==
  ASSUME IdentityInv, NEW r \in Requests,
         CheckExistingWallet(r) \/ InsertWallet(r) \/ ShowWallet(r)
  PROVE  IdentityInv'
<1>a. /\ wallets \subseteq [id : WalletIDs, user : UserIDs, number : Numbers]
      /\ Sound(req[r]) /\ req[r] \in Requesting /\ tokens \subseteq Issued
  BY TypeOKIs DEF IdentityInv
<1>1. CASE CheckExistingWallet(r)
  <2>1. req[r].pc = "check" /\ UNCHANGED <<clock, users, wallets, tokens>>
    BY <1>1 DEF CheckExistingWallet
  <2>2. Granted(req[r].google, req[r].user) /\ req[r].fresh
    BY <1>a, <2>1 DEF Sound
  <2>3. CASE Goto(r, "insert")
    BY <2>1, <2>2, <2>3, GotoStep DEF PC
  <2>4. CASE Reply(r)
    BY <1>a, <2>1, <2>4, ReplyStep
  <2> QED
    BY <1>1, <2>3, <2>4 DEF CheckExistingWallet
<1>2. CASE InsertWallet(r)
  <2>1. /\ req[r].pc = "insert" /\ Reply(r) /\ UNCHANGED <<clock, users, tokens>>
    BY <1>2 DEF InsertWallet
  <2>2. req[r].user \in UserIDs
    BY <1>a, <2>1 DEF Sound, Granted, Issued
  <2>3. wallets' \subseteq [id : WalletIDs, user : UserIDs, number : Numbers]
    BY <1>2, <1>a, <2>2 DEF InsertWallet
  <2> QED
    BY <2>1, <2>3, ReplyStep
<1>3. CASE ShowWallet(r)
  BY <1>3, <1>a, ReplyStep DEF ShowWallet
<1> QED
  BY <1>1, <1>2, <1>3

LEMMA TickStep ==
  ASSUME IdentityInv, Tick \/ UNCHANGED vars
  PROVE  IdentityInv'
<1>1. UNCHANGED <<users, wallets, req, tokens>> /\ clock' \in 0 .. LastTick /\ clock' >= clock
  BY AccountsAssumption, TypeOKIs DEF Tick, vars, IdentityInv
<1>2. TypeOK'
  BY <1>1 DEF IdentityInv, TypeOK
<1>3. RowsUnique' /\ TokensOfRows'
  BY <1>1 DEF IdentityInv, RowsUnique, TokensOfRows, RowOf
<1>4. ASSUME NEW r \in Requests
      PROVE  Sound(req[r])'
  <2>1. PICK q \in Requesting : q = req[r] /\ q = req'[r]
    BY <1>1, TypeOKIs DEF IdentityInv
  <2>2. q.expires \in Nat /\ clock \in Nat /\ clock' \in Nat
    BY <1>1, AccountsAssumption, TypeOKIs DEF IdentityInv, Requesting
  <2>3. Sound(q)
    BY <2>1 DEF IdentityInv
  <2> QED
    BY <1>1, <2>1, <2>2, <2>3 DEF Sound, Granted
<1> QED
  BY <1>2, <1>3, <1>4 DEF IdentityInv

LEMMA IdentityStep == IdentityInv /\ [Next]_vars => IdentityInv'
  BY LoginStep, CreateUserStep, TokenStep, WalletStep, TickStep DEF Next, Handle

LEMMA IdentityAlways == Spec => []IdentityInv
  BY IdentityInit, IdentityStep, PTL DEF Spec

(* Every reachable state of the two tables, of the tokens and of the       *)
(* handlers is well typed.                                                 *)
THEOREM AccountsTypeCorrect == Spec => []TypeOK
<1>1. IdentityInv => TypeOK
  BY DEF IdentityInv
<1> QED
  BY <1>1, IdentityAlways, PTL

(* Two tokens of a Google account name the same user, and tokens of two    *)
(* accounts two users: whatever first logins race and look-ups fail.       *)
THEOREM OneUserPerAccount == Spec => []LoginIdentity
<1>1. IdentityInv => LoginIdentity
  BY DEF IdentityInv, RowsUnique, TokensOfRows, RowOf, LoginIdentity
<1> QED
  BY <1>1, IdentityAlways, PTL

(* What runs behind the middleware runs for the user who logged in, with a *)
(* token that had not expired when the request began.                      *)
THEOREM ServesWhoLoggedIn == Spec => []ServedWhoLoggedIn
<1>1. ASSUME IdentityInv, NEW r \in Serving
      PROVE  req[r].fresh /\ RowOf(req[r].google, req[r].user)
  <2>1. r \in Requests /\ req[r].pc \in {"check", "insert", "show"} /\ Sound(req[r])
    BY <1>1 DEF Serving, IdentityInv
  <2>2. req[r].fresh /\ Granted(req[r].google, req[r].user)
    BY <2>1 DEF Sound
  <2> QED
    BY <1>1, <2>2 DEF Granted, IdentityInv, TokensOfRows
<1>2. IdentityInv => ServedWhoLoggedIn
  BY <1>1 DEF ServedWhoLoggedIn, RowOf
<1> QED
  BY <1>2, IdentityAlways, PTL

-----------------------------------------------------------------------------
(* Refinement.  The registry sees the rows of the users and the accounts   *)
(* and users that tokens were issued for; a request that is being served   *)
(* adds nothing to them, because it carries a token.                       *)

Pairs == {<<t.google, t.user>> : t \in tokens}

RegistryInv == IdentityInv /\ ActedSeen = Pairs

LEMMA ActedIsPairs == IdentityInv => RegistryInv
<1> SUFFICES ASSUME IdentityInv, NEW r \in Serving
             PROVE  <<req[r].google, req[r].user>> \in Pairs
  BY DEF RegistryInv, ActedSeen, Pairs
<1>1. r \in Requests /\ req[r].pc \in {"check", "insert", "show"} /\ Sound(req[r])
  BY DEF Serving, IdentityInv
<1>2. Granted(req[r].google, req[r].user)
  BY <1>1 DEF Sound
<1> QED
  BY <1>2 DEF Granted, Pairs

LEMMA IdentityOfRow ==
  ASSUME RowsUnique, NEW row \in users
  PROVE  Identity(row.google) = row.id
<1>1. (CHOOSE other \in users : other.google = row.google) = row
  <2>1. \A other \in users : other.google = row.google => other = row
    BY DEF RowsUnique
  <2> QED
    BY <2>1
<1> QED
  BY <1>1 DEF Identity

LEMMA IdentityOfStranger ==
  ASSUME NEW g, \A row \in users : row.google # g
  PROVE  Identity(g) = None
  BY DEF Identity

(* CreateUser, which may also answer with a token for the new row.         *)
LEMMA CreateRefines ==
  ASSUME RegistryInv, RegistryInv', NEW g \in GoogleAccounts,
         NEW id \in UserIDs \ {row.id : row \in users}, Unique(g),
         users' = users \cup {[id |-> id, google |-> g, email |-> Email[g]]},
         Pairs' \in {Pairs, Pairs \cup {<<g, id>>}}
  PROVE  Registry!Next
<1>1. /\ OwnerSeen \in [GoogleAccounts -> UserIDs \cup {None}]
      /\ OwnerSeen[g] = None
      /\ \A b \in GoogleAccounts : OwnerSeen[b] # id
  <2>1. OwnerSeen[g] = None
    BY IdentityOfStranger DEF Unique, OwnerSeen
  <2>2. ASSUME NEW b \in GoogleAccounts
        PROVE  Identity(b) # id /\ Identity(b) \in UserIDs \cup {None}
    <3>1. CASE \E row \in users : row.google = b
      <4>1. PICK row \in users : row.google = b /\ Identity(b) = row.id
        BY <3>1, IdentityOfRow DEF RegistryInv, IdentityInv
      <4>2. row.id \in UserIDs
        BY TypeOKIs DEF RegistryInv, IdentityInv, Row
      <4> QED
        BY <4>1, <4>2
    <3>2. CASE ~\E row \in users : row.google = b
      BY <3>2, IdentityOfStranger, AccountsAssumption
    <3> QED
      BY <3>1, <3>2
  <2> QED
    BY <2>1, <2>2 DEF OwnerSeen
<1>2. ASSUME NEW b \in GoogleAccounts
      PROVE  Identity(b)' = IF b = g THEN id ELSE Identity(b)
  <2>1. RowsUnique /\ RowsUnique'
    BY DEF RegistryInv, IdentityInv
  <2>2. CASE b = g
    <3> DEFINE new == [id |-> id, google |-> g, email |-> Email[g]]
    <3>1. new \in users' /\ new.google = g /\ new.id = id
      OBVIOUS
    <3>2. \A other \in users' : other.google = g => other = new
      BY <2>1, <3>1 DEF RowsUnique
    <3>3. (CHOOSE other \in users' : other.google = g) = new
      BY <3>1, <3>2
    <3> QED
      BY <2>2, <3>1, <3>3 DEF Identity
  <2>3. CASE b # g
    <3>1. CASE \E row \in users : row.google = b
      <4>1. PICK row \in users : row.google = b /\ Identity(b) = row.id
        BY <3>1, <2>1, IdentityOfRow
      <4>2. \A other \in users' : other.google = b => other = row
        BY <2>1, <4>1 DEF RowsUnique
      <4>3. (CHOOSE other \in users' : other.google = b) = row
        BY <4>1, <4>2
      <4> QED
        BY <2>3, <4>1, <4>3 DEF Identity
    <3>2. CASE ~\E row \in users : row.google = b
      BY <2>3, <3>2 DEF Identity
    <3> QED
      BY <3>1, <3>2
  <2> QED
    BY <2>2, <2>3
<1>3. OwnerSeen' = [OwnerSeen EXCEPT ![g] = id]
  BY <1>1, <1>2 DEF OwnerSeen
<1>4. ActedSeen = Pairs /\ ActedSeen' = Pairs'
  BY DEF RegistryInv
<1> QED
  BY <1>1, <1>3, <1>4 DEF Registry!Next, Registry!Meet, Registry!Available

LEMMA RegistryInit == Init => Registry!Init
<1> SUFFICES ASSUME Init PROVE Registry!Init
  OBVIOUS
<1>1. OwnerSeen = [g \in GoogleAccounts |-> None]
  BY DEF Init, OwnerSeen, Identity
<1>2. Serving = {}
  BY DEF Init, Serving, Idle, Request
<1>3. ActedSeen = {}
  BY <1>2 DEF Init, ActedSeen
<1> QED
  BY <1>1, <1>3 DEF Registry!Init

(* A login that finds the row answers its user.                            *)
LEMMA IssueRefines ==
  ASSUME RegistryInv, RegistryInv', NEW row \in users, UNCHANGED users,
         Pairs' = Pairs \cup {<<row.google, row.id>>}
  PROVE  Registry!Next
<1>1. row.google \in GoogleAccounts /\ row.id \in UserIDs
  BY TypeOKIs DEF RegistryInv, IdentityInv, Row
<1>2. OwnerSeen[row.google] = row.id
  BY <1>1, IdentityOfRow DEF RegistryInv, IdentityInv, OwnerSeen
<1>3. OwnerSeen' = OwnerSeen
  BY DEF OwnerSeen, Identity
<1>4. OwnerSeen' = [OwnerSeen EXCEPT ![row.google] = row.id]
  BY <1>1, <1>2, <1>3 DEF OwnerSeen
<1>5. ActedSeen = Pairs /\ ActedSeen' = Pairs'
  BY DEF RegistryInv
<1> QED
  BY <1>1, <1>2, <1>4, <1>5 DEF Registry!Next, Registry!Meet

LEMMA RegistryStep ==
  ASSUME RegistryInv, RegistryInv', [Next]_vars
  PROVE  [Registry!Next]_(Registry!vars)
<1>1. CASE UNCHANGED <<users, tokens>>
  <2>1. OwnerSeen' = OwnerSeen
    BY <1>1 DEF OwnerSeen, Identity
  <2>2. Pairs' = Pairs
    BY <1>1 DEF Pairs
  <2>3. ActedSeen = Pairs /\ ActedSeen' = Pairs'
    BY DEF RegistryInv
  <2> QED
    BY <2>1, <2>2, <2>3 DEF Registry!vars
<1>2. ASSUME NEW r \in Requests, FindUser(r), ~UNCHANGED <<users, tokens>>
      PROVE  Registry!Next
  <2>1. PICK row \in users : row.google = req[r].google /\ IssueToken(r, row.id)
    BY <1>2 DEF FindUser, FindByGoogleID
  <2>2. UNCHANGED users /\ Pairs' = Pairs \cup {<<row.google, row.id>>}
    BY <1>2, <2>1 DEF FindUser, IssueToken, Token, Pairs
  <2> QED
    BY <2>2, IssueRefines
<1>3. ASSUME NEW r \in Requests, CreateUser(r), ~UNCHANGED <<users, tokens>>
      PROVE  Registry!Next
  <2>1. PICK id \in UserIDs \ {row.id : row \in users} :
          /\ Unique(req[r].google)
          /\ users' = users \cup {[id |-> id, google |-> req[r].google,
                                   email |-> Email[req[r].google]]}
          /\ IssueToken(r, id) \/ UNCHANGED tokens
    BY <1>3 DEF CreateUser
  <2>2. Pairs' \in {Pairs, Pairs \cup {<<req[r].google, id>>}}
    BY <2>1 DEF IssueToken, Token, Pairs
  <2>3. req[r].google \in GoogleAccounts
    BY <1>3 DEF CreateUser, RegistryInv, IdentityInv, Sound
  <2> QED
    BY <2>1, <2>2, <2>3, CreateRefines
<1>4. ASSUME NEW r \in Requests, Handle(r), ~FindUser(r), ~CreateUser(r)
      PROVE  UNCHANGED <<users, tokens>>
  BY <1>4 DEF Handle, GoogleCallback, CallWithToken, ValidateJWT, CheckExistingWallet,
     InsertWallet, ShowWallet
<1> QED
  BY <1>1, <1>2, <1>3, <1>4 DEF Next, Tick, vars

(* Every step of a login, of the middleware and of the wallet handlers is  *)
(* a step of the registry of identities, or changes nothing in it.         *)
THEOREM AccountsImplementRegistry == Spec => ImplementsRegistry
<1>1. RegistryInv /\ RegistryInv' /\ [Next]_vars => [Registry!Next]_(Registry!vars)
  BY RegistryStep
<1> QED
  BY RegistryInit, IdentityAlways, ActedIsPairs, <1>1, PTL DEF Spec, ImplementsRegistry, Registry!Spec
-----------------------------------------------------------------------------
(* Wallets, when the look-up of a wallet does not fail.                    *)

Below == OpToRel(<, Nat)

LEMMA BelowIs == \A x, y \in Nat : <<x, y>> \in Below <=> x < y
  BY DEF Below, OpToRel

LEMMA BelowWellFounded == IsWellFoundedOn(Below, Nat)
  BY NatLessThanWellFounded, Zenon DEF Below

(* A set of natural numbers has a least element.                           *)
LEMMA LeastNumber ==
  ASSUME NEW S, S \subseteq Nat, S # {}
  PROVE  \E x \in S : \A y \in S : x <= y
<1>1. PICK x \in S : \A y \in S : ~(<<y, x>> \in Below)
  BY BelowWellFounded, WFMin
<1>2. ASSUME NEW y \in S PROVE x <= y
  <2>1. x \in Nat /\ y \in Nat /\ ~(y < x)
    BY <1>1, BelowIs
  <2> QED
    BY <2>1
<1> QED
  BY <1>2

(* So First finds a wallet when there is one.                              *)
LEMMA FirstFinds ==
  ASSUME IdentityInv, NEW u, GetWalletByUserID(u) = {}
  PROVE  WalletsOf(u) = {}
<1> SUFFICES ASSUME WalletsOf(u) # {} PROVE FALSE
  OBVIOUS
<1> PICK S : S = {row.id : row \in WalletsOf(u)}
  OBVIOUS
<1>1. \A row \in WalletsOf(u) : row.id \in Nat
  BY AccountsAssumption, TypeOKIs DEF IdentityInv, WalletsOf
<1>2. S # {} /\ S \subseteq Nat
  BY <1>1
<1>3. PICK x \in S : \A y \in S : x <= y
  BY <1>2, LeastNumber
<1>4. PICK row \in WalletsOf(u) : row.id = x
  OBVIOUS
<1>5. \A other \in WalletsOf(u) : row.id <= other.id
  BY <1>3, <1>4
<1> QED
  BY <1>4, <1>5 DEF GetWalletByUserID

(* What a step may do to the wallets of a user and to those who are about  *)
(* to insert one: only a first wallet is raced for, and an insert ends a   *)
(* request that was about to insert.                                       *)
Raced(u) ==
  \/ WalletsOf(u)' = WalletsOf(u) /\ Inserting(u)' \subseteq Inserting(u)
  \/ WalletsOf(u)' = WalletsOf(u) /\ WalletsOf(u) = {}
  \/ \E r \in Inserting(u) : \E row :
       /\ WalletsOf(u)' = WalletsOf(u) \cup {row}
       /\ Inserting(u)' = Inserting(u) \ {r}

(* A step of one request that neither inserts nor is about to.             *)
LEMMA ElsewhereRaced ==
  ASSUME IdentityInv, NEW u, NEW r \in Requests, NEW q,
         req' = [req EXCEPT ![r] = q], q.pc # "insert" \/ q.user # u, wallets' = wallets
  PROVE  Raced(u)
<1>1. WalletsOf(u)' = WalletsOf(u)
  BY DEF WalletsOf
<1>2. ASSUME NEW s \in Inserting(u)' PROVE s \in Inserting(u)
  <2>1. s \in Requests /\ req'[s].pc = "insert" /\ req'[s].user = u
    BY DEF Inserting
  <2>2. req'[r] = q /\ (s # r => req'[s] = req[s])
    BY <2>1, TypeOKIs DEF IdentityInv
  <2> QED
    BY <2>1, <2>2 DEF Inserting
<1> QED
  BY <1>1, <1>2 DEF Raced

LEMMA InsertRaced ==
  ASSUME IdentityInv, NEW u, NEW r \in Requests, InsertWallet(r)
  PROVE  Raced(u)
<1>1. req' = [req EXCEPT ![r] = Idle] /\ req[r].pc = "insert"
  BY DEF InsertWallet, Reply
<1>2. Idle.pc = "idle"
  BY DEF Idle, Request
<1>3. CASE wallets' = wallets
  BY <1>1, <1>2, <1>3, ElsewhereRaced
<1>4. CASE wallets' # wallets
  <2>1. PICK id, n : wallets' = wallets \cup {[id |-> id, user |-> req[r].user, number |-> n]}
    BY <1>4 DEF InsertWallet
  <2>2. PICK row : row = [id |-> id, user |-> req[r].user, number |-> n]
    OBVIOUS
  <2>3. wallets' = wallets \cup {row} /\ row.user = req[r].user
    BY <2>1, <2>2
  <2>4. \A s \in Requests : req'[s] = IF s = r THEN Idle ELSE req[s]
    BY <1>1, TypeOKIs DEF IdentityInv
  <2>5. Inserting(u)' = Inserting(u) \ {r}
    BY <1>2, <2>4 DEF Inserting
  <2>6. CASE req[r].user = u
    <3>1. r \in Inserting(u)
      BY <1>1, <2>6 DEF Inserting
    <3>2. WalletsOf(u)' = WalletsOf(u) \cup {row}
      BY <2>3, <2>6 DEF WalletsOf
    <3> QED
      BY <2>5, <3>1, <3>2 DEF Raced
  <2>7. CASE req[r].user # u
    <3>1. WalletsOf(u)' = WalletsOf(u)
      BY <2>3, <2>7 DEF WalletsOf
    <3> QED
      BY <2>5, <3>1 DEF Raced
  <2> QED
    BY <2>6, <2>7
<1> QED
  BY <1>3, <1>4

LEMMA CheckRaced ==
  ASSUME IdentityInv, "lookup" \notin Faults, NEW u, NEW r \in Requests,
         CheckExistingWallet(r)
  PROVE  Raced(u)
<1>1. wallets' = wallets
  BY DEF CheckExistingWallet
<1>2. CASE Reply(r)
  <2>1. Idle.pc = "idle"
    BY DEF Idle, Request
  <2> QED
    BY <1>1, <1>2, <2>1, ElsewhereRaced DEF Reply
<1>3. CASE ~Reply(r)
  <2>1. NoneFound(req[r].user) /\ Goto(r, "insert")
    BY <1>3 DEF CheckExistingWallet
  <2>2. WalletsOf(req[r].user) = {}
    BY <2>1, FirstFinds DEF NoneFound
  <2>3. CASE req[r].user = u
    BY <1>1, <2>2, <2>3 DEF Raced, WalletsOf
  <2>4. CASE req[r].user # u
    <3>1. PICK q : /\ q = Request("insert", req[r].op, req[r], req[r].fresh)
                   /\ req' = [req EXCEPT ![r] = q]
      BY <2>1, TypeOKIs DEF Goto, IdentityInv
    <3>2. q.user = req[r].user
      BY <3>1 DEF Request
    <3> QED
      BY <1>1, <2>4, <3>1, <3>2, ElsewhereRaced
  <2> QED
    BY <2>3, <2>4
<1> QED
  BY <1>2, <1>3

(* The other steps of a request.                                           *)
LEMMA OtherRaced ==
  ASSUME IdentityInv, NEW u, NEW r \in Requests, Handle(r),
         ~InsertWallet(r), ~CheckExistingWallet(r)
  PROVE  Raced(u)
<1>1. wallets' = wallets
  BY DEF Handle, GoogleCallback, CallWithToken, FindUser, CreateUser, ValidateJWT, ShowWallet
<1>2. ASSUME Reply(r) PROVE Raced(u)
  <2>1. Idle.pc = "idle"
    BY DEF Idle, Request
  <2> QED
    BY <1>1, <1>2, <2>1, ElsewhereRaced DEF Reply
<1>3. ASSUME NEW pc, pc # "insert", Goto(r, pc) PROVE Raced(u)
  <2>1. PICK q : q = Request(pc, req[r].op, req[r], req[r].fresh) /\ req' = [req EXCEPT ![r] = q]
    BY <1>3, TypeOKIs DEF Goto, IdentityInv
  <2>2. q.pc = pc
    BY <2>1 DEF Request
  <2> QED
    BY <1>1, <1>3, <2>1, <2>2, ElsewhereRaced
<1>4. ASSUME NEW g, GoogleCallback(r, g) PROVE Raced(u)
  <2>1. PICK q : q = Request("find", "login", Token(g, None, 0), FALSE) /\ req' = [req EXCEPT ![r] = q]
    BY <1>4 DEF GoogleCallback
  <2>2. q.pc = "find"
    BY <2>1 DEF Request
  <2> QED
    BY <1>1, <2>1, <2>2, ElsewhereRaced
<1>5. ASSUME NEW token, NEW op, CallWithToken(r, token, op) PROVE Raced(u)
  <2>1. PICK fresh : fresh = (clock < token.expires)
    OBVIOUS
  <2>2. PICK q : q = Request("auth", op, token, fresh)
    OBVIOUS
  <2>3. req' = [req EXCEPT ![r] = q]
    BY <1>5, <2>1, <2>2 DEF CallWithToken
  <2>4. q.pc = "auth"
    BY <2>2 DEF Request
  <2> QED
    BY <1>1, <2>3, <2>4, ElsewhereRaced
<1>6. CASE FindUser(r)
  <2>1. Reply(r) \/ Goto(r, "create")
    BY <1>6 DEF FindUser, IssueToken
  <2> QED
    BY <1>2, <1>3, <2>1
<1>7. CASE CreateUser(r)
  <2>1. Reply(r)
    BY <1>7 DEF CreateUser, IssueToken
  <2> QED
    BY <1>2, <2>1
<1>8. CASE ValidateJWT(r)
  <2>1. Reply(r) \/ Goto(r, "check") \/ Goto(r, "show")
    BY <1>8 DEF ValidateJWT
  <2> QED
    BY <1>2, <1>3, <2>1
<1>9. CASE ShowWallet(r)
  BY <1>2, <1>9 DEF ShowWallet
<1> QED
  BY <1>4, <1>5, <1>6, <1>7, <1>8, <1>9 DEF Handle

LEMMA StepRaced ==
  ASSUME IdentityInv, "lookup" \notin Faults, [Next]_vars, NEW u
  PROVE  Raced(u)
<1>1. CASE Tick \/ UNCHANGED vars
  BY <1>1 DEF Tick, vars, Raced, WalletsOf, Inserting
<1> QED
  BY <1>1, InsertRaced, CheckRaced, OtherRaced DEF Next

(* The race for the first wallet: a user gets at most as many as requests  *)
(* take part in it, if those never are more than n.                        *)
AtOnce(n) == \A u \in UserIDs : Cardinality(Inserting(u)) <= n

RaceBound(u, n) ==
  /\ IsFiniteSet(WalletsOf(u))
  /\ Cardinality(WalletsOf(u)) + Cardinality(Inserting(u)) <= n

RaceInv(n) == IdentityInv /\ \A u \in UserIDs : RaceBound(u, n)

LEMMA InsertingFinite ==
  ASSUME NEW u
  PROVE  /\ IsFiniteSet(Inserting(u)) /\ Cardinality(Inserting(u)) \in Nat
         /\ IsFiniteSet(Inserting(u)') /\ Cardinality(Inserting(u)') \in Nat
         /\ Cardinality(Inserting(u)') <= Cardinality(Requests)
         /\ Cardinality(Requests) \in Nat
<1>1. Inserting(u) \in SUBSET Requests /\ Inserting(u)' \in SUBSET Requests
  BY DEF Inserting
<1> QED
  BY <1>1, AccountsAssumption, FS_Subset, FS_CardinalityType

LEMMA RaceStep ==
  ASSUME NEW n \in Nat, NEW u, RaceBound(u, n), Raced(u), Cardinality(Inserting(u)') <= n
  PROVE  RaceBound(u, n)'
<1> PICK W, I : W = WalletsOf(u) /\ I = Inserting(u)
  OBVIOUS
<1> PICK V, J : V = WalletsOf(u)' /\ J = Inserting(u)'
  OBVIOUS
<1>1. /\ IsFiniteSet(W) /\ Cardinality(W) \in Nat
      /\ Cardinality(W) + Cardinality(I) <= n
  BY FS_CardinalityType DEF RaceBound
<1>2. /\ IsFiniteSet(I) /\ Cardinality(I) \in Nat
      /\ IsFiniteSet(J) /\ Cardinality(J) \in Nat
      /\ Cardinality(J) <= n
  BY InsertingFinite
<1>3. CASE V = W /\ J \subseteq I
  <2>1. Cardinality(J) <= Cardinality(I)
    BY <1>2, <1>3, FS_Subset
  <2> QED
    BY <1>1, <1>2, <1>3, <2>1 DEF RaceBound
<1>4. CASE V = W /\ W = {}
  <2>1. Cardinality(V) = 0 /\ IsFiniteSet(V)
    BY <1>4, FS_EmptySet
  <2> QED
    BY <1>2, <2>1 DEF RaceBound
<1>5. ASSUME NEW r \in I, NEW row, V = W \cup {row}, J = I \ {r}
      PROVE  RaceBound(u, n)'
  <2>1. IsFiniteSet(V) /\ Cardinality(V) \in Nat /\ Cardinality(V) <= Cardinality(W) + 1
    <3>1. /\ IsFiniteSet(W \cup {row})
          /\ Cardinality(W \cup {row}) = IF row \in W THEN Cardinality(W) ELSE Cardinality(W) + 1
      BY <1>1, FS_AddElement
    <3> QED
      BY <1>1, <1>5, <3>1
  <2>2. Cardinality(J) = Cardinality(I) - 1
    BY <1>2, <1>5, FS_RemoveElement
  <2> QED
    BY <1>1, <1>2, <2>1, <2>2 DEF RaceBound
<1> QED
  BY <1>3, <1>4, <1>5 DEF Raced

LEMMA RaceInit ==
  ASSUME NEW n \in Nat, Init
  PROVE  RaceInv(n)
<1>1. ASSUME NEW u \in UserIDs PROVE RaceBound(u, n)
  <2>1. WalletsOf(u) = {} /\ Inserting(u) = {}
    BY DEF Init, WalletsOf, Inserting, Idle, Request
  <2> QED
    BY <2>1, FS_EmptySet DEF RaceBound
<1> QED
  BY <1>1, IdentityInit DEF RaceInv

LEMMA RaceNext ==
  ASSUME NEW n \in Nat, "lookup" \notin Faults, RaceInv(n), AtOnce(n)', [Next]_vars
  PROVE  RaceInv(n)'
<1>1. ASSUME NEW u \in UserIDs PROVE RaceBound(u, n)'
  BY StepRaced, RaceStep DEF RaceInv, AtOnce
<1> QED
  BY <1>1, IdentityStep DEF RaceInv

(* A user has at most as many wallets as requests run at the same time,    *)
(* for any number of them, when no look-up of a wallet fails.              *)
THEOREM WalletRaceIsBounded == "lookup" \notin Faults => (Spec => []WalletsWithinRace)
<1> SUFFICES ASSUME "lookup" \notin Faults PROVE Spec => []WalletsWithinRace
  OBVIOUS
<1> DEFINE n == Cardinality(Requests)
<1>1. n \in Nat
  BY InsertingFinite
<1>2. Init => RaceInv(n)
  BY <1>1, RaceInit
<1>3. RaceInv(n) /\ [Next]_vars => RaceInv(n)'
  <2>1. AtOnce(n)'
    BY InsertingFinite DEF AtOnce
  <2> QED
    BY <1>1, <2>1, RaceNext
<1>4. RaceInv(n) => WalletsWithinRace
  BY TypeOKIs DEF RaceInv, IdentityInv, Row, WalletsWithinRace, RaceBound
<1> QED
  BY <1>2, <1>3, <1>4, PTL DEF Spec

(* A user has one wallet, as the 409 says, as long as no two of his        *)
(* requests are between the look-up and the INSERT and no look-up fails.   *)
THEOREM OneWalletUnraced ==
  "lookup" \notin Faults => (Spec /\ []AtOnce(1) => []OneWalletPerUser)
<1> SUFFICES ASSUME "lookup" \notin Faults PROVE Spec /\ []AtOnce(1) => []OneWalletPerUser
  OBVIOUS
<1>1. Init => RaceInv(1)
  BY RaceInit
<1>2. RaceInv(1) /\ AtOnce(1)' /\ [Next]_vars => RaceInv(1)'
  BY RaceNext
<1>3. RaceInv(1) => OneWalletPerUser
  <2> SUFFICES ASSUME RaceInv(1), NEW row \in users
               PROVE  Cardinality(WalletsOf(row.id)) <= 1
    BY DEF OneWalletPerUser
  <2>1. row.id \in UserIDs
    BY TypeOKIs DEF RaceInv, IdentityInv, Row
  <2>2. /\ IsFiniteSet(WalletsOf(row.id))
        /\ Cardinality(WalletsOf(row.id)) + Cardinality(Inserting(row.id)) <= 1
    BY <2>1 DEF RaceInv, RaceBound
  <2> QED
    BY <2>2, InsertingFinite, FS_CardinalityType
<1> QED
  BY <1>1, <1>2, <1>3, PTL DEF Spec

(* Once a wallet is there and nobody is about to insert another, it stays  *)
(* the one that is used: no step starts the race again.                    *)
THEOREM WalletsSettle == "lookup" \notin Faults => (Spec => WalletSettles)
<1> SUFFICES ASSUME "lookup" \notin Faults PROVE Spec => WalletSettles
  OBVIOUS
<1>1. IdentityInv /\ [Next]_vars =>
        [\A u \in UserIDs : Settled(u) =>
           /\ Settled(u)'
           /\ GetWalletByUserID(u)' = GetWalletByUserID(u)]_vars
  <2> SUFFICES ASSUME IdentityInv, [Next]_vars, NEW u \in UserIDs, Settled(u)
               PROVE  Settled(u)' /\ GetWalletByUserID(u)' = GetWalletByUserID(u)
    OBVIOUS
  <2>1. Raced(u)
    BY StepRaced
  <2>2. WalletsOf(u)' = WalletsOf(u) /\ Inserting(u)' = {}
    BY <2>1 DEF Settled, Raced
  <2> QED
    BY <2>2 DEF Settled, GetWalletByUserID
<1> QED
  BY <1>1, IdentityAlways, PTL DEF Spec, WalletSettles
=============================================================================
