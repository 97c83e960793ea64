------------------------------- MODULE Accounts -------------------------------
(***************************************************************************)
(* Who is who: the login with Google, which creates the user's row at the  *)
(* first visit and issues a token, the middleware that admits a request by *)
(* its token, and the handlers that open and show the user's wallet.       *)
(* Login and wallet creation look for a row, find none and insert one, in  *)
(* two statements without a transaction around them; what a database error *)
(* at the look-up means differs from what "not found" means, and both      *)
(* handlers ignore that.                                                   *)
(***************************************************************************)
EXTENDS Naturals, FiniteSets

CONSTANTS
  GoogleAccounts,  \* subjects of the ID tokens that Google validates
  Email,           \* Google account -> its email address
  UserIDs,         \* uuid_generate_v4() for users
  WalletIDs,       \* uuid_generate_v4() for wallets, which have an order
  Numbers,         \* generateWalletNumber()
  Requests,        \* goroutines that serve requests at the same time
  TokenLife,       \* ticks until a token expires, an hour in the code
  LastTick,        \* bound of the model on the clock
  Faults,          \* which of "create", "find" and "lookup" may fail
  None

ASSUME AccountsAssumption ==
  /\ IsFiniteSet(Requests)
  /\ WalletIDs \subseteq Nat
  /\ TokenLife \in Nat \ {0}
  /\ LastTick \in Nat
  /\ None \notin GoogleAccounts \cup UserIDs \cup WalletIDs

VARIABLES
  clock,
  users,    \* rows of the table users
  wallets,  \* rows of the table wallets
  req,      \* goroutine -> the request it serves
  tokens    \* tokens that logins were answered with

vars == <<clock, users, wallets, req, tokens>>

Token(g, u, expires) == [google |-> g, user |-> u, expires |-> expires]
NoToken == Token(None, None, 0)

(* google is the account behind the request and fresh says that its token  *)
(* had not expired when it began: histories, as no step of the code reads  *)
(* google once the user is found, and none reads fresh.                    *)
Request(pc, op, token, fresh) ==
  [pc |-> pc, op |-> op, google |-> token.google, user |-> token.user,
   expires |-> token.expires, fresh |-> fresh]

Idle == Request("idle", "none", NoToken, FALSE)

Init ==
  /\ clock = 0
  /\ users = {}
  /\ wallets = {}
  /\ req = [r \in Requests |-> Idle]
  /\ tokens = {}

Goto(r, pc) == req' = [req EXCEPT ![r] = Request(pc, @.op, @, @.fresh)]
Reply(r) == req' = [req EXCEPT ![r] = Idle]

(* Mutant: the token is issued for the row that was not found.             *)
IssueTokenWithoutUser(r, id) ==
  /\ tokens' = tokens \cup {Token(req[r].google, req[r].user, clock + TokenLife)}
  /\ Reply(r)

IssueToken(r, id) ==
  /\ tokens' = tokens \cup {Token(req[r].google, id, clock + TokenLife)}
  /\ Reply(r)

-----------------------------------------------------------------------------
(* GoogleCallback, from where Google has vouched for the account.          *)

GoogleCallback(r, g) ==
  /\ req[r].pc = "idle"
  /\ req' = [req EXCEPT ![r] = Request("find", "login", Token(g, None, 0), FALSE)]
  /\ UNCHANGED <<clock, users, wallets, tokens>>

(* Mutant: the row is looked for by the address.                           *)
RowByAddress(g) == {row \in users : row.email = Email[g]}

FindByGoogleID(g) == {row \in users : row.google = g}

(* Any error, not only "record not found", leads to CreateUser.            *)
FindUser(r) ==
  LET found == FindByGoogleID(req[r].google) IN
  /\ req[r].pc = "find"
  /\ \/ \E row \in found : IssueToken(r, row.id)
     \/ /\ found = {} \/ "find" \in Faults
        /\ Goto(r, "create")
        /\ UNCHANGED tokens
  /\ UNCHANGED <<clock, users, wallets>>

(* Mutant: a table without its unique indexes.                             *)
UniqueNotAsked(g) == g \in GoogleAccounts

(* Unique indexes on google_id and email.                                  *)
Unique(g) == \A row \in users : row.google # g /\ row.email # Email[g]

CreateUser(r) ==
  LET g == req[r].google IN
  /\ req[r].pc = "create"
  /\ \/ /\ Unique(g)
        /\ \E id \in UserIDs \ {row.id : row \in users} :
             /\ users' = users \cup {[id |-> id, google |-> g, email |-> Email[g]]}
             /\ \/ IssueToken(r, id)
                \/ "create" \in Faults /\ Reply(r) /\ UNCHANGED tokens
     \/ /\ ~Unique(g) \/ "create" \in Faults
        /\ Reply(r)
        /\ UNCHANGED <<users, tokens>>
  /\ UNCHANGED <<clock, wallets>>

-----------------------------------------------------------------------------
(* JWTMiddleware and UnifiedAuthMiddleware with an Authorization header: a *)
(* token is valid until it expires, and then the user's row is read.       *)

CallWithToken(r, token, op) ==
  /\ req[r].pc = "idle"
  /\ req' = [req EXCEPT ![r] = Request("auth", op, token, clock < token.expires)]
  /\ UNCHANGED <<clock, users, wallets, tokens>>

(* Mutant: the time of expiry itself is admitted.                          *)
ValidUntilAfter(expires) == clock <= expires

Valid(expires) == clock < expires

FindByID(u) == {row \in users : row.id = u}

(* A token's permissions are "*": RequirePermission lets it pass.          *)
ValidateJWT(r) ==
  LET found == FindByID(req[r].user) IN
  /\ req[r].pc = "auth"
  /\ \/ /\ Valid(req[r].expires)
        /\ found # {}
        /\ Goto(r, IF req[r].op = "create" THEN "check" ELSE "show")
     \/ /\ ~Valid(req[r].expires) \/ found = {} \/ "find" \in Faults
        /\ Reply(r)
  /\ UNCHANGED <<clock, users, wallets, tokens>>

-----------------------------------------------------------------------------
(* CreateWallet, GetWallet and GetWalletBalance.                           *)

WalletsOf(u) == {row \in wallets : row.user = u}

(* First: the row with the smallest primary key.                           *)
GetWalletByUserID(u) ==
  {row \in WalletsOf(u) : \A other \in WalletsOf(u) : row.id <= other.id}

(* Mutant: the handler does not look for a wallet.                         *)
NotLookedFor(u) == u \in UserIDs

(* GetWalletByUserID answers nil for no row and for an error alike.        *)
NoneFound(u) == GetWalletByUserID(u) = {} \/ "lookup" \in Faults

CheckExistingWallet(r) ==
  /\ req[r].pc = "check"
  /\ \/ NoneFound(req[r].user) /\ Goto(r, "insert")
     \/ GetWalletByUserID(req[r].user) # {} /\ Reply(r)
  /\ UNCHANGED <<clock, users, wallets, tokens>>

(* wallet_number is unique, user_id is not.                                *)
InsertWallet(r) ==
  /\ req[r].pc = "insert"
  /\ Reply(r)
  /\ \/ \E id \in WalletIDs \ {row.id : row \in wallets},
           n \in Numbers \ {row.number : row \in wallets} :
          wallets' = wallets \cup {[id |-> id, user |-> req[r].user, number |-> n]}
     \/ /\ "create" \in Faults \/ wallets # {}
        /\ UNCHANGED wallets
  /\ UNCHANGED <<clock, users, tokens>>

(* The wallet, "Wallet not found", or its balance: nothing changes.        *)
ShowWallet(r) ==
  /\ req[r].pc = "show"
  /\ Reply(r)
  /\ UNCHANGED <<clock, users, wallets, tokens>>

Tick ==
  /\ clock < LastTick
  /\ clock' = clock + 1
  /\ UNCHANGED <<users, wallets, req, tokens>>

Handle(r) ==
  \/ \E g \in GoogleAccounts : GoogleCallback(r, g)
  \/ \E token \in tokens, op \in {"create", "show"} : CallWithToken(r, token, op)
  \/ FindUser(r) \/ CreateUser(r) \/ ValidateJWT(r)
  \/ CheckExistingWallet(r) \/ InsertWallet(r) \/ ShowWallet(r)

Next == Tick \/ \E r \in Requests : Handle(r)

Spec == Init /\ [][Next]_vars

-----------------------------------------------------------------------------
(* Properties.                                                             *)

Serving == {r \in Requests : req[r].pc \in {"check", "insert", "show"}}

(* Type invariant of the tables users and wallets and of the handlers.     *)
TypeOK ==
  /\ clock \in 0 .. LastTick
  /\ users \subseteq [id : UserIDs, google : GoogleAccounts,
                      email : {Email[g] : g \in GoogleAccounts}]
  /\ wallets \subseteq [id : WalletIDs, user : UserIDs, number : Numbers]
  /\ req \in [Requests -> [pc : {"idle", "find", "create", "auth", "check",
                                 "insert", "show"},
                           op : {"none", "login", "create", "show"},
                           google : GoogleAccounts \cup {None},
                           user : UserIDs \cup {None},
                           expires : Nat, fresh : BOOLEAN]]
  /\ tokens \subseteq [google : GoogleAccounts, user : UserIDs, expires : Nat]

(* A Google account is always the same user: whatever first logins race    *)
(* and whatever look-ups fail, all tokens issued for it name one row, the  *)
(* row that bears its subject.                                             *)
LoginIdentity ==
  \A t \in tokens :
    /\ \E row \in users : row.id = t.user /\ row.google = t.google
    /\ \A s \in tokens : s.google = t.google <=> s.user = t.user

(* A handler behind the middleware acts for the user whose Google account  *)
(* logged in, with a token that had not expired when the request began.    *)
ServedWhoLoggedIn ==
  \A r \in Serving :
    /\ req[r].fresh
    /\ \E row \in users : row.id = req[r].user /\ row.google = req[r].google

(* The users table, the tokens and the requests being served are seen as   *)
(* the registry of identities: an account whose row exists is its owner.   *)
Identity(g) ==
  IF \E row \in users : row.google = g
    THEN (CHOOSE row \in users : row.google = g).id
    ELSE None

OwnerSeen == [g \in GoogleAccounts |-> Identity(g)]
ActedSeen ==
  {<<t.google, t.user>> : t \in tokens}
    \cup {<<req[r].google, req[r].user>> : r \in Serving}

Registry == INSTANCE IdentityRegistry WITH
  Accounts <- GoogleAccounts, Identities <- UserIDs, Nobody <- None,
  owner <- OwnerSeen, acted <- ActedSeen

(* No step of a login or of the middleware gives a Google account another  *)
(* user, or a user to another account.                                     *)
ImplementsRegistry == Registry!Spec

(* What the 409 of CreateWallet says, "User already has a wallet": a user  *)
(* has one wallet.                                                         *)
OneWalletPerUser == \A row \in users : Cardinality(WalletsOf(row.id)) <= 1

Inserting(u) == {r \in Requests : req[r].pc = "insert" /\ req[r].user = u}

(* What holds of it while look-ups do not fail: a user has at most as many *)
(* wallets as requests can run at the same time, and once the race of the  *)
(* first wallet is over there are no more.                                 *)
WalletsWithinRace ==
  \A row \in users :
    Cardinality(WalletsOf(row.id)) + Cardinality(Inserting(row.id))
      <= Cardinality(Requests)

(* Once a user has a wallet and no request is about to insert another, the *)
(* wallet that deposits, transfers and balances use is always that one: a  *)
(* wallet with a smaller id does not come to hide it.                      *)
Settled(u) == WalletsOf(u) # {} /\ Inserting(u) = {}

WalletSettles ==
  [][\A u \in UserIDs : Settled(u) =>
       /\ Settled(u)'
       /\ GetWalletByUserID(u)' = GetWalletByUserID(u)]_vars
=============================================================================
