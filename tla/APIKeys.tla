-------------------------------- MODULE APIKeys --------------------------------
(***************************************************************************)
(* API keys: the handlers that create, roll over and revoke them, and the  *)
(* middleware that admits a request by its key.  A handler is a goroutine  *)
(* that makes several queries, each a statement of its own without a       *)
(* transaction around them, so other requests run in between.  The key     *)
(* handlers are behind JWTMiddleware: their user is known.                 *)
(* Time is a clock that all statements read (time.Now()).                  *)
(***************************************************************************)
EXTENDS Integers, FiniteSets

CONSTANTS
  Users,
  Keys,             \* values that generateSecureKey may return
  Requests,         \* goroutines that may serve requests at the same time
  MaxActiveKeys,
  PermissionNames,  \* names that a request may ask for
  Upper,            \* strings.ToUpper on these names
  Required,         \* permissions that RequirePermission asks for
  Lifetimes,        \* what "1H", "1D", "1M" and "1Y" add to the clock
  LastTick,         \* bound of the model on the clock
  None              \* no user, no key

AllowedPermissions == {"READ", "DEPOSIT", "WITHDRAWAL", "TRANSFER"}

ASSUME KeysAssumption ==
  /\ IsFiniteSet(Keys) /\ IsFiniteSet(Requests)
  /\ MaxActiveKeys \in Nat \ {0}
  /\ Upper \in [PermissionNames -> STRING]
  /\ Required \subseteq AllowedPermissions
  /\ Lifetimes \subseteq Nat \ {0}
  /\ LastTick \in Nat
  /\ None \notin Users \cup Keys

VARIABLES
  clock,
  keys,     \* key -> its row, NoKey when there is none
  origin,   \* history: key -> the key of its first creation
  req       \* goroutine -> the request it serves

vars == <<clock, keys, origin, req>>

NoKey == [owner |-> None, permissions |-> {}, expires |-> 0, revoked |-> FALSE]

(* old is the key of a rollover or of an API call; unfit says that it was  *)
(* revoked (or, for a call, had expired) before the request began: a       *)
(* history, that no step of the code reads.                                *)
Request(pc, op, u, old, ps, exp, unfit) ==
  [pc |-> pc, op |-> op, user |-> u, old |-> old, permissions |-> ps,
   expires |-> exp, unfit |-> unfit]

Idle == Request("idle", "none", None, None, {}, 0, FALSE)

Init ==
  /\ clock = 0
  /\ keys = [k \in Keys |-> NoKey]
  /\ origin = [k \in Keys |-> None]
  /\ req = [r \in Requests |-> Idle]

Exists(k) == keys[k].owner # None
Expired(k) == Exists(k) /\ clock > keys[k].expires

Goto(r, pc) ==
  req' = [req EXCEPT ![r] =
            Request(pc, @.op, @.user, @.old, @.permissions, @.expires, @.unfit)]

(* The request is answered.                                                *)
Reply(r) == req' = [req EXCEPT ![r] = Idle]

-----------------------------------------------------------------------------
(* CreateAPIKey and RolloverAPIKey.                                        *)

(* The case of the names is folded; then an unknown one is refused.        *)
Normalized(names) == {Upper[n] : n \in names}

ParseExpiry(lifetime) == clock + lifetime

CreateAPIKey(r, u, names, lifetime) ==
  /\ req[r].pc = "idle"
  /\ Normalized(names) \subseteq AllowedPermissions
  /\ req' = [req EXCEPT ![r] =
       Request("count", "create", u, None, Normalized(names),
               ParseExpiry(lifetime), FALSE)]
  /\ UNCHANGED <<clock, keys, origin>>

RolloverAPIKey(r, u, k) ==
  /\ req[r].pc = "idle"
  /\ req' = [req EXCEPT ![r] =
       Request("find", "rollover", u, k, {}, 0, keys[k].revoked)]
  /\ UNCHANGED <<clock, keys, origin>>

(* Mutants: no expiry check; the row may be any user's.                    *)
MayRollOverUnexpired(row, u) == row.owner = u /\ ~row.revoked
MayRollOverAnyUsers(row, u) ==
  row.owner # None /\ ~row.revoked /\ clock >= row.expires

MayRollOver(row, u) == row.owner = u /\ ~row.revoked /\ clock >= row.expires

(* The row is found by the key's value or by its id, for this user only.   *)
FindOldKey(r) ==
  LET q == req[r]
      row == keys[q.old] IN
  /\ q.pc = "find"
  /\ \/ /\ MayRollOver(row, q.user)
        /\ req' = [req EXCEPT ![r] = Request("count", q.op, q.user, q.old,
                                             row.permissions, 0, q.unfit)]
     \/ ~MayRollOver(row, q.user) /\ Reply(r)
  /\ UNCHANGED <<clock, keys, origin>>

Active(u) ==
  {k \in Keys :
     keys[k].owner = u /\ ~keys[k].revoked /\ keys[k].expires > clock}

(* Mutant: off by one.                                                     *)
FullOffByOne(u) == Cardinality(Active(u)) > MaxActiveKeys

Full(u) == Cardinality(Active(u)) >= MaxActiveKeys

(* A rollover computes its expiry only here, after the count.              *)
CountActiveKeys(r) ==
  LET q == req[r] IN
  /\ q.pc = "count"
  /\ \/ Full(q.user) /\ Reply(r)
     \/ ~Full(q.user) /\ q.op = "create" /\ Goto(r, "insert")
     \/ /\ ~Full(q.user)
        /\ q.op = "rollover"
        /\ \E lifetime \in Lifetimes :
             req' = [req EXCEPT ![r] = Request("insert", q.op, q.user, q.old,
                       q.permissions, ParseExpiry(lifetime), q.unfit)]
  /\ UNCHANGED <<clock, keys, origin>>

(* Mutants: a new key without a time of expiry; a key that replaces an old *)
(* one has every permission.                                               *)
NewRowWithoutExpiry(q) ==
  [owner |-> q.user, permissions |-> q.permissions, expires |-> None,
   revoked |-> FALSE]
NewRowRollsOverAll(q) ==
  [owner |-> q.user,
   permissions |-> IF q.old = None THEN q.permissions ELSE AllowedPermissions,
   expires |-> q.expires, revoked |-> FALSE]

NewRow(q) ==
  [owner |-> q.user, permissions |-> q.permissions,
   expires |-> q.expires, revoked |-> FALSE]

(* generateSecureKey: 16 random bytes that no other key has.               *)
Fresh(k) == ~Exists(k)

(* The INSERT.  When its reply is lost the answer is a 500, and the row is *)
(* there all the same.                                                     *)
CreateKey(r, k) ==
  LET q == req[r] IN
  /\ q.pc = "insert"
  /\ Fresh(k)
  /\ keys' = [keys EXCEPT ![k] = NewRow(q)]
  /\ origin' = [origin EXCEPT ![k] = IF q.old = None THEN k ELSE origin[q.old]]
  /\ Reply(r)
  /\ UNCHANGED clock

-----------------------------------------------------------------------------
(* RevokeAPIKey: one UPDATE ... WHERE id = ? AND user_id = ?, which finds  *)
(* the row again when it is already revoked.  An error, or no row, is      *)
(* answered and changes nothing.                                           *)
RevokeKey(k) ==
  keys' = [keys EXCEPT ![k] =
    [owner |-> @.owner, permissions |-> @.permissions,
     expires |-> @.expires, revoked |-> TRUE]]

RevokeAPIKey(u, k) ==
  /\ keys[k].owner = u
  /\ RevokeKey(k)
  /\ UNCHANGED <<clock, origin, req>>

-----------------------------------------------------------------------------
(* UnifiedAuthMiddleware with an x-api-key header, then RequirePermission. *)

(* What a route asks of a key: one permission, or none, as /wallet/create  *)
(* is not wrapped in RequirePermission and any key is admitted there.      *)
RouteRequires == {{}} \cup {{permission} : permission \in Required}

CallWithKey(r, k, ps) ==
  /\ req[r].pc = "idle"
  /\ req' = [req EXCEPT ![r] = Request("lookup", "call", None, k, ps, 0,
                                       keys[k].revoked \/ Expired(k))]
  /\ UNCHANGED <<clock, keys, origin>>

(* Mutant: the middleware does not look at IsRevoked.                      *)
AdmitsRevoked(row, ps) ==
  row.owner # None /\ clock <= row.expires /\ ps \subseteq row.permissions

Admits(row, ps) ==
  /\ row.owner # None
  /\ ~row.revoked
  /\ clock <= row.expires
  /\ ps \subseteq row.permissions

(* FindByKey reads the row; what follows only uses this copy of it, and    *)
(* the handler acts for the key's owner.  A failing FindByID ends it.      *)
ValidateAPIKey(r) ==
  LET q == req[r]
      row == keys[q.old] IN
  /\ q.pc = "lookup"
  /\ \/ /\ Admits(row, q.permissions)
        /\ req' = [req EXCEPT ![r] = Request("serving", q.op, row.owner, q.old,
                                             q.permissions, 0, q.unfit)]
     \/ ~Admits(row, q.permissions) /\ Reply(r)
  /\ UNCHANGED <<clock, keys, origin>>

(* The handler behind the middleware ends, or any handler fails: an error  *)
(* of a query is answered with a 500 and changes nothing.                  *)
EndRequest(r) ==
  /\ req[r].pc # "idle"
  /\ Reply(r)
  /\ UNCHANGED <<clock, keys, origin>>

Tick ==
  /\ clock < LastTick
  /\ clock' = clock + 1
  /\ UNCHANGED <<keys, origin, req>>

Begin(r) ==
  \/ \E u \in Users, names \in SUBSET PermissionNames, lifetime \in Lifetimes :
       CreateAPIKey(r, u, names, lifetime)
  \/ \E u \in Users, k \in Keys : RolloverAPIKey(r, u, k)
  \/ \E k \in Keys, ps \in RouteRequires : CallWithKey(r, k, ps)

Step(r) ==
  \/ FindOldKey(r) \/ CountActiveKeys(r) \/ ValidateAPIKey(r) \/ EndRequest(r)
  \/ \E k \in Keys : CreateKey(r, k)

Next ==
  \/ \E r \in Requests : Begin(r) \/ Step(r)
  \/ \E u \in Users, k \in Keys : RevokeAPIKey(u, k)
  \/ Tick

Spec == Init /\ [][Next]_vars

-----------------------------------------------------------------------------
(* Properties.                                                             *)

KeyRow ==
  [owner : Users \cup {None}, permissions : SUBSET AllowedPermissions,
   expires : Nat, revoked : BOOLEAN]

RequestState ==
  [pc : {"idle", "find", "count", "insert", "lookup", "serving"},
   op : {"none", "create", "rollover", "call"},
   user : Users \cup {None}, old : Keys \cup {None},
   permissions : SUBSET AllowedPermissions, expires : Nat, unfit : BOOLEAN]

(* Type invariant of the api_keys table and of the handlers.               *)
TypeOK ==
  /\ clock \in 0 .. LastTick
  /\ keys \in [Keys -> KeyRow]
  /\ origin \in [Keys -> Keys \cup {None}]
  /\ req \in [Requests -> RequestState]

(* What the 403 of CreateAPIKey and of RolloverAPIKey says: "Maximum of    *)
(* %d active keys allowed".  Two requests that count before either inserts *)
(* break it.                                                               *)
AtMostMaxActiveKeys == \A u \in Users : Cardinality(Active(u)) <= MaxActiveKeys

Inserting(u) == {r \in Requests : req[r].pc = "insert" /\ req[r].user = u}

(* What holds of the limit: each of the requests that run at the same time *)
(* but one may exceed it by one key, and repeating the race adds nothing.  *)
OvershootBounded ==
  \A u \in Users :
    Cardinality(Active(u)) + Cardinality(Inserting(u))
      <= MaxActiveKeys - 1 + Cardinality(Requests)

(* Revocation: a request that began after a key was revoked, and an API    *)
(* call that began after it had expired, does nothing with it, although    *)
(* requests that have read the key before go on using their copy.          *)
RevocationIsEffective ==
  \A r \in Requests :
    req[r].pc \in {"count", "insert", "serving"} => ~req[r].unfit

(* However many rollovers old, a key serves only the user who created the  *)
(* first key of the chain, and a route that requires a permission only     *)
(* when he asked for it then.  /wallet/create requires none: there every   *)
(* key serves its user, one without any permission too.                    *)
ServedAsGranted ==
  \A r \in Requests :
    LET granted == keys[origin[req[r].old]] IN
    req[r].pc = "serving" =>
      /\ req[r].user = granted.owner
      /\ req[r].permissions \subseteq granted.permissions

Usable(k) == Exists(k) /\ ~keys[k].revoked /\ clock <= keys[k].expires

(* A rollover replaces an expired key: when it is about to insert the new  *)
(* one, no call is admitted by the old one any more, except at the very    *)
(* instant of its expiry, where the middleware (After) still admits the    *)
(* key that the rollover (not Before) takes for expired.                   *)
OldKeyIsUnusable ==
  \A r \in Requests :
    /\ req[r].op = "rollover"
    /\ req[r].pc \in {"count", "insert"}
    /\ Usable(req[r].old)
    => clock = keys[req[r].old].expires
=============================================================================
