--------------------------- MODULE OwnerApiProofs ---------------------------
(***************************************************************************)
(* Proofs about Auth: registrations that run together create one account,  *)
(* a handler runs only for a call whose credential was good when it        *)
(* arrived, and no call is turned away without a reason, for any number of *)
(* calls, accounts, devices, keys and ticks.  And about PolicyResolver:    *)
(* the most restrictive limit wins, for every list of policies.            *)
(***************************************************************************)
EXTENDS Auth, PolicyResolver, SequenceTheorems, WellFoundedInduction, TLAPS

-----------------------------------------------------------------------------
(* Auth: the inductive invariant.                                          *)

\* Keys and tokens belong to accounts, keys to devices that still exist.
KeysOK ==
    /\ keys \in Seq(Key)
    /\ \A k \in DOMAIN keys :
          /\ keys[k].user \in DOMAIN users
          /\ keys[k].device # None =>
                keys[k].device \in DOMAIN devices /\ devices[keys[k].device]

UsersOK ==
    /\ users \in Seq(User)
    /\ created \subseteq [id : DOMAIN users, form : User]
    /\ RegisteredOnce

TokensOK ==
    tokens \subseteq Credential /\ \A t \in tokens : t.kind = "jwt" /\ t.of \in DOMAIN users

TablesOK ==
    /\ UsersOK /\ KeysOK /\ TokensOK
    /\ devices \in Seq(BOOLEAN)
    /\ now \in 0..MaxTime
    /\ started \in 0..MaxCalls

\* What a client presented was given to it.
CredOK(cr) ==
    /\ cr \in Credential
    /\ cr.kind = "key" => cr.of \in DOMAIN keys
    /\ cr.kind = "jwt" => cr.of \in DOMAIN users

\* A credential that was bad on arrival is still bad when it is verified: a key
\* is known to be revoked once its row has been read, or has expired.  A key
\* that was revoked when its row was read still is.
Judged(x) ==
    /\ x.pc = "verify" => (x.late => ~Valid(x.cred))
    /\ x.pc = "checkKey" =>
          /\ x.cred.kind = "key"
          /\ x.via # "dashboard"
          /\ x.late => x.seen \/ Expired(x.cred.of)
          /\ x.seen => keys[x.cred.of].revoked

Admitted(x) ==
    x.pc \in {"owner", "handler"} =>
        /\ ~x.late
        /\ x.cred.kind \in Accepted[x.via]
        /\ x.user = OwnerOf(x.cred)
        /\ x.pc = "handler" /\ x.op = "link" => x.arg = x.user

CallOK(x) ==
    /\ x \in Call
    /\ x.pc \in {"findEmail", "insertUser"} => x.form \in User
    /\ CredOK(x.cred) /\ Judged(x) /\ Admitted(x)

CallsOK == call \in [Calls -> Call] /\ \A c \in Calls : CallOK(call[c])

AuthInv == TablesOK /\ CallsOK

\* What no step takes back: accounts and keys stay, a key keeps its owner and
\* its expiry and is never unrevoked, time goes on.
Grows ==
    /\ DOMAIN users \subseteq DOMAIN users'
    /\ DOMAIN keys \subseteq DOMAIN keys'
    /\ \A k \in DOMAIN keys :
          /\ keys'[k].user = keys[k].user
          /\ keys'[k].expires = keys[k].expires
          /\ keys[k].revoked => keys'[k].revoked
    /\ now <= now'

-----------------------------------------------------------------------------

LEMMA IdleOK == CallOK(Idle)
BY DEF Idle, CallOK, CredOK, Judged, Admitted, Call, NoCredential, Credential, NoUser,
       Accepted, Ops, None

LEMMA IdleKeptOK == CallOK(Idle)'
BY DEF Idle, CallOK, CredOK, Judged, Admitted, Call, NoCredential, Credential, NoUser,
       Accepted, Ops, None

LEMMA AuthInitInv == AuthInit => AuthInv
<1> SUFFICES ASSUME AuthInit PROVE AuthInv
  OBVIOUS
<1>1. users = <<>> /\ keys = <<>> /\ devices = <<>> /\ created = {} /\ tokens = {}
  BY DEF AuthInit
<1>2. UsersOK /\ KeysOK /\ TokensOK /\ devices \in Seq(BOOLEAN)
  BY <1>1 DEF UsersOK, KeysOK, TokensOK, RegisteredOnce
<1>3. now \in 0..MaxTime /\ started \in 0..MaxCalls
  BY AuthAssumption DEF AuthInit
<1>4. call = [c \in Calls |-> Idle] /\ Idle \in Call
  BY IdleOK DEF AuthInit, CallOK
<1>5. CallsOK
  BY <1>4, IdleOK DEF CallsOK
<1>. QED  BY <1>2, <1>3, <1>5 DEF AuthInv, TablesOK

\* Rows and clock as numbers.
LEMMA KeyTypes ==
    ASSUME TablesOK
    PROVE  /\ now \in Nat
           /\ \A k \in DOMAIN keys : keys[k].expires \in Int
                                     /\ keys[k].revoked \in BOOLEAN
<1>1. keys \in Seq(Key) /\ now \in 0..MaxTime
  BY DEF TablesOK, KeysOK
<1>2. \A k \in DOMAIN keys : keys[k] \in Key
  BY <1>1
<1>3. now \in Nat
  BY <1>1, AuthAssumption
<1>. QED  BY <1>2, <1>3 DEF Key

\* What is not valid, or has expired, stays so.
LEMMA InvalidKept ==
    ASSUME TablesOK, now' \in Nat, Grows, NEW cr, CredOK(cr), ~Valid(cr)
    PROVE  ~ (\/ cr.kind = "jwt" /\ now' < cr.exp
              \/ /\ cr.kind = "key"
                 /\ ~keys'[cr.of].revoked
                 /\ keys'[cr.of].expires = Never \/ now' <= keys'[cr.of].expires)
<1>1. CASE cr.kind = "jwt"
  <2>1. cr.exp \in Nat /\ now \in Nat /\ now <= now'
    BY KeyTypes DEF CredOK, Credential, Grows
  <2>2. ~ (now < cr.exp)
    BY <1>1 DEF Valid
  <2>. QED  BY <1>1, <2>1, <2>2
<1>2. CASE cr.kind = "key"
  <2> DEFINE k == cr.of
  <2>1. k \in DOMAIN keys
    BY <1>2 DEF CredOK
  <2>2. /\ keys'[k].expires = keys[k].expires /\ (keys[k].revoked => keys'[k].revoked)
        /\ now <= now'
    BY <2>1 DEF Grows
  <2>3. keys[k].expires \in Int /\ now \in Nat
    BY <2>1, KeyTypes
  <2>4. keys[k].revoked \/ (keys[k].expires # Never /\ ~ (now <= keys[k].expires))
    BY <1>2 DEF Valid
  <2> HIDE DEF k
  <2>5. keys'[k].revoked \/ (keys'[k].expires # Never /\ ~ (now' <= keys'[k].expires))
    BY <2>2, <2>3, <2>4
  <2>. QED  BY <1>2, <2>5 DEF k
<1>. QED  BY <1>1, <1>2

LEMMA ExpiredKept ==
    ASSUME TablesOK, now' \in Nat, Grows, NEW k \in DOMAIN keys, Expired(k)
    PROVE  keys'[k].expires # Never /\ now' > keys'[k].expires
<1>1. keys'[k].expires = keys[k].expires /\ now <= now'
  BY DEF Grows
<1>2. keys[k].expires \in Int /\ now \in Nat
  BY KeyTypes
<1>. QED  BY <1>1, <1>2 DEF Expired

\* A call that does not move stays in order while the tables grow.
LEMMA CallKept ==
    ASSUME TablesOK, now' \in Nat, Grows, NEW c \in Calls, CallOK(call[c]),
           call'[c] = call[c]
    PROVE  CallOK(call[c])'
<1>1. CredOK(call[c].cred)'
  BY DEF CallOK, CredOK, Grows
<1>2. Judged(call[c])'
  <2>1. call[c].pc = "verify" /\ call[c].late => ~Valid(call[c].cred)'
    BY InvalidKept DEF CallOK, Judged, Valid
  <2>2. /\ call[c].pc = "checkKey" =>
              call[c].cred.kind = "key" /\ call[c].via # "dashboard"
        /\ call[c].pc = "checkKey" => call[c].cred.of \in DOMAIN keys
        /\ call[c].pc = "checkKey" /\ call[c].late =>
              call[c].seen \/ Expired(call[c].cred.of)
        /\ call[c].pc = "checkKey" /\ call[c].seen => keys[call[c].cred.of].revoked
    BY DEF CallOK, CredOK, Judged
  <2>3. call[c].pc = "checkKey" /\ call[c].late =>
            call[c].seen \/ Expired(call[c].cred.of)'
    BY <2>2, ExpiredKept DEF Expired
  <2>4. call[c].pc = "checkKey" /\ call[c].seen => keys'[call[c].cred.of].revoked
    BY <2>2 DEF Grows
  <2>. QED  BY <2>1, <2>2, <2>3, <2>4 DEF Judged, Valid, Expired
<1>3. Admitted(call[c])'
  BY DEF CallOK, CredOK, Admitted, Grows, OwnerOf, Call, Credential
<1>. QED  BY <1>1, <1>2, <1>3 DEF CallOK

\* One call moves, to a record that is in order.
LEMMA CallMoves ==
    ASSUME AuthInv, TablesOK', Grows, NEW c \in Calls, NEW x,
           Become(c, x), x \in Call, CallOK(call[c])'
    PROVE  AuthInv'
<1>0. now' \in Nat
  BY AuthAssumption DEF TablesOK
<1>1. call' \in [Calls -> Call]
  BY DEF AuthInv, CallsOK, Become
<1>2. \A d \in Calls \ {c} : call'[d] = call[d]
  BY DEF AuthInv, CallsOK, Become
<1>3. ASSUME NEW d \in Calls PROVE CallOK(call[d])'
  <2>1. CASE d = c
    BY <2>1
  <2>2. CASE d # c
    BY <1>2, <2>2, <1>0, CallKept DEF AuthInv, CallsOK
  <2>. QED  BY <2>1, <2>2
<1>. QED  BY <1>1, <1>3 DEF AuthInv, CallsOK

LEMMA ReturnMoves ==
    ASSUME AuthInv, TablesOK', Grows, NEW c \in Calls, Return(c)
    PROVE  AuthInv'
<1>1. Become(c, Idle) /\ Idle \in Call
  BY IdleOK DEF Return, CallOK
<1>2. call'[c] = Idle
  BY <1>1 DEF Become, AuthInv, CallsOK
<1>3. CallOK(call[c])'
  BY <1>2, IdleKeptOK
<1>. QED  BY <1>1, <1>3, CallMoves

\* The tables stay as they are, time may pass.
LEMMA TablesStay ==
    ASSUME TablesOK, UNCHANGED <<tables, tokens, created>>,
           now' \in 0..MaxTime, now <= now', started' \in 0..MaxCalls
    PROVE  TablesOK' /\ Grows
<1>1. UsersOK'
  BY DEF TablesOK, UsersOK, RegisteredOnce, tables
<1>2. KeysOK'
  BY DEF TablesOK, KeysOK, tables
<1>3. TokensOK' /\ devices' \in Seq(BOOLEAN)
  BY DEF TablesOK, TokensOK, tables
<1>4. Grows
  BY DEF Grows, tables
<1>. QED  BY <1>1, <1>2, <1>3, <1>4 DEF TablesOK

\* A statement of a handler adds accounts or keys, or changes what keys and
\* devices are, as the parts of TablesOK allow.
LEMMA TablesChange ==
    ASSUME TablesOK, UNCHANGED <<tokens, now, started>>, UsersOK', KeysOK',
           DOMAIN users \subseteq DOMAIN users', devices' \in Seq(BOOLEAN)
    PROVE  TablesOK'
<1>1. TokensOK'
  BY DEF TablesOK, TokensOK
<1>. QED  BY <1>1 DEF TablesOK

-----------------------------------------------------------------------------
(* Accounts.                                                               *)

\* A new account, whether or not its registration is answered 201.
LEMMA AccountInserted ==
    ASSUME TablesOK, NEW form \in User, UsersOf(form.email) = {},
           users' = Append(users, form), UNCHANGED <<devices, keys, tokens, now, started>>,
           created' = created
           \/ created' = created \cup {[id |-> Len(users) + 1, form |-> form]}
    PROVE  TablesOK' /\ Grows
<1> DEFINE n == Len(users) + 1
<1>1. /\ users \in Seq(User) /\ created \subseteq [id : DOMAIN users, form : User]
      /\ RegisteredOnce
  BY DEF TablesOK, UsersOK
<1>2. /\ users' \in Seq(User) /\ DOMAIN users = 1..Len(users)
      /\ DOMAIN users' = 1..n /\ Len(users) \in Nat
      /\ \A u \in DOMAIN users : users'[u] = users[u]
      /\ users'[n] = form
  BY <1>1
<1> HIDE DEF n
<1>3. DOMAIN users' = DOMAIN users \cup {n}
  BY <1>2 DEF n
<1>4. \A u \in DOMAIN users : users[u].email # form.email
  BY DEF UsersOf
<1>5. \A u, v \in DOMAIN users' : users'[u].email = users'[v].email => u = v
  BY <1>1, <1>2, <1>3, <1>4 DEF RegisteredOnce
<1>6. /\ created' \subseteq [id : DOMAIN users', form : User]
      /\ \A r \in created' : users'[r.id] = r.form
  <2> DEFINE row == [id |-> n, form |-> form]
  <2>1. row \in [id : DOMAIN users', form : User] /\ row.id = n /\ row.form = form
    BY <1>3
  <2>2. created' \subseteq created \cup {row}
    BY DEF n
  <2> HIDE DEF row
  <2>3. \A r \in created : /\ r \in [id : DOMAIN users', form : User]
                           /\ users'[r.id] = r.form
    BY <1>1, <1>2, <1>3 DEF RegisteredOnce
  <2>. QED  BY <1>2, <2>1, <2>2, <2>3
<1>7. UsersOK'
  BY <1>2, <1>5, <1>6 DEF UsersOK, RegisteredOnce
<1>8. KeysOK'
  BY <1>3 DEF TablesOK, KeysOK
<1>9. devices' \in Seq(BOOLEAN) /\ DOMAIN users \subseteq DOMAIN users'
  BY <1>3 DEF TablesOK
<1>10. now <= now'
  BY KeyTypes
<1>11. Grows
  BY <1>9, <1>10 DEF Grows
<1>. QED  BY <1>7, <1>8, <1>9, <1>11, TablesChange

-----------------------------------------------------------------------------
(* Devices and keys.                                                       *)

LEMMA KeysMaintained ==
    ASSUME TablesOK, UNCHANGED <<users, tokens, now, started, created>>,
           devices' \in Seq(BOOLEAN), KeysOK',
           DOMAIN keys \subseteq DOMAIN keys',
           \A k \in DOMAIN keys : /\ keys'[k].user = keys[k].user
                                  /\ keys'[k].expires = keys[k].expires
                                  /\ keys[k].revoked => keys'[k].revoked
    PROVE  TablesOK' /\ Grows
<1>1. UsersOK'
  BY DEF TablesOK, UsersOK, RegisteredOnce
<1>2. now <= now'
  BY KeyTypes
<1>. QED  BY <1>1, <1>2, TablesChange DEF Grows

LEMMA DeviceCreated ==
    ASSUME TablesOK, UNCHANGED <<users, keys, tokens, now, started, created>>,
           NEW exists \in BOOLEAN, devices' = Append(devices, exists)
    PROVE  TablesOK' /\ Grows
<1>1. devices \in Seq(BOOLEAN)
  BY DEF TablesOK
<1>2. /\ devices' \in Seq(BOOLEAN) /\ Len(devices') = Len(devices) + 1
      /\ \A d \in 1..Len(devices) : devices'[d] = devices[d]
  BY <1>1, AppendProperties
<1>3. /\ DOMAIN devices = 1..Len(devices) /\ DOMAIN devices' = 1..Len(devices')
      /\ Len(devices) \in Nat
  BY <1>1, <1>2
<1>4. DOMAIN devices \subseteq DOMAIN devices'
  BY <1>2, <1>3
<1>5. KeysOK'
  BY <1>2, <1>3, <1>4 DEF TablesOK, KeysOK
<1>. QED  BY <1>2, <1>5, KeysMaintained

LEMMA DeviceDeleted ==
    ASSUME TablesOK, UNCHANGED <<users, tokens, now, started, created>>, NEW gone \in Nat,
           devices' = [d \in DOMAIN devices |-> devices[d] /\ d # gone],
           keys' = [k \in DOMAIN keys |->
                       IF keys[k].device = gone
                       THEN [keys[k] EXCEPT !.device = None] ELSE keys[k]]
    PROVE  TablesOK' /\ Grows
<1>1. devices \in Seq(BOOLEAN) /\ keys \in Seq(Key)
  BY DEF TablesOK, KeysOK
<1>2. devices' \in Seq(BOOLEAN) /\ DOMAIN devices' = DOMAIN devices
  <2>1. devices \in [1..Len(devices) -> BOOLEAN] /\ Len(devices) \in Nat
    BY <1>1
  <2>2. devices' \in [1..Len(devices) -> BOOLEAN]
    BY <2>1
  <2>. QED  BY <2>1, <2>2, SeqDef
<1>3. \A k \in DOMAIN keys : keys[k] \in Key
  BY <1>1
<1>4. \A k \in DOMAIN keys :
          /\ keys'[k] \in Key
          /\ keys'[k].user = keys[k].user /\ keys'[k].expires = keys[k].expires
          /\ keys'[k].revoked = keys[k].revoked
          /\ keys'[k].device = IF keys[k].device = gone THEN None ELSE keys[k].device
  BY <1>3 DEF Key, None
<1>5. keys' \in Seq(Key) /\ DOMAIN keys' = DOMAIN keys
  <2>1. DOMAIN keys = 1..Len(keys) /\ Len(keys) \in Nat
    BY <1>1
  <2>2. keys' \in [1..Len(keys) -> Key]
    BY <1>4, <2>1
  <2>3. keys' \in Seq(Key)
    BY <2>1, <2>2, SeqDef
  <2>. QED  BY <2>3
<1>6. KeysOK'
  <2>1. \A k \in DOMAIN keys :
            /\ keys[k].user \in DOMAIN users
            /\ keys[k].device # None =>
                  keys[k].device \in DOMAIN devices /\ devices[keys[k].device]
    BY DEF TablesOK, KeysOK
  <2>2. \A d \in DOMAIN devices : d # gone => (devices'[d] <=> devices[d])
    OBVIOUS
  <2>3. ASSUME NEW k \in DOMAIN keys'
        PROVE  /\ keys'[k].user \in DOMAIN users'
               /\ keys'[k].device # None =>
                     keys'[k].device \in DOMAIN devices' /\ devices'[keys'[k].device]
    <3>1. k \in DOMAIN keys /\ keys'[k].user = keys[k].user
      BY <1>4, <1>5
    <3>2. CASE keys[k].device = gone
      BY <1>4, <2>1, <3>1, <3>2
    <3>3. CASE keys[k].device # gone
      <4>1. keys'[k].device = keys[k].device
        BY <1>4, <3>1, <3>3
      <4>. QED  BY <1>2, <2>1, <2>2, <3>1, <3>3, <4>1
    <3>. QED  BY <3>2, <3>3
  <2>. QED  BY <1>5, <2>3 DEF KeysOK
<1>. QED  BY <1>2, <1>4, <1>5, <1>6, KeysMaintained

LEMMA KeyCreated ==
    ASSUME TablesOK, UNCHANGED <<users, devices, tokens, now, started, created>>,
           NEW row \in Key, row.user \in DOMAIN users, DeviceExists(row.device),
           keys' = Append(keys, row)
    PROVE  TablesOK' /\ Grows
<1>1. devices' \in Seq(BOOLEAN) /\ keys \in Seq(Key)
  BY DEF TablesOK, KeysOK
<1>2. /\ keys' \in Seq(Key) /\ DOMAIN keys' = DOMAIN keys \cup {Len(keys) + 1}
      /\ \A k \in DOMAIN keys : keys'[k] = keys[k]
      /\ keys'[Len(keys) + 1] = row
  BY <1>1
<1>3. KeysOK'
  BY <1>2 DEF TablesOK, KeysOK, DeviceExists
<1>. QED  BY <1>1, <1>2, <1>3, KeysMaintained

LEMMA KeyRevoked ==
    ASSUME TablesOK, UNCHANGED <<users, devices, tokens, now, started, created>>, NEW n,
           keys' = [k \in DOMAIN keys |->
                       IF k = n THEN [keys[k] EXCEPT !.revoked = TRUE] ELSE keys[k]]
    PROVE  TablesOK' /\ Grows
<1>1. devices' \in Seq(BOOLEAN) /\ keys \in Seq(Key)
  BY DEF TablesOK, KeysOK
<1>2. \A k \in DOMAIN keys : keys[k] \in Key
  BY <1>1
<1>3. \A k \in DOMAIN keys :
          /\ keys'[k] \in Key
          /\ keys'[k].user = keys[k].user /\ keys'[k].expires = keys[k].expires
          /\ keys[k].revoked => keys'[k].revoked
          /\ keys'[k].device = keys[k].device
  BY <1>2 DEF Key
<1>4. keys' \in Seq(Key) /\ DOMAIN keys' = DOMAIN keys
  <2>1. DOMAIN keys = 1..Len(keys) /\ Len(keys) \in Nat
    BY <1>1
  <2>2. keys' \in [1..Len(keys) -> Key]
    BY <1>3, <2>1
  <2>3. keys' \in Seq(Key)
    BY <2>1, <2>2, SeqDef
  <2>. QED  BY <2>3
<1>5. KeysOK'
  BY <1>3, <1>4 DEF TablesOK, KeysOK
<1>. QED  BY <1>1, <1>3, <1>4, <1>5, KeysMaintained

-----------------------------------------------------------------------------
(* A call on its way.                                                      *)

LEMMA FieldsOfIdle ==
    /\ Idle.form = NoUser /\ Idle.seen = FALSE /\ Idle.user = None
    /\ Idle.cred = NoCredential /\ NoCredential.kind = "none"
BY DEF Idle, NoCredential

\* A credential that can be presented was given to somebody.
LEMMA PresentableOK == ASSUME TablesOK, NEW cr \in Presentable PROVE CredOK(cr)
<1>1. CASE cr \in tokens
  BY <1>1 DEF TablesOK, TokensOK, CredOK
<1>2. CASE cr = NoCredential
  BY <1>2 DEF NoCredential, CredOK, Credential, None
<1>3. ASSUME NEW k \in DOMAIN keys, cr = [kind |-> "key", of |-> k, exp |-> 0]
      PROVE CredOK(cr)
  <2>1. k \in Nat
    BY DEF TablesOK, KeysOK
  <2>. QED  BY <1>3, <2>1 DEF CredOK, Credential
<1>. QED  BY <1>1, <1>2, <1>3 DEF Presentable

\* An admitted call acts for an account.
LEMMA AdmittedUser ==
    ASSUME AuthInv, NEW c \in Calls, call[c].pc \in {"owner", "handler"}
    PROVE  call[c].user \in DOMAIN users
<1>1. /\ CredOK(call[c].cred) /\ call[c].user = OwnerOf(call[c].cred)
      /\ call[c].cred.kind \in Accepted[call[c].via] /\ call[c].via \in DOMAIN Accepted
  BY DEF AuthInv, CallsOK, CallOK, Admitted, Call
<1>2. call[c].cred.kind \in {"jwt", "key"}
  BY <1>1 DEF Accepted
<1>. QED  BY <1>1, <1>2 DEF CredOK, OwnerOf, AuthInv, TablesOK, KeysOK

\* Steps that change no table: what a call becomes has to be in order.
LEMMA CallOnly ==
    ASSUME AuthInv, NEW c \in Calls, NEW x \in Call, Become(c, x),
           UNCHANGED <<tables, tokens, now, created>>, started' \in 0..MaxCalls,
           CallOK(x)
    PROVE  AuthInv'
<1>1. TablesOK' /\ Grows
  <2>1. now' \in 0..MaxTime /\ now <= now'
    BY KeyTypes DEF AuthInv, TablesOK
  <2>. QED  BY <2>1, TablesStay DEF AuthInv
<1>2. call'[c] = x
  BY DEF Become, AuthInv, CallsOK
<1>3. CallOK(call[c])'
  BY <1>2 DEF CallOK, CredOK, Judged, Admitted, Valid, Expired, OwnerOf, tables
<1>. QED  BY <1>1, <1>3, CallMoves

\* The record of a call that goes on to where.
LEMMA WentOn ==
    ASSUME NEW x \in Call, NEW where \in {"insertUser", "owner", "handler"}
    PROVE  LET y == [x EXCEPT !.pc = where]
           IN  /\ y \in Call /\ y.pc = where /\ y.form = x.form /\ y.via = x.via
               /\ y.op = x.op /\ y.arg = x.arg /\ y.cred = x.cred /\ y.late = x.late
               /\ y.user = x.user
BY DEF Call

LEMMA RegisterStarts ==
    ASSUME AuthInv, NEW c \in Calls, NEW form \in User, StartRegister(c, form)
    PROVE  AuthInv'
<1> DEFINE x == [Idle EXCEPT !.pc = "findEmail", !.form = form]
<1>1. /\ x \in Call /\ x.pc = "findEmail" /\ x.form = form /\ x.cred = NoCredential
  BY IdleOK DEF Idle, CallOK, Call
<1>2. /\ Become(c, x) /\ UNCHANGED <<tables, tokens, now, created>>
      /\ started < MaxCalls /\ started' = started + 1
  BY DEF StartRegister, Start
<1> HIDE DEF x
<1>3. CallOK(x)
  BY <1>1 DEF CallOK, CredOK, Judged, Admitted, NoCredential, Credential, None
<1>4. started' \in 0..MaxCalls
  BY <1>2, AuthAssumption DEF AuthInv, TablesOK
<1>. QED  BY <1>1, <1>2, <1>3, <1>4, CallOnly

LEMMA EmailFound == ASSUME AuthInv, NEW c \in Calls, FindEmail(c) PROVE AuthInv'
<1> DEFINE x == [call[c] EXCEPT !.pc = "insertUser"]
<1>1. /\ call[c] \in Call /\ call[c].form \in User /\ CredOK(call[c].cred)
  BY DEF AuthInv, CallsOK, CallOK, FindEmail
<1>2. /\ x \in Call /\ x.pc = "insertUser" /\ x.form = call[c].form
      /\ x.cred = call[c].cred
  BY <1>1, WentOn
<1>3. CallOK(x)
  <2> HIDE DEF x
  <2>. QED  BY <1>1, <1>2 DEF CallOK, Judged, Admitted
<1>4. started' \in 0..MaxCalls /\ UNCHANGED <<tables, tokens, now, created>>
  BY DEF FindEmail, AuthInv, TablesOK
<1>5. CASE Goto(c, "insertUser")
  <2>1. Become(c, x)
    BY <1>5 DEF Goto, Become
  <2> HIDE DEF x
  <2>. QED  BY <1>2, <1>3, <1>4, <2>1, CallOnly
<1>6. CASE Return(c)
  <2>1. Become(c, Idle) /\ Idle \in Call
    BY <1>6, IdleOK DEF Return, CallOK
  <2>. QED  BY <1>4, <2>1, IdleOK, CallOnly
<1>. QED  BY <1>5, <1>6 DEF FindEmail

LEMMA CallArrives ==
    ASSUME AuthInv, NEW c \in Calls, NEW via \in DOMAIN Accepted, NEW cr \in Presentable,
           NEW op \in Ops, NEW arg \in Named(op), Arrive(c, via, cr, op, arg)
    PROVE  AuthInv'
<1> DEFINE late == ~Valid(cr)
           x == [Idle EXCEPT !.pc = "verify", !.via = via, !.cred = cr, !.op = op,
                             !.arg = arg, !.late = late]
<1>1. CredOK(cr)
  BY PresentableOK DEF AuthInv
<1>2. arg \in Nat
  <2>1. DOMAIN devices \subseteq Nat /\ DOMAIN keys \subseteq Nat /\ DOMAIN users \subseteq Nat
    BY DEF AuthInv, TablesOK, KeysOK, UsersOK
  <2>. QED  BY <2>1 DEF Named, Ops, None
<1>3. late \in BOOLEAN /\ (late <=> ~Valid(cr))
  OBVIOUS
<1>4. /\ Become(c, x) /\ UNCHANGED <<tables, tokens, now, created>>
      /\ started < MaxCalls /\ started' = started + 1
  BY DEF Arrive, Start
<1> HIDE DEF late
<1>5. /\ x \in Call /\ x.pc = "verify" /\ x.cred = cr /\ x.late = late
  BY <1>1, <1>2, <1>3, IdleOK DEF Idle, CallOK, Call, CredOK
<1> HIDE DEF x
<1>6. CallOK(x)
  BY <1>1, <1>3, <1>5 DEF CallOK, Judged, Admitted
<1>7. started' \in 0..MaxCalls
  BY <1>4, AuthAssumption DEF AuthInv, TablesOK
<1>. QED  BY <1>4, <1>5, <1>6, <1>7, CallOnly

\* Admit, for a credential that is valid and may be used on the interface.
LEMMA CallAdmitted ==
    ASSUME AuthInv, NEW c \in Calls, Admit(c), ~call[c].late,
           call[c].cred.kind \in {"jwt", "key"},
           call[c].cred.kind \in Accepted[call[c].via],
           UNCHANGED <<tables, tokens, now, started, created>>
    PROVE  AuthInv'
<1> DEFINE user == OwnerOf(call[c].cred)
           where == IF call[c].op = "link" THEN "owner" ELSE "handler"
           x == [call[c] EXCEPT !.pc = where, !.user = user]
<1>1. call[c] \in Call /\ CredOK(call[c].cred) /\ TablesOK
  BY DEF AuthInv, CallsOK, CallOK
<1>2. user \in Nat
  <2>1. DOMAIN users \subseteq Nat
    BY <1>1 DEF TablesOK, UsersOK
  <2>. QED  BY <1>1, <2>1 DEF OwnerOf, CredOK, TablesOK, KeysOK
<1>3. Become(c, x)
  BY DEF Admit
<1>4. where \in {"insertUser", "owner", "handler"}
      /\ (where = "handler" => call[c].op # "link") /\ where \in {"owner", "handler"}
  OBVIOUS
<1>5. user = OwnerOf(call[c].cred)
  OBVIOUS
<1> HIDE DEF where, user
<1>6. /\ x \in Call /\ x.pc = where /\ x.via = call[c].via
      /\ x.op = call[c].op /\ x.arg = call[c].arg /\ x.cred = call[c].cred
      /\ x.late = call[c].late /\ x.user = user
  BY <1>1, <1>2, <1>4 DEF Call
<1> HIDE DEF x
<1>7. CallOK(x)
  BY <1>1, <1>4, <1>5, <1>6 DEF CallOK, Judged, Admitted
<1>8. started' \in 0..MaxCalls
  BY DEF AuthInv, TablesOK
<1>. QED  BY <1>3, <1>6, <1>7, <1>8, CallOnly

LEMMA CallRefused ==
    ASSUME AuthInv, NEW c \in Calls, Refuse(c),
           UNCHANGED <<tables, tokens, now, started, created>>
    PROVE  AuthInv'
<1>1. Become(c, Idle) /\ Idle \in Call
  BY IdleOK DEF Refuse, Return, CallOK
<1>2. started' \in 0..MaxCalls
  BY DEF AuthInv, TablesOK
<1>. QED  BY <1>1, <1>2, IdleOK, CallOnly

LEMMA JWTVerified == ASSUME AuthInv, NEW c \in Calls, VerifyJWT(c) PROVE AuthInv'
<1>1. UNCHANGED <<tables, tokens, now, started, created>>
  BY DEF VerifyJWT
<1>2. CASE Refuse(c)
  BY <1>1, <1>2, CallRefused
<1>3. CASE call[c].cred.kind = "jwt" /\ now < call[c].cred.exp /\ Admit(c)
  <2>1. Valid(call[c].cred)
    BY <1>3 DEF Valid
  <2>2. ~call[c].late
    BY <2>1 DEF VerifyJWT, AuthInv, CallsOK, CallOK, Judged
  <2>3. call[c].via \in DOMAIN Accepted /\ call[c].via # "grpc"
    BY DEF VerifyJWT, TakenForKey, AuthInv, CallsOK, Call
  <2>4. call[c].cred.kind \in Accepted[call[c].via]
    BY <1>3, <2>3 DEF Accepted
  <2>. QED  BY <1>1, <1>3, <2>2, <2>4, CallAdmitted
<1>. QED  BY <1>2, <1>3 DEF VerifyJWT

LEMMA KeyRead == ASSUME AuthInv, NEW c \in Calls, ReadKey(c) PROVE AuthInv'
<1>1. UNCHANGED <<tables, tokens, now, started, created>>
  BY DEF ReadKey
<1>2. CASE Refuse(c)
  BY <1>1, <1>2, CallRefused
<1>3. CASE ~Refuse(c)
  <2> DEFINE seen == keys[call[c].cred.of].revoked
             x == [call[c] EXCEPT !.pc = "checkKey", !.seen = seen]
  <2>1. call[c].cred.kind = "key" /\ Become(c, x) /\ call[c].pc = "verify"
        /\ TakenForKey(call[c])
    BY <1>3 DEF ReadKey
  <2>2. call[c] \in Call /\ CredOK(call[c].cred) /\ Judged(call[c]) /\ TablesOK
    BY DEF AuthInv, CallsOK, CallOK
  <2>3. seen \in BOOLEAN
    BY <2>1, <2>2, KeyTypes DEF CredOK
  <2>4. call[c].late => seen \/ Expired(call[c].cred.of)
    <3>1. call[c].late => ~Valid(call[c].cred)
      BY <2>1, <2>2 DEF Judged
    <3>2. call[c].cred.of \in DOMAIN keys
      BY <2>1, <2>2 DEF CredOK
    <3>3. keys[call[c].cred.of].expires \in Int /\ now \in Nat
      BY <2>2, <3>2, KeyTypes
    <3>. QED  BY <2>1, <3>1, <3>3 DEF Valid, Expired
  <2>5. call[c].via # "dashboard" /\ (seen => keys[call[c].cred.of].revoked)
    BY <2>1 DEF TakenForKey
  <2> HIDE DEF seen
  <2>6. /\ x \in Call /\ x.pc = "checkKey" /\ x.via = call[c].via /\ x.cred = call[c].cred
        /\ x.late = call[c].late /\ x.seen = seen
    BY <2>2, <2>3 DEF Call
  <2> HIDE DEF x
  <2>7. CallOK(x)
    BY <2>1, <2>2, <2>4, <2>5, <2>6 DEF CallOK, Judged, Admitted
  <2>8. started' \in 0..MaxCalls
    BY <1>1 DEF AuthInv, TablesOK
  <2>. QED  BY <1>1, <2>1, <2>6, <2>7, <2>8, CallOnly
<1>. QED  BY <1>2, <1>3

LEMMA KeyChecked == ASSUME AuthInv, NEW c \in Calls, CheckKey(c) PROVE AuthInv'
<1>1. UNCHANGED <<tables, tokens, now, started, created>>
  BY DEF CheckKey
<1>2. CASE call[c].seen \/ Expired(call[c].cred.of)
  BY <1>1, <1>2, CallRefused DEF CheckKey
<1>3. CASE ~ (call[c].seen \/ Expired(call[c].cred.of))
  <2>1. Admit(c) /\ call[c].pc = "checkKey"
    BY <1>3 DEF CheckKey
  <2>2. Judged(call[c]) /\ call[c].via \in DOMAIN Accepted
    BY DEF AuthInv, CallsOK, CallOK, Call
  <2>3. ~call[c].late /\ call[c].cred.kind = "key" /\ call[c].via # "dashboard"
    BY <1>3, <2>1, <2>2 DEF Judged
  <2>4. call[c].cred.kind \in Accepted[call[c].via]
    BY <2>2, <2>3 DEF Accepted
  <2>. QED  BY <1>1, <2>1, <2>3, <2>4, CallAdmitted
<1>. QED  BY <1>2, <1>3

LEMMA OwnerChecked == ASSUME AuthInv, NEW c \in Calls, CheckOwner(c) PROVE AuthInv'
<1>1. UNCHANGED <<tables, tokens, now, started, created>>
  BY DEF CheckOwner
<1>2. CASE Return(c)
  BY <1>1, <1>2, CallRefused DEF Refuse
<1>3. CASE ~Return(c)
  <2> DEFINE x == [call[c] EXCEPT !.pc = "handler"]
  <2>1. call[c].pc = "owner" /\ call[c].arg = call[c].user /\ Become(c, x)
    BY <1>3 DEF CheckOwner, Goto, Become
  <2>2. call[c] \in Call /\ CredOK(call[c].cred) /\ Admitted(call[c])
    BY DEF AuthInv, CallsOK, CallOK
  <2>3. /\ x \in Call /\ x.pc = "handler" /\ x.via = call[c].via
        /\ x.op = call[c].op /\ x.arg = call[c].arg /\ x.cred = call[c].cred
        /\ x.late = call[c].late /\ x.user = call[c].user
    BY <2>2, WentOn
  <2> HIDE DEF x
  <2>4. CallOK(x)
    BY <2>1, <2>2, <2>3 DEF CallOK, Judged, Admitted
  <2>5. started' \in 0..MaxCalls
    BY <1>1 DEF AuthInv, TablesOK
  <2>. QED  BY <1>1, <2>1, <2>3, <2>4, <2>5, CallOnly
<1>. QED  BY <1>2, <1>3

\* What the handlers do to the tables.
LEMMA EffectOK ==
    ASSUME AuthInv, NEW c \in Calls, NEW shown \in BOOLEAN, call[c].pc = "handler",
           Effect(c, shown), UNCHANGED <<tokens, now, started, created>>
    PROVE  TablesOK' /\ Grows
<1>1. TablesOK /\ call[c] \in Call /\ call[c].arg \in Nat
  BY DEF AuthInv, CallsOK, Call
<1>2. CASE CreateDevice(c)
  BY <1>1, <1>2, DeviceCreated DEF CreateDevice
<1>3. CASE DeleteDevice(c)
  BY <1>1, <1>3, DeviceDeleted DEF DeleteDevice
<1>4. CASE CreateKey(c, shown)
  <2>1. PICK expires \in {Never, now + TTL} :
            keys' = Append(keys, [user |-> call[c].user, device |-> call[c].arg,
                                  expires |-> expires, revoked |-> FALSE,
                                  shown |-> shown])
    BY <1>4 DEF CreateKey
  <2> DEFINE row == [user |-> call[c].user, device |-> call[c].arg,
                     expires |-> expires, revoked |-> FALSE, shown |-> shown]
  <2>2. expires \in Int
    BY <1>1, AuthAssumption, KeyTypes DEF Never
  <2>3. call[c].user \in DOMAIN users /\ call[c].user \in Nat
    BY <1>1, AdmittedUser DEF Call
  <2>4. row \in Key /\ row.user = call[c].user /\ row.device = call[c].arg
    BY <1>1, <2>2, <2>3 DEF Key
  <2>5. keys' = Append(keys, row)
    BY <2>1
  <2> HIDE DEF row
  <2>. QED  BY <1>1, <1>4, <2>3, <2>4, <2>5, KeyCreated DEF CreateKey
<1>5. CASE RevokeKey(c)
  BY <1>1, <1>5, KeyRevoked DEF RevokeKey
<1>. QED  BY <1>2, <1>3, <1>4, <1>5 DEF Effect

LEMMA NothingDone ==
    ASSUME AuthInv, UNCHANGED <<tables, tokens, now, started, created>>
    PROVE  TablesOK' /\ Grows
<1>1. /\ now' \in 0..MaxTime /\ now <= now' /\ started' \in 0..MaxCalls
  BY KeyTypes DEF AuthInv, TablesOK
<1>. QED  BY <1>1, TablesStay DEF AuthInv

LEMMA AuthStep == AuthInv /\ [AuthNext]_authVars => AuthInv'
<1> SUFFICES ASSUME AuthInv, [AuthNext]_authVars PROVE AuthInv'
  OBVIOUS
<1>1. ASSUME NEW form \in User, Login(form) PROVE AuthInv'
  <2>1. PICK u \in DOMAIN users :
            tokens' = tokens \cup {[kind |-> "jwt", of |-> u, exp |-> now + TTL]}
    BY <1>1 DEF Login
  <2>2. UNCHANGED <<tables, now, call, started, created>>
    BY <1>1 DEF Login
  <2>3. u \in Nat /\ now + TTL \in Nat
    BY KeyTypes, AuthAssumption DEF AuthInv, TablesOK, UsersOK
  <2>4. TokensOK'
    BY <2>1, <2>2, <2>3 DEF AuthInv, TablesOK, TokensOK, Credential, tables
  <2>5. UsersOK' /\ KeysOK'
    BY <2>2 DEF AuthInv, TablesOK, UsersOK, KeysOK, RegisteredOnce, tables
  <2>6. TablesOK'
    BY <2>2, <2>4, <2>5 DEF AuthInv, TablesOK, tables
  <2>7. CallsOK'
    BY <2>2 DEF AuthInv, CallsOK, CallOK, CredOK, Judged, Admitted, Valid, Expired,
                OwnerOf, tables
  <2>. QED  BY <2>6, <2>7 DEF AuthInv
<1>2. ASSUME NEW form \in User, NEW c \in Calls, StartRegister(c, form) PROVE AuthInv'
  BY <1>2, RegisterStarts
<1>3. ASSUME NEW c \in Calls, NEW via \in DOMAIN Accepted, NEW cr \in Presentable,
             NEW op \in Ops, NEW arg \in Named(op), Arrive(c, via, cr, op, arg)
      PROVE  AuthInv'
  BY <1>3, CallArrives
<1>4. ASSUME NEW c \in Calls, FindEmail(c) PROVE AuthInv'
  BY <1>4, EmailFound
<1>5. ASSUME NEW c \in Calls, InsertUser(c) \/ InsertUserFails(c) PROVE AuthInv'
  <2>1. call[c].form \in User /\ TablesOK
    BY <1>5 DEF InsertUser, InsertUserFails, AuthInv, CallsOK, CallOK
  <2>2. Return(c) /\ UNCHANGED <<devices, keys, tokens, now, started>>
    BY <1>5 DEF InsertUser, InsertUserFails
  <2>3. CASE UsersOf(call[c].form.email) = {}
    <3>1. /\ users' = Append(users, call[c].form)
          /\ \/ created' = created
             \/ created' = created \cup {[id |-> Len(users) + 1, form |-> call[c].form]}
      BY <1>5, <2>3 DEF InsertUser, InsertUserFails
    <3>. QED  BY <2>1, <2>2, <2>3, <3>1, AccountInserted, ReturnMoves
  <2>4. CASE UsersOf(call[c].form.email) # {}
    <3>1. UNCHANGED <<tables, tokens, now, started, created>>
      BY <1>5, <2>4 DEF InsertUser, InsertUserFails, tables
    <3>. QED  BY <2>2, <3>1, NothingDone, ReturnMoves
  <2>. QED  BY <2>3, <2>4
<1>6. ASSUME NEW c \in Calls, VerifyJWT(c) \/ ReadKey(c) \/ CheckKey(c) \/ CheckOwner(c)
      PROVE  AuthInv'
  BY <1>6, JWTVerified, KeyRead, KeyChecked, OwnerChecked
<1>7. ASSUME NEW c \in Calls, ReadKeyFails(c) PROVE AuthInv'
  BY <1>7, CallRefused DEF ReadKeyFails
<1>8. ASSUME NEW c \in Calls, Handle(c) PROVE AuthInv'
  <2>1. TablesOK' /\ Grows
    BY <1>8, EffectOK, NothingDone DEF Handle, OtherRoute
  <2>. QED  BY <1>8, <2>1, ReturnMoves DEF Handle
<1>9. ASSUME NEW c \in Calls, HandleFails(c) PROVE AuthInv'
  <2>1. TablesOK' /\ Grows
    BY <1>9, EffectOK, NothingDone DEF HandleFails
  <2>. QED  BY <1>9, <2>1, ReturnMoves DEF HandleFails
<1>10. CASE Tick
  <2>1. /\ now' \in 0..MaxTime /\ now <= now' /\ now' \in Nat
        /\ UNCHANGED <<tables, tokens, call, started, created>>
    BY <1>10, KeyTypes, AuthAssumption DEF Tick, AuthInv, TablesOK
  <2>2. TablesOK' /\ Grows
    BY <2>1, TablesStay DEF AuthInv, TablesOK
  <2>3. ASSUME NEW c \in Calls PROVE CallOK(call[c])'
    BY <2>1, <2>2, CallKept DEF AuthInv, CallsOK
  <2>. QED  BY <2>1, <2>2, <2>3 DEF AuthInv, CallsOK
<1>11. CASE UNCHANGED authVars
  <2>1. UNCHANGED <<tables, tokens, now, call, started, created>>
    BY <1>11 DEF authVars, tables
  <2>2. TablesOK'
    BY <2>1, NothingDone
  <2>3. CallsOK'
    BY <2>1 DEF AuthInv, CallsOK, CallOK, CredOK, Judged, Admitted, Valid, Expired,
                OwnerOf, tables
  <2>. QED  BY <2>2, <2>3 DEF AuthInv
<1>. QED
  BY <1>1, <1>2, <1>3, <1>4, <1>5, <1>6, <1>7, <1>8, <1>9, <1>10, <1>11 DEF AuthNext

-----------------------------------------------------------------------------

\* Accounts, keys, devices, tokens and calls always have their types; a key
\* belongs to an account and to no device that has been deleted.
THEOREM AuthTypeTheorem == AuthSpec => []AuthTypeOK
<1>1. AuthInv => AuthTypeOK
  BY DEF AuthInv, TablesOK, CallsOK, UsersOK, KeysOK, TokensOK, AuthTypeOK
<1>. QED  BY <1>1, AuthInitInv, AuthStep, PTL DEF AuthSpec

\* Registrations of one email that run together create one account, and a 201 is
\* given only for the account that was inserted (Register, UserRepo.Create).
THEOREM RegisteredOnceTheorem == AuthSpec => []RegisteredOnce
<1>1. AuthInv => RegisteredOnce
  BY DEF AuthInv, TablesOK, UsersOK
<1>. QED  BY <1>1, AuthInitInv, AuthStep, PTL DEF AuthSpec

\* A handler runs only for a call whose credential was good when it arrived and
\* may be used on the interface, on behalf of its owner, and on a link of that
\* owner, however keys are revoked and time passes while it is verified
\* (RequireAuth, VerifyAPIKey, RequireLinkOwnership).
THEOREM AdmittedTheorem == AuthSpec => []AdmittedJustified
<1>1. AuthInv => AdmittedJustified
  BY DEF AuthInv, CallsOK, CallOK, Admitted, AdmittedJustified
<1>. QED  BY <1>1, AuthInitInv, AuthStep, PTL DEF AuthSpec

-----------------------------------------------------------------------------
(* Nobody is turned away without a reason.                                 *)

\* Why a call may be refused while it is authenticated.
Justified(c) ==
    \/ call[c].cred.kind \notin Accepted[call[c].via]
    \/ ~Valid(call[c].cred)
    \/ DBFails /\ call[c].pc = "verify" /\ call[c].cred.kind = "key"

\* Admit and the steps on to checkKey do not answer the call.
LEMMA NotIdle ==
    ASSUME AuthInv, NEW c \in Calls, NEW x, Become(c, x), x.pc # "idle"
    PROVE  ~Refused(c)
BY DEF Refused, Become, AuthInv, CallsOK

LEMMA JWTRefusal ==
    ASSUME AuthInv, NEW c \in Calls, VerifyJWT(c), Refused(c) PROVE Justified(c)
<1>1. call[c] \in Call /\ call[c].via \in DOMAIN Accepted /\ call[c].cred \in Credential
  BY DEF AuthInv, CallsOK, Call
<1>2. ~ (call[c].cred.kind = "jwt" /\ now < call[c].cred.exp)
  <2> SUFFICES ASSUME Admit(c) PROVE FALSE
    BY DEF VerifyJWT
  <2> DEFINE x == [call[c] EXCEPT !.pc = IF call[c].op = "link"
                                         THEN "owner" ELSE "handler",
                                  !.user = OwnerOf(call[c].cred)]
  <2>1. Become(c, x)
    BY DEF Admit
  <2>2. x.pc # "idle"
    BY <1>1 DEF Call
  <2> HIDE DEF x
  <2>. QED  BY <2>1, <2>2, NotIdle
<1>3. CASE call[c].cred.kind = "jwt"
  BY <1>2, <1>3 DEF Justified, Valid
<1>4. CASE call[c].cred.kind = "key"
  <2>1. call[c].via = "dashboard"
    BY <1>1, <1>4 DEF VerifyJWT, TakenForKey, Accepted
  <2>. QED  BY <1>4, <2>1 DEF Justified, Accepted
<1>5. CASE call[c].cred.kind = "none"
  BY <1>1, <1>5 DEF Justified, Accepted
<1>. QED  BY <1>1, <1>3, <1>4, <1>5 DEF Credential

LEMMA KeyRefusal ==
    ASSUME AuthInv, NEW c \in Calls, ReadKey(c) \/ ReadKeyFails(c), Refused(c)
    PROVE  Justified(c)
<1>1. TakenForKey(call[c]) /\ call[c].pc = "verify"
  BY DEF ReadKey, ReadKeyFails
<1>2. CASE call[c].cred.kind # "key"
  <2>1. call[c].via = "grpc"
    BY <1>1, <1>2 DEF TakenForKey
  <2>. QED  BY <1>2, <2>1 DEF Justified, Accepted
<1>3. CASE call[c].cred.kind = "key"
  <2>1. ReadKeyFails(c)
    <3> SUFFICES ASSUME ReadKey(c) PROVE FALSE
      OBVIOUS
    <3> DEFINE x == [call[c] EXCEPT !.pc = "checkKey",
                                    !.seen = keys[call[c].cred.of].revoked]
    <3>1. Become(c, x)
      BY <1>3 DEF ReadKey
    <3>2. x.pc # "idle"
      BY DEF AuthInv, CallsOK, Call
    <3> HIDE DEF x
    <3>. QED  BY <3>1, <3>2, NotIdle
  <2>. QED  BY <1>1, <1>3, <2>1 DEF ReadKeyFails, Justified
<1>. QED  BY <1>2, <1>3

LEMMA CheckRefusal ==
    ASSUME AuthInv, NEW c \in Calls, CheckKey(c), Refused(c) PROVE Justified(c)
<1>1. /\ call[c] \in Call /\ call[c].cred.kind = "key" /\ call[c].cred.of \in DOMAIN keys
      /\ call[c].seen => keys[call[c].cred.of].revoked
  BY DEF AuthInv, CallsOK, CallOK, CredOK, Judged, CheckKey
<1>2. call[c].seen \/ Expired(call[c].cred.of)
  <2> SUFFICES ASSUME Admit(c) PROVE FALSE
    BY DEF CheckKey
  <2> DEFINE x == [call[c] EXCEPT !.pc = IF call[c].op = "link"
                                         THEN "owner" ELSE "handler",
                                  !.user = OwnerOf(call[c].cred)]
  <2>1. Become(c, x)
    BY DEF Admit
  <2>2. x.pc # "idle"
    BY <1>1 DEF Call
  <2> HIDE DEF x
  <2>. QED  BY <2>1, <2>2, NotIdle
<1>3. keys[call[c].cred.of].expires \in Int /\ now \in Nat
  BY <1>1, KeyTypes DEF AuthInv
<1>4. ~Valid(call[c].cred)
  BY <1>1, <1>2, <1>3 DEF Valid, Expired
<1>. QED  BY <1>4 DEF Justified

\* The other actions do not touch a call that is being authenticated.
LEMMA RefusalStep ==
    ASSUME AuthInv, AuthNext, NEW c \in Calls, Refused(c) PROVE Justified(c)
<1>1. call[c].pc \in {"verify", "checkKey"} /\ call'[c] # call[c]
  BY DEF Refused
<1>2. ASSUME NEW d \in Calls, NEW x, Become(d, x) PROVE d = c
  BY <1>1, <1>2 DEF Become, AuthInv, CallsOK
<1>3. ASSUME NEW d \in Calls, NEW where, Goto(d, where) PROVE d = c
  BY <1>1, <1>3 DEF Goto, AuthInv, CallsOK
<1>4. ASSUME NEW form \in User, Login(form) PROVE Justified(c)
  BY <1>1, <1>4 DEF Login
<1>5. ASSUME NEW form \in User, NEW d \in Calls, StartRegister(d, form)
      PROVE  Justified(c)
  BY <1>1, <1>2, <1>5 DEF StartRegister, Start
<1>6. ASSUME NEW d \in Calls, NEW via \in DOMAIN Accepted, NEW cr \in Presentable,
             NEW op \in Ops, NEW arg \in Named(op), Arrive(d, via, cr, op, arg)
      PROVE  Justified(c)
  BY <1>1, <1>2, <1>6 DEF Arrive, Start
<1>7. ASSUME NEW d \in Calls,
             \/ FindEmail(d) \/ InsertUser(d) \/ InsertUserFails(d)
             \/ CheckOwner(d) \/ Handle(d) \/ HandleFails(d)
      PROVE  Justified(c)
  <2>1. d = c
    BY <1>2, <1>3, <1>7 DEF FindEmail, InsertUser, InsertUserFails, CheckOwner, Handle,
                            HandleFails, Return
  <2>2. call[d].pc \notin {"verify", "checkKey"}
    BY <1>7 DEF FindEmail, InsertUser, InsertUserFails, CheckOwner, Handle, HandleFails
  <2>. QED  BY <1>1, <2>1, <2>2
<1>8. ASSUME NEW d \in Calls, VerifyJWT(d) \/ ReadKey(d) \/ ReadKeyFails(d) \/ CheckKey(d)
      PROVE  Justified(c)
  <2>1. d = c
    BY <1>2, <1>8 DEF VerifyJWT, ReadKey, ReadKeyFails, CheckKey, Admit, Refuse, Return
  <2>. QED  BY <1>8, <2>1, JWTRefusal, KeyRefusal, CheckRefusal
<1>9. CASE Tick
  BY <1>1, <1>9 DEF Tick
<1>. QED  BY <1>4, <1>5, <1>6, <1>7, <1>8, <1>9 DEF AuthNext

\* A call is turned away only when its credential is of the wrong kind for the
\* interface or not valid (any more), or when the lookup of its key failed
\* (VerifyJWT, VerifyAPIKey).
THEOREM RefusedTheorem == AuthSpec => RefusedJustified
<1>1. ASSUME AuthInv, [AuthNext]_authVars
      PROVE  [\A c \in Calls : Refused(c) => Justified(c)]_authVars
  BY <1>1, RefusalStep
<1>. QED
  BY <1>1, AuthInitInv, AuthStep, PTL DEF AuthSpec, RefusedJustified, Justified

-----------------------------------------------------------------------------
(* PolicyResolver: the loop of Resolve.                                    *)

Turn(s, before, i) == IF i = 0 THEN Unlimited ELSE MinEachField(before[i - 1], s[i])

\* f holds what the loop has after each of its first n turns.
Loop(f, s, n) == f = [i \in 0..n |-> Turn(s, f, i)]

\* A set of numbers that holds 0 and the successor of each of its members below
\* n holds every number up to n.
LEMMA EveryTurn ==
    ASSUME NEW n \in Nat, NEW good \in SUBSET Nat, 0 \in good,
           \A i \in Nat : i \in good /\ i < n => i + 1 \in good
    PROVE  \A i \in 0..n : i \in good
<1> DEFINE Less == OpToRel(<, Nat)
           bad == {i \in 0..n : i \notin good}
<1>. SUFFICES ASSUME bad # {} PROVE FALSE
  OBVIOUS
<1>1. \E k \in bad : \A m \in bad : ~ (<<m, k>> \in Less)
  <2>1. IsWellFoundedOn(Less, Nat)
    BY NatLessThanWellFounded, Zenon
  <2> HIDE DEF Less
  <2>2. bad \subseteq Nat /\ bad # {}
    OBVIOUS
  <2> HIDE DEF bad
  <2>. QED  BY <2>1, <2>2, WFMin
<1>2. PICK k \in bad : \A m \in bad : ~ (m < k)
  <2>1. \A m \in Nat, k \in Nat : m < k => <<m, k>> \in Less
    BY DEF OpToRel
  <2>2. \A m \in bad : m \in Nat
    OBVIOUS
  <2> HIDE DEF Less, bad
  <2>. QED  BY <1>1, <2>1, <2>2
<1>3. k \in Nat /\ k # 0 /\ k <= n /\ k - 1 \in Nat /\ k - 1 < n /\ k - 1 + 1 = k
  OBVIOUS
<1>4. k - 1 \in good
  BY <1>2, <1>3
<1>. QED  BY <1>3, <1>4

\* The loop runs.
LEMMA LoopRuns ==
    ASSUME NEW s, NEW n \in Nat
    PROVE  \E f : Loop(f, s, n)
<1> DEFINE good == {i \in Nat : \E f : Loop(f, s, i)}
<1>1. 0 \in good
  <2> DEFINE g == [i \in 0..0 |-> Unlimited]
  <2>1. g = [i \in 0..0 |-> Turn(s, g, i)]
    BY DEF Turn
  <2>2. Loop(g, s, 0)
    BY <2>1 DEF Loop
  <2>. QED  BY <2>2
<1>2. ASSUME NEW i \in Nat, i \in good PROVE i + 1 \in good
  <2>1. PICK f : Loop(f, s, i)
    BY <1>2
  <2> DEFINE g == [j \in 0..(i + 1) |-> IF j = i + 1 THEN MinEachField(f[i], s[i + 1]) ELSE f[j]]
  <2>2. \A j \in 0..(i + 1) : g[j] = Turn(s, g, j)
    <3>. SUFFICES ASSUME NEW j \in 0..(i + 1) PROVE g[j] = Turn(s, g, j)
      OBVIOUS
    <3>1. CASE j = i + 1
      <4>1. j # 0 /\ j - 1 = i /\ i \in 0..(i + 1) /\ i # i + 1
        BY <3>1
      <4>2. g[i] = f[i]
        BY <4>1
      <4>3. Turn(s, g, j) = MinEachField(f[i], s[i + 1])
        BY <3>1, <4>1, <4>2 DEF Turn
      <4>. QED  BY <3>1, <4>3
    <3>2. CASE j # i + 1
      <4>1. j \in 0..i
        BY <3>2
      <4>2. g[j] = f[j]
        BY <3>2
      <4>3. f[j] = Turn(s, f, j)
        BY <2>1, <4>1 DEF Loop
      <4>4. j = 0 \/ (j - 1 \in 0..(i + 1) /\ j - 1 # i + 1)
        BY <4>1
      <4>5. j = 0 \/ g[j - 1] = f[j - 1]
        BY <4>4
      <4>. QED  BY <4>2, <4>3, <4>5 DEF Turn
    <3>. QED  BY <3>1, <3>2
  <2>3. g = [j \in 0..(i + 1) |-> Turn(s, g, j)]
    <3>1. g = [j \in 0..(i + 1) |-> g[j]]
      OBVIOUS
    <3> HIDE DEF g
    <3>. QED  BY <2>2, <3>1
  <2>4. Loop(g, s, i + 1)
    <3> HIDE DEF g
    <3>. QED  BY <2>3 DEF Loop
  <2>5. \E h : Loop(h, s, i + 1)
    BY <2>4
  <2>. QED  BY <2>5
<1> HIDE DEF good
<1>3. good \in SUBSET Nat
  BY DEF good
<1>4. n \in 0..n
  OBVIOUS
<1>5. n \in good
  BY <1>1, <1>2, <1>3, <1>4, EveryTurn
<1>. QED  BY <1>5 DEF good

LEMMA ResolveLoop ==
    ASSUME NEW s, Len(s) \in Nat
    PROVE  \E f : Loop(f, s, Len(s)) /\ Resolve(s) = f[Len(s)]
<1> DEFINE eff == CHOOSE f : f = [i \in 0..Len(s) |->
                      IF i = 0 THEN Unlimited ELSE MinEachField(f[i - 1], s[i])]
<1>1. Resolve(s) = eff[Len(s)]
  BY DEF Resolve
<1>2. PICK f : Loop(f, s, Len(s))
  BY LoopRuns
<1>3. f = [i \in 0..Len(s) |-> IF i = 0 THEN Unlimited ELSE MinEachField(f[i - 1], s[i])]
  BY <1>2, Zenon DEF Loop, Turn
<1>4. eff = [i \in 0..Len(s) |-> IF i = 0 THEN Unlimited ELSE MinEachField(eff[i - 1], s[i])]
  BY <1>3, Zenon
<1> HIDE DEF eff
<1>5. Loop(eff, s, Len(s))
  BY <1>4, Zenon DEF Loop, Turn
<1>. QED  BY <1>1, <1>5

-----------------------------------------------------------------------------
(* What the loop computes.                                                 *)

\* minPtr keeps the least limit of those seen so far.
LEMMA MinPtrLeast ==
    ASSUME NEW a \in Optional, NEW b \in Optional, NEW seen \in SUBSET Int, IsLeast(a, seen)
    PROVE  /\ MinPtr(a, b) \in Optional
           /\ IsLeast(MinPtr(a, b), seen \cup ({b} \ {Nil}))
<1>1. MinPtr(a, b) \in Optional
  BY DEF MinPtr
<1>2. CASE b = Nil
  <2>1. MinPtr(a, b) = a /\ seen \cup ({b} \ {Nil}) = seen
    BY <1>2 DEF MinPtr
  <2>. QED  BY <1>1, <2>1
<1>3. CASE b # Nil /\ seen = {}
  <2>1. a = Nil /\ b \in Int
    BY <1>3 DEF IsLeast, Optional
  <2>2. MinPtr(a, b) = b /\ seen \cup ({b} \ {Nil}) = {b}
    BY <1>3, <2>1 DEF MinPtr
  <2>. QED  BY <1>1, <2>1, <2>2 DEF IsLeast
<1>4. CASE b # Nil /\ seen # {}
  <2>1. a \in seen /\ b \in Int /\ a \in Int /\ \A w \in seen : a <= w /\ w \in Int
    BY <1>4 DEF IsLeast, Optional
  <2>2. MinPtr(a, b) = IF a < b THEN a ELSE b
    BY <1>4, <2>1, NilAssumption DEF MinPtr
  <2>3. seen \cup ({b} \ {Nil}) = seen \cup {b}
    BY <1>4
  <2>4. MinPtr(a, b) \in seen \cup {b} /\ \A w \in seen \cup {b} : MinPtr(a, b) <= w
    BY <2>1, <2>2
  <2>. QED  BY <1>1, <2>3, <2>4 DEF IsLeast
<1>. QED  BY <1>2, <1>3, <1>4

FieldNames == {"maxRequests", "maxBytes", "maxTTL", "maxViolations"}

\* The limit the fold starts from.
DefaultOf(field) == IF field = "maxViolations" THEN {DefaultMaxViolationCount} ELSE {}

\* The limits the first n policies of s state for a field, and where it starts.
Seen(s, n, field) == ({s[i][field] : i \in 1..n} \ {Nil}) \cup DefaultOf(field)

LEMMA RowFields ==
    ASSUME NEW row \in Rows, NEW field \in FieldNames
    PROVE  row[field] \in Optional
BY DEF Rows, FieldNames

LEMMA TurnFields ==
    ASSUME NEW eff \in Rows, NEW row \in Rows
    PROVE  /\ MinEachField(eff, row) \in Rows
           /\ \A field \in FieldNames :
                 MinEachField(eff, row)[field] = MinPtr(eff[field], row[field])
<1>1. \A field \in FieldNames : MinPtr(eff[field], row[field]) \in Optional
  BY RowFields DEF MinPtr
<1>2. \A field \in FieldNames :
         MinEachField(eff, row)[field] = MinPtr(eff[field], row[field])
  BY DEF FieldNames, MinEachField
<1>3. MinEachField(eff, row) \in Rows
  BY <1>1 DEF FieldNames, MinEachField, Rows
<1>. QED  BY <1>2, <1>3

LEMMA LoopLeast ==
    ASSUME NEW s \in Seq(Rows), NEW f, Loop(f, s, Len(s))
    PROVE  /\ f[Len(s)] \in Rows
           /\ \A field \in FieldNames :
                 IsLeast(f[Len(s)][field], Seen(s, Len(s), field))
<1> DEFINE good == {i \in Nat : i <= Len(s) =>
                       /\ f[i] \in Rows
                       /\ \A field \in FieldNames : IsLeast(f[i][field], Seen(s, i, field))}
<1>0. Len(s) \in Nat /\ \A i \in 1..Len(s) : s[i] \in Rows
  BY LenProperties
<1>1. 0 \in good
  <2>1. f[0] = Unlimited
    BY <1>0 DEF Loop, Turn
  <2>2. Unlimited \in Rows
    BY DEF Unlimited, Rows, Optional, DefaultMaxViolationCount
  <2>3. ASSUME NEW field \in FieldNames PROVE IsLeast(Unlimited[field], Seen(s, 0, field))
    <3>1. Seen(s, 0, field) = DefaultOf(field)
      <4>1. 1..0 = {}
        OBVIOUS
      <4>. QED  BY <4>1 DEF Seen
    <3>2. IsLeast(Unlimited[field], DefaultOf(field))
      BY DEF IsLeast, Unlimited, DefaultOf, FieldNames, DefaultMaxViolationCount
    <3>. QED  BY <3>1, <3>2
  <2>. QED  BY <2>1, <2>2, <2>3
<1>2. ASSUME NEW i \in Nat, i \in good, i < Len(s) PROVE i + 1 \in good
  <2>1. f[i] \in Rows /\ \A field \in FieldNames : IsLeast(f[i][field], Seen(s, i, field))
    BY <1>0, <1>2
  <2>2. i + 1 \in 1..Len(s) /\ i + 1 \in 0..Len(s) /\ i + 1 # 0 /\ (i + 1) - 1 = i
    BY <1>0, <1>2
  <2>3. f[i + 1] = MinEachField(f[i], s[i + 1])
    <3>1. f[i + 1] = Turn(s, f, i + 1)
      BY <2>2 DEF Loop
    <3>. QED  BY <2>2, <3>1 DEF Turn
  <2>4. s[i + 1] \in Rows
    BY <1>0, <2>2
  <2>5. f[i + 1] \in Rows
    BY <2>1, <2>3, <2>4, TurnFields
  <2>6. ASSUME NEW field \in FieldNames
        PROVE  IsLeast(f[i + 1][field], Seen(s, i + 1, field))
    <3> DEFINE b == s[i + 1][field]
               seen == Seen(s, i, field)
    <3>1. Seen(s, i + 1, field) = seen \cup ({b} \ {Nil})
      <4>1. 1..(i + 1) = (1..i) \cup {i + 1}
        OBVIOUS
      <4>2. {s[j][field] : j \in 1..(i + 1)} = {s[j][field] : j \in 1..i} \cup {b}
        BY <4>1
      <4>. QED  BY <4>2 DEF Seen
    <3>2. seen \in SUBSET Int
      <4>1. \A j \in 1..i : s[j] \in Rows
        BY <1>0, <1>2
      <4>2. \A j \in 1..i : s[j][field] \in Optional
        BY <4>1, RowFields
      <4>3. DefaultOf(field) \in SUBSET Int
        BY DEF DefaultOf, DefaultMaxViolationCount
      <4>. QED  BY <4>2, <4>3 DEF Seen, Optional
    <3>3. b \in Optional /\ f[i][field] \in Optional /\ IsLeast(f[i][field], seen)
      BY <2>1, <2>4, RowFields
    <3>4. f[i + 1][field] = MinPtr(f[i][field], b)
      BY <2>1, <2>3, <2>4, TurnFields
    <3> HIDE DEF b, seen
    <3>5. IsLeast(MinPtr(f[i][field], b), seen \cup ({b} \ {Nil}))
      BY <3>2, <3>3, MinPtrLeast
    <3>. QED  BY <3>1, <3>4, <3>5
  <2>. QED  BY <2>5, <2>6
<1>3. Len(s) \in good
  <2>1. good \in SUBSET Nat /\ Len(s) \in 0..Len(s)
    BY <1>0
  <2> HIDE DEF good
  <2>. QED  BY <1>0, <1>1, <1>2, <2>1, EveryTurn
<1>. QED  BY <1>0, <1>3

\* Whatever the list of policies: every limit of the result is the least of
\* those stated and the one the loop starts from (Resolve, minPtr).
LEMMA ResolveLeast ==
    ASSUME NEW s \in Seq(Rows), NEW field \in FieldNames
    PROVE  IsLeast(Resolve(s)[field], Seen(s, Len(s), field))
<1>1. Len(s) \in Nat
  BY LenProperties
<1>2. PICK f : Loop(f, s, Len(s)) /\ Resolve(s) = f[Len(s)]
  BY <1>1, ResolveLoop
<1>. QED  BY <1>2, LoopLeast

-----------------------------------------------------------------------------
(* The attached policies.                                                  *)

\* For every list of policies, however they are attached and deleted and in
\* whatever order the query returns them, with limits of either sign: each
\* optional limit of the effective policy is the least that is stated; the
\* violation limit is no looser than any that is stated, and is one of them or
\* the default of 3 (PolicyResolver.Resolve, minPtr).
THEOREM ResolverTheorem == ResolverSpec => []MostRestrictiveWins
<1> DEFINE Inv == attached \in Seq(Rows)
<1>1. ResolverInit => Inv
  BY DEF ResolverInit
<1>2. Inv /\ [ResolverNext]_attached => Inv'
  <2>. SUFFICES ASSUME Inv, [ResolverNext]_attached PROVE attached' \in Seq(Rows)
    OBVIOUS
  <2>0. Len(attached) \in Nat
    BY LenProperties
  <2>1. ASSUME NEW p \in Policies, NEW i \in 1..Len(attached) + 1, AttachPolicy(p, i)
        PROVE  attached' \in Seq(Rows)
    <3>1. attached' = SubSeq(attached, 1, i - 1) \o <<p>> \o SubSeq(attached, i, Len(attached))
      BY <2>1 DEF AttachPolicy, InsertAt
    <3>2. SubSeq(attached, 1, i - 1) \in Seq(Rows)
      BY <2>0, SubSeqProperties
    <3>3. SubSeq(attached, i, Len(attached)) \in Seq(Rows)
      BY <2>0, SubSeqProperties
    <3>4. <<p>> \in Seq(Rows)
      BY ResolverAssumption
    <3>. QED  BY <3>1, <3>2, <3>3, <3>4, ConcatProperties
  <2>2. ASSUME NEW i \in DOMAIN attached, Delete(i)
        PROVE  attached' \in Seq(Rows)
    <3>0. i \in 1..Len(attached)
      BY LenProperties
    <3>1. attached' = SubSeq(attached, 1, i - 1) \o SubSeq(attached, i + 1, Len(attached))
      BY <2>2 DEF Delete, RemoveAt
    <3>2. SubSeq(attached, 1, i - 1) \in Seq(Rows)
      BY <2>0, <3>0, SubSeqProperties
    <3>3. SubSeq(attached, i + 1, Len(attached)) \in Seq(Rows)
      BY <2>0, <3>0, SubSeqProperties
    <3>. QED  BY <3>1, <3>2, <3>3, ConcatProperties
  <2>. QED  BY <2>1, <2>2 DEF ResolverNext
<1>3. Inv => MostRestrictiveWins
  <2>. SUFFICES ASSUME Inv PROVE MostRestrictiveWins
    OBVIOUS
  <2>0. DOMAIN attached = 1..Len(attached)
    BY LenProperties
  <2>1. ASSUME NEW field \in {"maxRequests", "maxBytes", "maxTTL"}
        PROVE  IsLeast(Resolve(attached)[field], Stated(field))
    <3>1. field \in FieldNames /\ Seen(attached, Len(attached), field) = Stated(field)
      BY <2>0 DEF FieldNames, Seen, DefaultOf, Stated
    <3>. QED  BY <3>1, ResolveLeast
  <2>2. IsLeast(Resolve(attached).maxViolations,
                Stated("maxViolations") \cup {DefaultMaxViolationCount})
    <3>1. /\ "maxViolations" \in FieldNames
          /\ Seen(attached, Len(attached), "maxViolations")
                = Stated("maxViolations") \cup {DefaultMaxViolationCount}
      BY <2>0 DEF FieldNames, Seen, DefaultOf, Stated
    <3>. QED  BY <3>1, ResolveLeast
  <2>3. /\ \A w \in Stated("maxViolations") : Resolve(attached).maxViolations <= w
        /\ Resolve(attached).maxViolations
              \in Stated("maxViolations") \cup {DefaultMaxViolationCount}
    BY <2>2 DEF IsLeast
  <2>. QED  BY <2>1, <2>3 DEF MostRestrictiveWins
<1>. QED  BY <1>1, <1>2, <1>3, PTL DEF ResolverSpec


=============================================================================
