-------------------------------- MODULE Auth --------------------------------
(***************************************************************************)
(* Who may call the control plane: accounts (AuthService.Register, Login), *)
(* JWTs, API keys and the devices they belong to, and the way of a call    *)
(* through RequireAuth, RequireSessionCookie or the gRPC interceptor, and  *)
(* through RequireLinkOwnership, to its handler.  A step is one SQL        *)
(* statement, or what is computed between two of them; other calls run in  *)
(* between, keys are revoked and time passes.                              *)
(*                                                                         *)
(* Accounts, devices and keys are numbered in the order of insertion.  A   *)
(* link is known by its owner, who never changes.                          *)
(***************************************************************************)
EXTENDS Integers, Sequences, FiniteSets

CONSTANTS
    Calls,       \* API calls served at the same time
    Emails,
    Passwords,
    TTL,         \* lifetime of a JWT, and of a key that is given one
    MaxTime,     \* bound: clock ticks
    MaxCalls,    \* bound: calls started
    MaxTokens,   \* bound: JWTs issued
    DBFails      \* whether a statement may fail

ASSUME AuthAssumption ==
    /\ Emails # {} /\ Passwords # {}
    /\ TTL \in Nat \ {0}
    /\ MaxTime \in Nat
    /\ MaxCalls \in Nat
    /\ MaxTokens \in Nat
    /\ DBFails \in BOOLEAN

VARIABLES
    users,     \* table users: [email, password]
    devices,   \* table devices: whether the row still exists
    keys,      \* table api_keys, see Key
    tokens,    \* JWTs that have been issued
    now,
    call,      \* Calls -> the call being served, or the last one, see Call
    started,   \* number of calls so far
    created    \* history: accounts whose registration was answered 201

tables == <<users, devices, keys>>
authVars == <<users, devices, keys, tokens, now, call, started, created>>

None == 0
Never == -1    \* expires_at is NULL

User == [email : Emails, password : Passwords]
NoUser == [email |-> "", password |-> ""]

\* shown: the raw key has been returned to its owner.
Key == [user : Nat, device : Nat, expires : Int, revoked : BOOLEAN,
        shown : BOOLEAN]

\* A JWT, an API key (by its number), or something that is neither.
Credential == [kind : {"jwt", "key", "none"}, of : Nat, exp : Nat]
NoCredential == [kind |-> "none", of |-> None, exp |-> 0]

\* The REST API takes both kinds, gRPC only keys, the dashboard only JWTs.
Accepted == [rest |-> {"jwt", "key"}, grpc |-> {"key"}, dashboard |-> {"jwt"}]

\* "link" is any route behind RequireLinkOwnership, "serve" any route whose
\* handler leaves these tables alone, streams included.
Ops == {"createDevice", "deleteDevice", "createKey", "revokeKey", "link", "serve"}

\* arg is a number: of a device, of a key, of the owner of a link.  seen is
\* revoked_at of the row VerifyAPIKey has read.  late is history: the credential
\* was not valid on arrival.
Call == [pc : {"idle", "findEmail", "insertUser", "verify", "checkKey", "owner",
               "handler"},
         form : User \cup {NoUser}, via : DOMAIN Accepted, op : Ops, arg : Nat,
         cred : Credential, seen : BOOLEAN, user : Nat, late : BOOLEAN]

AuthTypeOK ==
    /\ users \in Seq(User)
    /\ devices \in Seq(BOOLEAN)
    /\ keys \in Seq(Key)
    /\ \A k \in DOMAIN keys :
          /\ keys[k].user \in DOMAIN users
          /\ keys[k].device # None =>
                keys[k].device \in DOMAIN devices /\ devices[keys[k].device]
    /\ tokens \subseteq Credential
    /\ now \in 0..MaxTime
    /\ call \in [Calls -> Call]
    /\ started \in 0..MaxCalls
    /\ created \subseteq [id : DOMAIN users, form : User]

Idle == [pc |-> "idle", form |-> NoUser, via |-> "rest",
         op |-> "serve", arg |-> None, cred |-> NoCredential, seen |-> FALSE,
         user |-> None, late |-> FALSE]

AuthInit ==
    /\ users = <<>>
    /\ devices = <<>>
    /\ keys = <<>>
    /\ tokens = {}
    /\ now = 0
    /\ call = [c \in Calls |-> Idle]
    /\ started = 0
    /\ created = {}

\* The credential is genuine, not revoked and not expired (a JWT ends with its
\* exp, a key outlives its expires_at by nothing).
Valid(cr) ==
    \/ cr.kind = "jwt" /\ now < cr.exp
    \/ /\ cr.kind = "key"
       /\ ~keys[cr.of].revoked
       /\ keys[cr.of].expires = Never \/ now <= keys[cr.of].expires

OwnerOf(cr) == IF cr.kind = "key" THEN keys[cr.of].user ELSE cr.of

Become(c, x) == call' = [call EXCEPT ![c] = x]

Goto(c, where) == call' = [call EXCEPT ![c].pc = where]

\* The call is answered; its locals are gone.
Return(c) == Become(c, Idle)

\* The answer is 401, Unauthenticated, or a redirection to the login page.
Refuse(c) == Return(c)

Start(c, x) ==
    /\ call[c].pc = "idle"
    /\ started < MaxCalls
    /\ started' = started + 1
    /\ Become(c, x)

-----------------------------------------------------------------------------
(* Accounts.                                                               *)

UsersOf(email) == {u \in DOMAIN users : users[u].email = email}

\* handleRegister with an email and a password.
StartRegister(c, form) ==
    /\ Start(c, [Idle EXCEPT !.pc = "findEmail", !.form = form])
    /\ UNCHANGED <<tables, tokens, now, created>>

\* Register: GetByEmail.  A row is ErrEmailTaken, 409; no row and any error lead
\* on to bcrypt and the INSERT.
FindEmail(c) ==
    /\ call[c].pc = "findEmail"
    /\ \/ UsersOf(call[c].form.email) # {} /\ Return(c)
       \/ UsersOf(call[c].form.email) = {} /\ Goto(c, "insertUser")
       \/ DBFails /\ Goto(c, "insertUser")
    /\ UNCHANGED <<tables, tokens, now, started, created>>

\* The constraint on users.email is missing.
InsertUserAgain(c) ==
    /\ call[c].pc = "insertUser"
    /\ users' = Append(users, call[c].form)
    /\ created' = created \cup {[id |-> Len(users) + 1, form |-> call[c].form]}
    /\ Return(c)
    /\ UNCHANGED <<devices, keys, tokens, now, started>>

\* UserRepo.Create.  users.email is UNIQUE: of two registrations that both found
\* nothing the second fails, 500.
InsertUser(c) ==
    /\ call[c].pc = "insertUser"
    /\ IF UsersOf(call[c].form.email) = {}
       THEN /\ users' = Append(users, call[c].form)
            /\ created' = created \cup {[id |-> Len(users) + 1,
                                         form |-> call[c].form]}
       ELSE UNCHANGED <<users, created>>
    /\ Return(c)
    /\ UNCHANGED <<devices, keys, tokens, now, started>>

\* UserRepo.Create fails although the row was inserted: 500.
InsertUserFails(c) ==
    /\ DBFails
    /\ call[c].pc = "insertUser"
    /\ UsersOf(call[c].form.email) = {}
    /\ users' = Append(users, call[c].form)
    /\ Return(c)
    /\ UNCHANGED <<devices, keys, tokens, now, started, created>>

\* Login and issueJWT, of the API and of the dashboard.  (A wrong password
\* and an error change nothing.)
Login(form) ==
    /\ Cardinality(tokens) < MaxTokens
    /\ \E u \in DOMAIN users :
          /\ users[u] = form
          /\ tokens' = tokens \cup {[kind |-> "jwt", of |-> u, exp |-> now + TTL]}
    /\ UNCHANGED <<tables, now, call, started, created>>

-----------------------------------------------------------------------------
(* Authentication of a call.                                               *)

\* What a client can present: a JWT it was given, a key it was shown, rubbish.
Presentable ==
    tokens \cup {NoCredential}
        \cup {[kind |-> "key", of |-> k, exp |-> 0] :
                 k \in {i \in DOMAIN keys : keys[i].shown}}

\* The rows a route may name, rows of other users and deleted ones included.
Named(op) ==
    CASE op = "deleteDevice" -> DOMAIN devices
      [] op = "createKey"    -> DOMAIN devices \cup {None}
      [] op = "revokeKey"    -> DOMAIN keys
      [] op = "link"         -> DOMAIN users
      [] OTHER               -> {None}

\* A call arrives.  Only the REST API has the routes that edit accounts.
Arrive(c, via, cr, op, arg) ==
    /\ via = "rest" \/ op = "serve"
    /\ Start(c, [Idle EXCEPT !.pc = "verify", !.via = via, !.cred = cr, !.op = op,
                             !.arg = arg, !.late = ~Valid(cr)])
    /\ UNCHANGED <<tables, tokens, now, created>>

\* RequireAuth tells a key by its prefix; the interceptor takes everything for
\* a key, RequireSessionCookie everything for a JWT.
TakenForKey(x) == x.via = "grpc" \/ (x.via = "rest" /\ x.cred.kind = "key")

\* The user is put into the context; a route of a link checks its owner next.
Admit(c) ==
    Become(c, [call[c] EXCEPT !.pc = IF call[c].op = "link"
                                     THEN "owner" ELSE "handler",
                              !.user = OwnerOf(call[c].cred)])

\* VerifyJWT: signature and exp.
VerifyJWT(c) ==
    /\ call[c].pc = "verify"
    /\ ~TakenForKey(call[c])
    /\ IF call[c].cred.kind = "jwt" /\ now < call[c].cred.exp
       THEN Admit(c) ELSE Refuse(c)
    /\ UNCHANGED <<tables, tokens, now, started, created>>

\* VerifyAPIKey: GetByHash.  No row has the hash of anything but a key.
ReadKey(c) ==
    /\ call[c].pc = "verify"
    /\ TakenForKey(call[c])
    /\ IF call[c].cred.kind = "key"
       THEN Become(c, [call[c] EXCEPT !.pc = "checkKey",
                                      !.seen = keys[call[c].cred.of].revoked])
       ELSE Refuse(c)
    /\ UNCHANGED <<tables, tokens, now, started, created>>

\* VerifyAPIKey: GetByHash fails, which is ErrInvalidCredentials as well.
ReadKeyFails(c) ==
    /\ DBFails
    /\ call[c].pc = "verify"
    /\ TakenForKey(call[c])
    /\ Refuse(c)
    /\ UNCHANGED <<tables, tokens, now, started, created>>

Expired(k) == keys[k].expires # Never /\ now > keys[k].expires

\* revoked_at is not looked at.
CheckExpiryOnly(c) ==
    /\ call[c].pc = "checkKey"
    /\ IF Expired(call[c].cred.of) THEN Refuse(c) ELSE Admit(c)
    /\ UNCHANGED <<tables, tokens, now, started, created>>

\* A key expires in the instant of its expires_at.
CheckKeyEarly(c) ==
    /\ call[c].pc = "checkKey"
    /\ IF call[c].seen \/ keys[call[c].cred.of].expires \in 0..now
       THEN Refuse(c) ELSE Admit(c)
    /\ UNCHANGED <<tables, tokens, now, started, created>>

\* VerifyAPIKey: revoked_at of the row that was read, and the clock.
CheckKey(c) ==
    /\ call[c].pc = "checkKey"
    /\ IF call[c].seen \/ Expired(call[c].cred.of)
       THEN Refuse(c) ELSE Admit(c)
    /\ UNCHANGED <<tables, tokens, now, started, created>>

\* RequireLinkOwnership: somebody else's link, and any error, is a 404.
CheckOwner(c) ==
    /\ call[c].pc = "owner"
    /\ \/ call[c].arg = call[c].user /\ Goto(c, "handler")
       \/ (call[c].arg # call[c].user \/ DBFails) /\ Return(c)
    /\ UNCHANGED <<tables, tokens, now, started, created>>

-----------------------------------------------------------------------------
(* Handlers.                                                               *)

\* handleCreateDevice.
CreateDevice(c) ==
    /\ call[c].op = "createDevice"
    /\ devices' = Append(devices, TRUE)
    /\ UNCHANGED <<users, keys>>

\* api_keys.device_id is left as it is.
DeleteDeviceOnly(c) ==
    /\ call[c].op = "deleteDevice"
    /\ devices' = [d \in DOMAIN devices |-> devices[d] /\ d # call[c].arg]
    /\ UNCHANGED <<users, keys>>

\* handleDeleteDevice; api_keys.device_id is ON DELETE SET NULL.
DeleteDevice(c) ==
    /\ call[c].op = "deleteDevice"
    /\ devices' = [d \in DOMAIN devices |-> devices[d] /\ d # call[c].arg]
    /\ keys' = [k \in DOMAIN keys |->
                   IF keys[k].device = call[c].arg
                   THEN [keys[k] EXCEPT !.device = None] ELSE keys[k]]
    /\ UNCHANGED users

\* The device may be missing, and may be one that has been deleted.
DeviceExists(d) == d = None \/ (d \in DOMAIN devices /\ devices[d])

\* handleCreateAPIKey, CreateAPIKey: a key with or without an expiry.
CreateKey(c, shown) ==
    /\ call[c].op = "createKey"
    /\ DeviceExists(call[c].arg)
    /\ \E expires \in {Never, now + TTL} :
          keys' = Append(keys, [user |-> call[c].user, device |-> call[c].arg,
                                expires |-> expires, revoked |-> FALSE,
                                shown |-> shown])
    /\ UNCHANGED <<users, devices>>

\* handleRevokeAPIKey: UPDATE by id.
RevokeKey(c) ==
    /\ call[c].op = "revokeKey"
    /\ keys' = [k \in DOMAIN keys |->
                   IF k = call[c].arg THEN [keys[k] EXCEPT !.revoked = TRUE]
                   ELSE keys[k]]
    /\ UNCHANGED <<users, devices>>

Effect(c, shown) ==
    \/ CreateDevice(c) \/ DeleteDevice(c) \/ CreateKey(c, shown) \/ RevokeKey(c)

\* Handlers that read, or write other tables (handleGetLinkStats, ...).
OtherRoute(c) == call[c].op \in {"link", "serve"} /\ UNCHANGED tables

\* The handler's statement succeeds and the call is answered.
Handle(c) ==
    /\ call[c].pc = "handler"
    /\ Effect(c, TRUE) \/ OtherRoute(c)
    /\ Return(c)
    /\ UNCHANGED <<tokens, now, started, created>>

\* 500: the device of a new key is gone, or the statement fails, applied or not
\* (the raw value of the key is lost with the answer).
HandleFails(c) ==
    /\ call[c].pc = "handler"
    /\ \/ /\ call[c].op = "createKey" /\ ~DeviceExists(call[c].arg)
          /\ UNCHANGED tables
       \/ DBFails /\ (Effect(c, FALSE) \/ UNCHANGED tables)
    /\ Return(c)
    /\ UNCHANGED <<tokens, now, started, created>>

Tick ==
    /\ now < MaxTime
    /\ now' = now + 1
    /\ UNCHANGED <<tables, tokens, call, started, created>>

AuthNext ==
    \/ \E form \in User : Login(form) \/ \E c \in Calls : StartRegister(c, form)
    \/ \E c \in Calls, via \in DOMAIN Accepted, cr \in Presentable, op \in Ops :
          \E arg \in Named(op) : Arrive(c, via, cr, op, arg)
    \/ \E c \in Calls :
          \/ FindEmail(c) \/ InsertUser(c) \/ InsertUserFails(c)
          \/ VerifyJWT(c) \/ ReadKey(c) \/ ReadKeyFails(c) \/ CheckKey(c)
          \/ CheckOwner(c) \/ Handle(c) \/ HandleFails(c)
    \/ Tick

AuthSpec == AuthInit /\ [][AuthNext]_authVars

-----------------------------------------------------------------------------
(* Properties.                                                             *)

\* Registrations of one email that run together create one account, and a 201
\* is given only to the caller whose password it has (Register, UserRepo.Create).
RegisteredOnce ==
    /\ \A u, v \in DOMAIN users : users[u].email = users[v].email => u = v
    /\ \A r \in created : users[r.id] = r.form

\* A handler runs only for a call whose credential was good when it arrived and
\* may be used on that interface, on behalf of the owner of that credential, and
\* on a link of that owner: an acknowledged revocation and a past expiry stop
\* every later call, although revoked_at and the clock are read at different
\* times (RequireAuth, authenticate, VerifyAPIKey, RequireLinkOwnership).
AdmittedJustified ==
    \A c \in Calls : call[c].pc \in {"owner", "handler"} =>
        /\ ~call[c].late
        /\ call[c].cred.kind \in Accepted[call[c].via]
        /\ call[c].user = OwnerOf(call[c].cred)
        /\ call[c].pc = "handler" /\ call[c].op = "link" =>
              call[c].arg = call[c].user

\* The call is turned away while it is being authenticated.
Refused(c) == call[c].pc \in {"verify", "checkKey"} /\ call'[c].pc = "idle"

\* Conversely nobody is turned away who should not be: a credential is refused
\* when it is of the wrong kind or not valid (any more), and otherwise only when
\* the lookup of a key failed.
RefusedJustified ==
    [][\A c \in Calls : Refused(c) =>
          \/ call[c].cred.kind \notin Accepted[call[c].via]
          \/ ~Valid(call[c].cred)
          \/ DBFails /\ call[c].pc = "verify" /\ call[c].cred.kind = "key"]_authVars

=============================================================================
