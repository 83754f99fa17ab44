------------------------------ MODULE Accounts ------------------------------
(***************************************************************************)
(* Accounts: the rows of User and what hangs on them (refresh token hash,  *)
(* sessions, password reset tokens and codes, roles), and the permissions  *)
(* Redis caches, under AuthService, UserService, PermissionsService and    *)
(* the user administration of AdminService.                                *)
(*                                                                         *)
(* A Request is one call in flight; a step is what it does between two     *)
(* awaits.  Calls of one statement are single actions.  A call that is     *)
(* refused before its first write changes nothing and is left out.  An     *)
(* argon2 hash stands for what was hashed: verify compares.                *)
(***************************************************************************)
EXTENDS Integers, FiniteSets

CONSTANTS
    Request,        \* calls that may be in flight
    User,           \* ids (uuid) of users
    Username, Email, Password,
    Role, Permission,
    Grants,         \* Grants[r]: the permissions the seed gives to role r
    Phoned,         \* users whose row has a phone (nothing in src/ sets one)
    Founder,        \* the user of the seed
    Operations,     \* the operations requests may start
    MaxSecond,      \* bound: seconds that pass
    MaxRequests,    \* bound: requests ever started
    Nothing         \* an absent row or value

OperationKinds == {"register", "login", "refresh", "logout", "forgot", "reset",
                   "profile", "password", "sessions", "roles", "guard", "delete"}

ASSUME BoundAssumption == MaxSecond \in Nat /\ MaxRequests \in Nat
ASSUME RequestAssumption == IsFiniteSet(Request)
ASSUME UserAssumption ==
    /\ Founder \in User
    /\ Phoned \subseteq User
    /\ Grants \in [Role -> SUBSET Permission]
    /\ Operations \subseteq OperationKinds
    /\ Nothing \notin User \cup Username \cup Email \cup Password

Id == 1 .. MaxRequests      \* ids of sessions and of proofs, in order of creation
Second == 0 .. MaxSecond

VARIABLES
    users,          \* users[u]: the row of u, or Nothing
    created,        \* ids ever given to a user
    sessions,       \* sessions[i]: a row of UserSession, or Nothing
    nextSession,
    proofs,         \* proofs[i]: a row of PasswordResetToken or PhoneOtp, or Nothing
    nextProof,
    roles,          \* roles[u]: rows of UserRoleAssignment
    perms,          \* perms[u]: what Redis holds under perms:<u>, or Nothing
    second,         \* the clock, in seconds: what a JWT sees of time
    pc, local,      \* where each request stands, and its local variables
    started,        \* requests started so far
    given,          \* history: refresh tokens sent with a response, as cookies
    lost,           \* history: refresh tokens stored by logins that answered without one
    epoch,          \* history: epoch[u]: how often logout or reset ended the refresh tokens of u
    chain,          \* history: chain[u]: the epoch in which the login behind u's token was proven
    overtaken,      \* history: users whose token was stored by a request a logout had overtaken
    resetBy         \* history: proofs that changed a password

rows == <<users, created, sessions, nextSession, proofs, nextProof, roles>>
requests == <<pc, local, started>>
history == <<given, lost, epoch, chain, overtaken, resetBy>>
vars == <<rows, perms, second, requests, history>>

----------------------------------------------------------------------------
(* A refresh token carries the user and the second it was issued in: two   *)
(* that are issued to one user in one second are the same.                 *)
Token == [user : User, issued : Second]

UserRow == [username : Username, email : Email, password : Password,
            refresh : Token \cup {Nothing}]
SessionRow == [user : User, revoked : BOOLEAN]
ProofRow == [user : User, kind : {"email", "phone"}, used : BOOLEAN, expired : BOOLEAN]
CachedPerms == [set : SUBSET Permission, expires : BOOLEAN]

ASSUME RowAssumption == Nothing \notin UserRow \cup SessionRow \cup ProofRow \cup CachedPerms

Profile == [username : Username \cup {Nothing}, email : Email \cup {Nothing}]

Users == {u \in User : users[u] # Nothing}

(* The answer of getUserPermissions. *)
Granted(u) == UNION {Grants[r] : r \in roles[u]}

(* The unique indexes of User. *)
Collides(u, profile) == \E v \in Users \ {u} :
    \/ users[v].username = profile.username
    \/ users[v].email = profile.email

Stages == {"idle", "create", "store", "stamp", "session", "forgot", "reset", "password",
           "revoke", "assign", "cache"}

Local == [user : User \cup {Nothing}, token : Token \cup {Nothing}, epoch : Nat,
          late : BOOLEAN, by : {"login", "register", "refresh"}, profile : Profile, password : Password \cup {Nothing},
          kind : {"email", "phone"}, id : Id \cup {0}, role : Role \cup {Nothing},
          perms : SUBSET Permission]

NoLocal == [user |-> Nothing, token |-> Nothing, epoch |-> 0, late |-> FALSE, by |-> "refresh",
            profile |-> [username |-> Nothing, email |-> Nothing], password |-> Nothing,
            kind |-> "email", id |-> 0, role |-> Nothing, perms |-> {}]

Goto(c, stage, loc) ==
    /\ pc' = [pc EXCEPT ![c] = stage]
    /\ local' = [local EXCEPT ![c] = loc]
    /\ UNCHANGED started

Return(c) == Goto(c, "idle", NoLocal)

Start(op) ==
    /\ op \in Operations
    /\ started < MaxRequests
    /\ started' = started + 1

StartAs(c, op, stage, loc) ==
    /\ pc[c] = "idle"
    /\ Start(op)
    /\ pc' = [pc EXCEPT ![c] = stage]
    /\ local' = [local EXCEPT ![c] = loc]

(* A call of one statement. *)
Call(op) == Start(op) /\ UNCHANGED <<pc, local, second>>

----------------------------------------------------------------------------
(* login, register and getNewTokens.                                       *)

(* issueTokens, once the user is known. *)
Issued(u) == [NoLocal EXCEPT !.user = u, !.token = [user |-> u, issued |-> second],
                             !.epoch = epoch[u]]

(* validateUser: the name is a username or an email, whichever is found.   *)
(* (The password sent is the right one, or nothing happens.)               *)
StartLogin(c) == \E u \in Users :
    /\ StartAs(c, "login", "store", [Issued(u) EXCEPT !.by = "login"])
    /\ UNCHANGED <<rows, perms, second, history>>

StartRegister(c) == \E name \in Username, mail \in Email, p \in Password :
    LET profile == [username |-> name, email |-> mail]
    IN  /\ ~Collides(Nothing, profile)
        /\ StartAs(c, "register", "create", [NoLocal EXCEPT !.profile = profile, !.password = p])
        /\ UNCHANGED <<rows, perms, second, history>>

(* Seeded bug: register trusts its own check of the names. *)
CreateUnchecked(c) == \E u \in User \ created :
    LET loc == local[c]
    IN  /\ pc[c] = "create"
        /\ Goto(c, "store", [Issued(u) EXCEPT !.by = "register"])
        /\ users' = [users EXCEPT ![u] = [username |-> loc.profile.username,
                                          email |-> loc.profile.email,
                                          password |-> loc.password, refresh |-> Nothing]]
        /\ created' = created \cup {u}
        /\ UNCHANGED <<sessions, nextSession, proofs, nextProof, roles, perms, second, history>>

(* UserService.create: P2002 is a conflict.  No role is assigned. *)
Create(c) ==
    LET loc == local[c]
    IN  /\ pc[c] = "create"
        /\ \/ /\ Collides(Nothing, loc.profile)
              /\ Return(c)
              /\ UNCHANGED <<users, created>>
           \/ /\ ~Collides(Nothing, loc.profile)
              /\ \E u \in User \ created :
                     /\ Goto(c, "store", [Issued(u) EXCEPT !.by = "register"])
                     /\ users' = [users EXCEPT ![u] = [username |-> loc.profile.username,
                                                       email |-> loc.profile.email,
                                                       password |-> loc.password,
                                                       refresh |-> Nothing]]
                     /\ created' = created \cup {u}
        /\ UNCHANGED <<sessions, nextSession, proofs, nextProof, roles, perms, second, history>>

(* The cookie of a client: a token it was sent, whose hash is the stored   *)
(* one, and which has not expired.                                         *)
StartRefresh(c) == \E t \in given :
    /\ t.user \in Users
    /\ users[t.user].refresh = t
    /\ StartAs(c, "refresh", "store", [Issued(t.user) EXCEPT !.late = t.user \in overtaken])
    /\ UNCHANGED <<rows, perms, second, history>>

(* updateRefreshTokenHash, after a slow hash.  A refresh puts its token on *)
(* the response and answers; a register puts it there and goes on to       *)
(* record its session; a login waits for lastLoggedIn, too.                *)
StoreOf(c, stored) ==
    LET loc == local[c]
        u == loc.user
    IN  /\ pc[c] = "store"
        /\ \/ /\ u \notin Users
              /\ Return(c)
              /\ UNCHANGED <<users, given, chain, overtaken>>
           \/ /\ u \in Users
              /\ users' = [users EXCEPT ![u].refresh = stored]
              /\ chain' = [chain EXCEPT ![u] = loc.epoch]
              /\ overtaken' = IF loc.late \/ loc.epoch # epoch[u]
                              THEN overtaken \cup {u} ELSE overtaken \ {u}
              /\ \/ loc.by = "login" /\ Goto(c, "stamp", loc) /\ UNCHANGED given
                 \/ loc.by = "register" /\ Goto(c, "session", loc) /\ UNCHANGED given
                 \/ loc.by = "refresh" /\ Return(c) /\ given' = given \cup {loc.token}
        /\ UNCHANGED <<created, sessions, nextSession, proofs, nextProof, roles, perms, second,
                       lost, epoch, resetBy>>

Store(c) == StoreOf(c, local[c].token)

(* The other write of login's Promise.all, lastLoggedIn.  It may come      *)
(* before the hash is stored, or fail before: the hash is stored all the   *)
(* same, and the state is the one this order reaches.  A user that is gone *)
(* throws (P2025): the answer has no cookie.                               *)
Stamp(c) ==
    LET loc == local[c]
    IN  /\ pc[c] = "stamp"
        /\ \/ loc.user \in Users /\ Goto(c, "session", loc) /\ UNCHANGED lost
           \/ loc.user \notin Users /\ Return(c) /\ lost' = lost \cup {loc.token}
        /\ UNCHANGED <<rows, perms, second, given, epoch, chain, overtaken, resetBy>>

(* Seeded bug: a session is recorded whether or not its user is there. *)
RecordSessionAnyway(c) ==
    /\ pc[c] = "session"
    /\ Return(c)
    /\ sessions' = [sessions EXCEPT ![nextSession] = [user |-> local[c].user, revoked |-> FALSE]]
    /\ nextSession' = nextSession + 1
    /\ given' = given \cup {local[c].token}
    /\ UNCHANGED <<users, created, proofs, nextProof, roles, perms, second, lost, epoch, chain,
                   overtaken, resetBy>>

(* recordSession.  A user that is gone by now fails its foreign key; the   *)
(* token is on the response already and is sent with the error, too.       *)
RecordSession(c) ==
    LET loc == local[c]
    IN  /\ pc[c] = "session"
        /\ Return(c)
        /\ given' = given \cup {loc.token}
        /\ \/ loc.user \notin Users /\ UNCHANGED <<sessions, nextSession>>
           \/ /\ loc.user \in Users
              /\ sessions' = [sessions EXCEPT ![nextSession] =
                     [user |-> loc.user, revoked |-> FALSE]]
              /\ nextSession' = nextSession + 1
        /\ UNCHANGED <<users, created, proofs, nextProof, roles, perms, second, lost, epoch, chain,
                       overtaken, resetBy>>

(* clearRefreshTokenHash. *)
Logout == \E u \in Users :
    /\ Call("logout")
    /\ users' = [users EXCEPT ![u].refresh = Nothing]
    /\ epoch' = [epoch EXCEPT ![u] = @ + 1]
    /\ UNCHANGED <<created, sessions, nextSession, proofs, nextProof, roles, perms, given, lost,
                   chain, overtaken, resetBy>>

----------------------------------------------------------------------------
(* Passwords.                                                              *)

Usable(i) == proofs[i] # Nothing /\ ~proofs[i].used

(* Seeded bug: the older proofs stay usable. *)
StartForgotKeeping(c) == \E u \in Users, kind \in {"email", "phone"} :
    /\ kind = "phone" => u \in Phoned
    /\ StartAs(c, "forgot", "forgot", [NoLocal EXCEPT !.user = u, !.kind = kind])
    /\ UNCHANGED <<rows, perms, second, history>>

(* forgotPasswordByEmail, forgotPasswordByPhone and resetPasswordByAdmin:  *)
(* the unused proofs of the user are marked used, then one is created.     *)
StartForgot(c) == \E u \in Users, kind \in {"email", "phone"} :
    /\ kind = "phone" => u \in Phoned
    /\ StartAs(c, "forgot", "forgot", [NoLocal EXCEPT !.user = u, !.kind = kind])
    /\ proofs' = [i \in Id |->
           IF Usable(i) /\ proofs[i].user = u /\ proofs[i].kind = kind
           THEN [proofs[i] EXCEPT !.used = TRUE] ELSE proofs[i]]
    /\ UNCHANGED <<users, created, sessions, nextSession, nextProof, roles, perms, second, history>>

Forgot(c) ==
    LET loc == local[c]
    IN  /\ pc[c] = "forgot"
        /\ Return(c)
        /\ \/ loc.user \notin Users /\ UNCHANGED <<proofs, nextProof>>
           \/ /\ loc.user \in Users
              /\ proofs' = [proofs EXCEPT ![nextProof] =
                     [user |-> loc.user, kind |-> loc.kind, used |-> FALSE, expired |-> FALSE]]
              /\ nextProof' = nextProof + 1
        /\ UNCHANGED <<users, created, sessions, nextSession, roles, perms, second, history>>

(* The proof a caller may reset with: any reset token; of the codes sent   *)
(* to a phone the latest unused one.                                       *)
Presentable(i) ==
    /\ Usable(i)
    /\ ~proofs[i].expired
    /\ proofs[i].kind = "phone" => \A j \in Id : 
           Usable(j) /\ proofs[j].kind = "phone" /\ proofs[j].user = proofs[i].user => j <= i

(* resetPassword and resetPasswordByPhone check outside the transaction.   *)
StartReset(c) == \E i \in Id, p \in Password :
    /\ Presentable(i)
    /\ StartAs(c, "reset", "reset",
               [NoLocal EXCEPT !.user = proofs[i].user, !.id = i, !.password = p])
    /\ UNCHANGED <<rows, perms, second, history>>

(* Seeded bug: the refresh token outlives the password. *)
NewPasswordOnly(c) ==
    /\ users' = [users EXCEPT ![local[c].user].password = local[c].password]
    /\ epoch' = [epoch EXCEPT ![local[c].user] = @ + 1]
    /\ resetBy' = resetBy \cup {local[c].id}

NewPassword(c) ==
    /\ users' = [users EXCEPT ![local[c].user].password = local[c].password,
                              ![local[c].user].refresh = Nothing]
    /\ epoch' = [epoch EXCEPT ![local[c].user] = @ + 1]
    /\ resetBy' = resetBy \cup {local[c].id}

(* Seeded bug: the proof is not marked used. *)
ResetUnmarked(c) ==
    LET loc == local[c]
    IN  /\ pc[c] = "reset"
        /\ Return(c)
        /\ loc.user \in Users
        /\ NewPassword(c)
        /\ UNCHANGED <<proofs, created, sessions, nextSession, nextProof, roles, perms, second,
                       given, lost, chain, overtaken>>

(* The transaction: password, no refresh token, and the proof is used. *)
Reset(c) ==
    LET loc == local[c]
    IN  /\ pc[c] = "reset"
        /\ Return(c)
        /\ \/ loc.user \notin Users /\ UNCHANGED <<users, epoch, resetBy, proofs>>
           \/ /\ loc.user \in Users
              /\ NewPassword(c)
              /\ proofs' = [proofs EXCEPT ![loc.id].used = TRUE]
        /\ UNCHANGED <<created, sessions, nextSession, nextProof, roles, perms, second,
                       given, lost, chain, overtaken>>

(* An hour, or ten minutes, have passed. *)
ExpireProof == \E i \in Id :
    /\ Usable(i)
    /\ ~proofs[i].expired
    /\ proofs' = [proofs EXCEPT ![i].expired = TRUE]
    /\ UNCHANGED <<users, created, sessions, nextSession, nextProof, roles, perms, second, requests,
                   history>>

(* changePassword verifies the current password, hashes, and updates; the  *)
(* refresh token stays.                                                    *)
StartPassword(c) == \E u \in Users, p \in Password :
    /\ StartAs(c, "password", "password", [NoLocal EXCEPT !.user = u, !.password = p])
    /\ UNCHANGED <<rows, perms, second, history>>

ChangePassword(c) ==
    LET loc == local[c]
    IN  /\ pc[c] = "password"
        /\ Return(c)
        /\ users' = [u \in User |->
               IF u = loc.user /\ u \in Users THEN [users[u] EXCEPT !.password = loc.password]
               ELSE users[u]]
        /\ UNCHANGED <<created, sessions, nextSession, proofs, nextProof, roles, perms, second,
                       history>>

----------------------------------------------------------------------------
(* Profiles and sessions.                                                  *)

(* Seeded bug: a field that is not given is written, too. *)
RenamedWhole(row, patch) == [row EXCEPT !.username = patch.username, !.email = patch.email]

(* The row an update of username, email or both makes. *)
Renamed(row, patch) ==
    [row EXCEPT !.username = IF patch.username = Nothing THEN @ ELSE patch.username,
                !.email = IF patch.email = Nothing THEN @ ELSE patch.email]

(* updateProfile, and the first statement of updateUser: P2002 changes     *)
(* nothing.                                                                *)
UpdateProfile == \E u \in Users, patch \in Profile :
    /\ patch # NoLocal.profile
    /\ ~Collides(u, patch)
    /\ Call("profile")
    /\ users' = [users EXCEPT ![u] = Renamed(@, patch)]
    /\ UNCHANGED <<created, sessions, nextSession, proofs, nextProof, roles, perms, history>>

(* deleteAccount and deleteUser, with the cascades of the schema. *)
DeleteUser == \E u \in Users :
    /\ Call("delete")
    /\ users' = [users EXCEPT ![u] = Nothing]
    /\ roles' = [roles EXCEPT ![u] = {}]
    /\ sessions' = [i \in Id |-> IF sessions[i] # Nothing /\ sessions[i].user = u
                                 THEN Nothing ELSE sessions[i]]
    /\ proofs' = [i \in Id |-> IF proofs[i] # Nothing /\ proofs[i].user = u
                               THEN Nothing ELSE proofs[i]]
    /\ UNCHANGED <<created, nextSession, nextProof, perms, history>>

Active(u) == {i \in Id : sessions[i] # Nothing /\ sessions[i].user = u /\ ~sessions[i].revoked}

(* revokeSession and revokeAdminUserSession. *)
StartRevoke(c) == \E u \in Users : \E i \in Active(u) :
    /\ StartAs(c, "sessions", "revoke", [NoLocal EXCEPT !.user = u, !.id = i])
    /\ UNCHANGED <<rows, perms, second, history>>

(* Seeded bug: the update turns the session's state over. *)
RevokeToggles(c) ==
    LET i == local[c].id
    IN  /\ pc[c] = "revoke"
        /\ Return(c)
        /\ sessions' = [sessions EXCEPT ![i] =
               IF @ = Nothing THEN @ ELSE [@ EXCEPT !.revoked = ~@]]
        /\ UNCHANGED <<users, created, nextSession, proofs, nextProof, roles, perms, second, history>>

Revoke(c) ==
    LET i == local[c].id
    IN  /\ pc[c] = "revoke"
        /\ Return(c)
        /\ sessions' = [sessions EXCEPT ![i] =
               IF @ = Nothing THEN @ ELSE [@ EXCEPT !.revoked = TRUE]]
        /\ UNCHANGED <<users, created, nextSession, proofs, nextProof, roles, perms, second, history>>

(* revokeAllOtherSessions, called from session own of u.  Nothing ever     *)
(* sets req.sessionId, so currentSessionId is undefined and excludes none. *)
RevokeOthers(u, own) ==
    /\ own \in Active(u)
    /\ Call("sessions")
    /\ sessions' = [i \in Id |-> IF i \in Active(u) THEN [sessions[i] EXCEPT !.revoked = TRUE]
                                 ELSE sessions[i]]
    /\ UNCHANGED <<users, created, nextSession, proofs, nextProof, roles, perms, history>>

----------------------------------------------------------------------------
(* Roles and the permission cache.                                         *)

(* assignRole, whose foreign key the user must satisfy. *)
AssignRole == \E u \in Users, r \in Role :
    /\ Call("roles")
    /\ roles' = [roles EXCEPT ![u] = @ \cup {r}]
    /\ UNCHANGED <<users, created, sessions, nextSession, proofs, nextProof, perms, history>>

RemoveRole == \E u \in Users, r \in Role :
    /\ Call("roles")
    /\ roles' = [roles EXCEPT ![u] = @ \ {r}]
    /\ UNCHANGED <<users, created, sessions, nextSession, proofs, nextProof, perms, history>>

(* updateUser with a role: all are deleted, then one is assigned. *)
StartReplaceRole(c) == \E u \in Users, r \in Role :
    /\ StartAs(c, "roles", "assign", [NoLocal EXCEPT !.user = u, !.role = r])
    /\ roles' = [roles EXCEPT ![u] = {}]
    /\ UNCHANGED <<users, created, sessions, nextSession, proofs, nextProof, perms, second, history>>

ReplaceRole(c) ==
    LET loc == local[c]
    IN  /\ pc[c] = "assign"
        /\ Return(c)
        /\ roles' = [roles EXCEPT ![loc.user] = @ \cup {r \in {loc.role} : loc.user \in Users}]
        /\ UNCHANGED <<users, created, sessions, nextSession, proofs, nextProof, perms, second,
                       history>>

(* PermissionGuard, for a user JwtStrategy finds: getUserPermissions asks  *)
(* the tables when Redis has nothing, or fails.                            *)
StartGuard(c) == \E u \in Users :
    /\ StartAs(c, "guard", "cache", [NoLocal EXCEPT !.user = u, !.perms = Granted(u)])
    /\ UNCHANGED <<rows, perms, second, history>>

(* Seeded bug: SET without EX. *)
CachePermsForGood(c) ==
    LET loc == local[c]
    IN  /\ pc[c] = "cache"
        /\ Return(c)
        /\ perms' = [perms EXCEPT ![loc.user] = [set |-> loc.perms, expires |-> FALSE]]
        /\ UNCHANGED <<rows, second, history>>

(* SET perms:<u> EX 60; a failure of Redis does not matter. *)
CachePerms(c) ==
    LET loc == local[c]
    IN  /\ pc[c] = "cache"
        /\ Return(c)
        /\ perms' = [perms EXCEPT ![loc.user] = [set |-> loc.perms, expires |-> TRUE]]
        /\ UNCHANGED <<rows, second, history>>

ExpirePerms(u) ==
    /\ perms[u] # Nothing
    /\ perms[u].expires
    /\ perms' = [perms EXCEPT ![u] = Nothing]
    /\ UNCHANGED <<rows, second, requests, history>>

----------------------------------------------------------------------------
(* Seeded bug: the cookie is put on the response after recordSession, not  *)
(* before it.                                                              *)
FailUnsent(c) ==
    /\ pc[c] # "idle"
    /\ Return(c)
    /\ lost' = IF pc[c] = "stamp" THEN lost \cup {local[c].token} ELSE lost
    /\ UNCHANGED <<rows, perms, second, given, epoch, chain, overtaken, resetBy>>

(* A statement of a request fails, and the request throws.  What is on the *)
(* response is sent with the error (AllExceptionsFilter): the token, if it *)
(* is recordSession that fails; a login whose lastLoggedIn fails has       *)
(* stored a token and sends none.                                          *)
Fail(c) ==
    /\ pc[c] # "idle"
    /\ Return(c)
    /\ given' = IF pc[c] = "session" THEN given \cup {local[c].token} ELSE given
    /\ lost' = IF pc[c] = "stamp" THEN lost \cup {local[c].token} ELSE lost
    /\ UNCHANGED <<rows, perms, second, epoch, chain, overtaken, resetBy>>

Tick ==
    /\ second < MaxSecond
    /\ second' = second + 1
    /\ UNCHANGED <<rows, perms, requests, history>>

Begin(c) ==
    \/ StartLogin(c) \/ StartRegister(c) \/ StartRefresh(c)
    \/ StartForgot(c) \/ StartReset(c) \/ StartPassword(c)
    \/ StartRevoke(c) \/ StartReplaceRole(c) \/ StartGuard(c)

Step(c) ==
    \/ Create(c) \/ Store(c) \/ Stamp(c) \/ RecordSession(c)
    \/ Forgot(c) \/ Reset(c) \/ ChangePassword(c)
    \/ Revoke(c) \/ ReplaceRole(c) \/ CachePerms(c)

Statement == Logout \/ UpdateProfile \/ DeleteUser \/ AssignRole \/ RemoveRole

Next ==
    \/ \E c \in Request : Begin(c) \/ Step(c) \/ Fail(c)
    \/ Statement
    \/ \E u \in User, own \in Id : RevokeOthers(u, own)
    \/ \E u \in User : ExpirePerms(u)
    \/ ExpireProof
    \/ Tick

(* The database as the seed leaves it. *)
Init ==
    /\ \E name \in Username, mail \in Email, p \in Password, r \in Role :
           /\ users = [u \in User |->
                  IF u = Founder THEN [username |-> name, email |-> mail, password |-> p,
                                       refresh |-> Nothing]
                  ELSE Nothing]
           /\ roles = [u \in User |-> IF u = Founder THEN {r} ELSE {}]
    /\ created = {Founder}
    /\ sessions = [i \in Id |-> Nothing]
    /\ nextSession = 1
    /\ proofs = [i \in Id |-> Nothing]
    /\ nextProof = 1
    /\ perms = [u \in User |-> Nothing]
    /\ second = 0
    /\ pc = [c \in Request |-> "idle"]
    /\ local = [c \in Request |-> NoLocal]
    /\ started = 0
    /\ given = {}
    /\ lost = {}
    /\ epoch = [u \in User |-> 0]
    /\ chain = [u \in User |-> 0]
    /\ overtaken = {}
    /\ resetBy = {}

Spec == Init /\ [][Next]_vars
FairSpec ==
    /\ Spec
    /\ \A c \in Request : WF_vars(Step(c))
    /\ \A u \in User : WF_vars(ExpirePerms(u))

----------------------------------------------------------------------------
(* Properties.                                                             *)

(* Every variable holds a value of its kind. *)
TypeOK ==
    /\ users \in [User -> UserRow \cup {Nothing}]
    /\ created \subseteq User
    /\ sessions \in [Id -> SessionRow \cup {Nothing}]
    /\ nextSession \in 1 .. (MaxRequests + 1)
    /\ proofs \in [Id -> ProofRow \cup {Nothing}]
    /\ nextProof \in 1 .. (MaxRequests + 1)
    /\ roles \in [User -> SUBSET Role]
    /\ perms \in [User -> CachedPerms \cup {Nothing}]
    /\ second \in Second
    /\ pc \in [Request -> Stages]
    /\ local \in [Request -> Local]
    /\ started \in 0 .. MaxRequests
    /\ given \subseteq Token /\ lost \subseteq Token
    /\ epoch \in [User -> Nat] /\ chain \in [User -> Nat]
    /\ overtaken \subseteq User /\ resetBy \subseteq Id

(* No two users have one username or one email, whichever of the racing    *)
(* registers and profile updates come first: the checks of register alone  *)
(* would not do.                                                           *)
UniqueAccounts ==
    \A u, v \in Users : u # v =>
        users[u].username # users[v].username /\ users[u].email # users[v].email

(* What hangs on an account goes with it, what a call in flight adds late  *)
(* included.                                                               *)
NoOrphans ==
    /\ \A i \in Id : sessions[i] # Nothing => sessions[i].user \in Users
    /\ \A i \in Id : proofs[i] # Nothing => proofs[i].user \in Users
    /\ \A u \in User \ Users : roles[u] = {}

(* A refresh token does not survive a logout or a password reset, nor is   *)
(* it succeeded by one that does; only a login or refresh that was already *)
(* in flight then may store one after.                                     *)
RefreshEndsWithLogout ==
    \A u \in Users : users[u].refresh # Nothing => chain[u] = epoch[u] \/ u \in overtaken

(* The one token of a user that works was sent to a client, or is on the   *)
(* response of a request that still records its session, whether that      *)
(* succeeds or not: of two refreshes with one token the client of the      *)
(* later one can go on, and a session that cannot be recorded locks nobody *)
(* out.  Only a login stores a token nobody is sent, while its other write *)
(* is under way and for good if that fails.                                *)
StoredTokenIsHandedOut ==
    \A u \in Users : users[u].refresh # Nothing =>
        \/ users[u].refresh \in given \cup lost
        \/ \E c \in Request : /\ pc[c] \in {"stamp", "session"}
                              /\ local[c].token = users[u].refresh

(* What has changed a password is used up. *)
ResetConsumesProof == \A i \in resetBy : proofs[i] # Nothing => proofs[i].used

(* Reset links and codes do not pile up: a user never has more of a kind   *)
(* that are unused, or about to be created, than requests are in flight at *)
(* once.                                                                   *)
FewUnusedProofs == \A u \in User, kind \in {"email", "phone"} :
    LET unused == {i \in Id : Usable(i) /\ proofs[i].user = u /\ proofs[i].kind = kind}
        coming == {c \in Request : pc[c] = "forgot" /\ local[c].user = u /\ local[c].kind = kind}
    IN  Cardinality(unused) + Cardinality(coming) <= Cardinality(Request)

(* A deleted account never comes back, a revoked session is never active   *)
(* again, a used proof never usable, whatever a late call still writes.    *)
NothingComesBack ==
    [][/\ \A u \in created : users[u] = Nothing => users'[u] = Nothing
       /\ \A i \in Id : sessions[i] # Nothing /\ sessions[i].revoked =>
              sessions'[i] = Nothing \/ sessions'[i].revoked
       /\ \A i \in Id : proofs[i] # Nothing /\ proofs[i].used =>
              proofs'[i] = Nothing \/ proofs'[i].used]_vars

(* Once nobody changes roles any more, the cached permissions are in the   *)
(* end those of the roles: roles read between the two statements of        *)
(* updateUser, or before a change, do not stay.                            *)
RolesSeen ==
    <>[][roles' = roles]_vars =>
        <>[](\A u \in Users : perms[u] # Nothing => perms[u].set = Granted(u))

(* auth.controller.ts:235 of DELETE /auth/sessions: revoke all sessions    *)
(* except the current one.                                                 *)
CurrentSessionKept ==
    [][\A u \in User, own \in Id : RevokeOthers(u, own) => ~sessions'[own].revoked]_vars

=============================================================================
