--------------------------- MODULE AccountsProofs ---------------------------
(***************************************************************************)
(* Theorems about Accounts, for every set of users, names, roles and calls *)
(* in flight, and any number of requests.                                  *)
(*                                                                         *)
(* The invariant relates what a call keeps in its local variables to the   *)
(* rows the others change meanwhile: the proof a reset has checked is      *)
(* still its user's, or gone with him; the numbers of sessions and proofs  *)
(* that calls in flight will still create are not yet taken.               *)
(***************************************************************************)
EXTENDS Accounts, FiniteSetTheorems, TLAPS

RowsTyped ==
    /\ users \in [User -> UserRow \cup {Nothing}]
    /\ created \in SUBSET User
    /\ sessions \in [Id -> SessionRow \cup {Nothing}]
    /\ proofs \in [Id -> ProofRow \cup {Nothing}]
    /\ roles \in [User -> SUBSET Role]
    /\ perms \in [User -> CachedPerms \cup {Nothing}]

CallsTyped ==
    /\ pc \in [Request -> Stages]
    /\ local \in [Request -> Local]

HistoryTyped ==
    /\ second \in Second
    /\ given \in SUBSET Token
    /\ lost \in SUBSET Token
    /\ epoch \in [User -> Nat]
    /\ chain \in [User -> Nat]
    /\ overtaken \in SUBSET User
    /\ resetBy \in SUBSET Id

(* What a call knows at its stage. *)
Knows(stage, loc) ==
    /\ stage \notin {"idle", "create"} => loc.user \in User
    /\ stage \in {"store", "stamp", "session"} => loc.token \in Token
    /\ stage = "create" =>
           /\ loc.profile.username \in Username
           /\ loc.profile.email \in Email
           /\ loc.password \in Password
    /\ stage \in {"password", "reset"} => loc.password \in Password
    /\ stage \in {"reset", "revoke"} => loc.id \in Id
    /\ stage = "assign" => loc.role \in Role

Informed == \A c \in Request : Knows(pc[c], local[c])

(* Sessions and proofs that calls in flight may still create. *)
DueSessions == {c \in Request : \/ pc[c] \in {"create", "stamp", "session"}
                                \/ pc[c] = "store" /\ local[c].by # "refresh"}
DueProofs == {c \in Request : pc[c] = "forgot"}

Counted ==
    /\ started \in 0 .. MaxRequests
    /\ nextSession \in Nat \ {0}
    /\ nextProof \in Nat \ {0}
    /\ nextSession + Cardinality(DueSessions) <= started + 1
    /\ nextProof + Cardinality(DueProofs) <= started + 1

(* The rows exist that calls in flight and the histories count on. *)
Numbered ==
    /\ \A i \in Id : sessions[i] # Nothing => i < nextSession
    /\ \A i \in Id : proofs[i] # Nothing => i < nextProof
    /\ \A i \in resetBy : i < nextProof
    /\ Users \subseteq created
    /\ \A c \in Request : pc[c] = "reset" =>
           LET loc == local[c]
           IN  /\ loc.id < nextProof
               /\ loc.user \in created
               /\ loc.user \in Users =>
                      proofs[loc.id] # Nothing /\ proofs[loc.id].user = loc.user

TypeInv == RowsTyped /\ CallsTyped /\ HistoryTyped /\ Informed /\ Counted

(* The typing of the proofs is that of the module, with more of it. *)
LEMMA TypeInvImpliesTypeOK == TypeInv => TypeOK
<1> SUFFICES ASSUME TypeInv PROVE TypeOK
  OBVIOUS
<1>1. IsFiniteSet(DueSessions) /\ IsFiniteSet(DueProofs)
  BY RequestAssumption, FS_Subset DEF DueSessions, DueProofs
<1>2. Cardinality(DueSessions) \in Nat /\ Cardinality(DueProofs) \in Nat
  BY <1>1, FS_CardinalityType
<1>3. nextSession \in 1 .. (MaxRequests + 1) /\ nextProof \in 1 .. (MaxRequests + 1)
  BY <1>2, BoundAssumption DEF TypeInv, Counted
<1> QED
  BY <1>3 DEF TypeInv, RowsTyped, CallsTyped, HistoryTyped, Counted, TypeOK

LEMMA NoLocalIsLocal ==
    /\ NoLocal \in Local
    /\ NoLocal.user = Nothing /\ NoLocal.token = Nothing /\ NoLocal.by = "refresh"
BY DEF NoLocal, Local, Profile

----------------------------------------------------------------------------
(* Which calls write what.                                                 *)

(* The calls that change a row of User. *)
WritesUsers ==
    \/ \E c \in Request : Create(c) \/ Store(c) \/ Reset(c) \/ ChangePassword(c)
    \/ Logout \/ UpdateProfile \/ DeleteUser

LEMMA UsersKept ==
    ASSUME [Next]_vars
    PROVE  WritesUsers \/ UNCHANGED <<users, created, epoch, chain, overtaken>>
<1>1. CASE UNCHANGED vars
  BY <1>1 DEF vars, rows, history
<1>2. ASSUME NEW c \in Request, Begin(c)
      PROVE  WritesUsers \/ UNCHANGED <<users, created, epoch, chain, overtaken>>
  BY <1>2 DEF WritesUsers, Begin, StartLogin, StartRegister, StartRefresh, StartForgot, StartReset, StartPassword, StartRevoke, StartReplaceRole, StartGuard, rows, history
<1>3. ASSUME NEW c \in Request, Step(c) \/ Fail(c)
      PROVE  WritesUsers \/ UNCHANGED <<users, created, epoch, chain, overtaken>>
  BY <1>3 DEF WritesUsers, Step, Stamp, RecordSession, Forgot, Revoke, ReplaceRole, CachePerms, Fail, StoreOf, rows, history
<1>4. ASSUME Statement \/ ExpireProof \/ Tick
      PROVE  WritesUsers \/ UNCHANGED <<users, created, epoch, chain, overtaken>>
  BY <1>4 DEF WritesUsers, Statement, AssignRole, RemoveRole, ExpireProof, Tick, rows, history
<1>5. ASSUME NEW u \in User, ExpirePerms(u) \/ \E own \in Id : RevokeOthers(u, own)
      PROVE  WritesUsers \/ UNCHANGED <<users, created, epoch, chain, overtaken>>
  BY <1>5 DEF WritesUsers, ExpirePerms, RevokeOthers, rows, history
<1> QED
  BY <1>1, <1>2, <1>3, <1>4, <1>5 DEF Next

(* The calls that change a row of UserSession. *)
WritesSessions ==
    \/ \E c \in Request : RecordSession(c) \/ Revoke(c)
    \/ \E u \in User, own \in Id : RevokeOthers(u, own)
    \/ DeleteUser

LEMMA SessionsKept ==
    ASSUME [Next]_vars
    PROVE  WritesSessions \/ UNCHANGED <<sessions, nextSession>>
<1>1. CASE UNCHANGED vars
  BY <1>1 DEF vars, rows, history
<1>2. ASSUME NEW c \in Request, Begin(c)
      PROVE  WritesSessions \/ UNCHANGED <<sessions, nextSession>>
  BY <1>2 DEF WritesSessions, Begin, StartLogin, StartRegister, StartRefresh, StartForgot, StartReset, StartPassword, StartRevoke, StartReplaceRole, StartGuard, rows, history
<1>3. ASSUME NEW c \in Request, Step(c) \/ Fail(c)
      PROVE  WritesSessions \/ UNCHANGED <<sessions, nextSession>>
  BY <1>3 DEF WritesSessions, Step, Create, Store, Stamp, Forgot, Reset, ChangePassword, ReplaceRole, CachePerms, Fail, StoreOf, rows, history
<1>4. ASSUME Statement \/ ExpireProof \/ Tick
      PROVE  WritesSessions \/ UNCHANGED <<sessions, nextSession>>
  BY <1>4 DEF WritesSessions, Statement, Logout, UpdateProfile, AssignRole, RemoveRole, ExpireProof, Tick, rows, history
<1>5. ASSUME NEW u \in User, ExpirePerms(u) \/ \E own \in Id : RevokeOthers(u, own)
      PROVE  WritesSessions \/ UNCHANGED <<sessions, nextSession>>
  BY <1>5 DEF WritesSessions, ExpirePerms, rows, history
<1> QED
  BY <1>1, <1>2, <1>3, <1>4, <1>5 DEF Next

(* The calls that change a row of PasswordResetToken or PhoneOtp. *)
WritesProofs ==
    \/ \E c \in Request : StartForgot(c) \/ Forgot(c) \/ Reset(c)
    \/ ExpireProof
    \/ DeleteUser

LEMMA ProofsKept ==
    ASSUME [Next]_vars
    PROVE  WritesProofs \/ UNCHANGED <<proofs, nextProof, resetBy>>
<1>1. CASE UNCHANGED vars
  BY <1>1 DEF vars, rows, history
<1>2. ASSUME NEW c \in Request, Begin(c)
      PROVE  WritesProofs \/ UNCHANGED <<proofs, nextProof, resetBy>>
  BY <1>2 DEF WritesProofs, Begin, StartLogin, StartRegister, StartRefresh, StartReset, StartPassword, StartRevoke, StartReplaceRole, StartGuard, rows, history
<1>3. ASSUME NEW c \in Request, Step(c) \/ Fail(c)
      PROVE  WritesProofs \/ UNCHANGED <<proofs, nextProof, resetBy>>
  BY <1>3 DEF WritesProofs, Step, Create, Store, Stamp, RecordSession, ChangePassword, Revoke, ReplaceRole, CachePerms, Fail, StoreOf, rows, history
<1>4. ASSUME Statement \/ ExpireProof \/ Tick
      PROVE  WritesProofs \/ UNCHANGED <<proofs, nextProof, resetBy>>
  BY <1>4 DEF WritesProofs, Statement, Logout, UpdateProfile, AssignRole, RemoveRole, Tick, rows, history
<1>5. ASSUME NEW u \in User, ExpirePerms(u) \/ \E own \in Id : RevokeOthers(u, own)
      PROVE  WritesProofs \/ UNCHANGED <<proofs, nextProof, resetBy>>
  BY <1>5 DEF WritesProofs, ExpirePerms, RevokeOthers, rows, history
<1> QED
  BY <1>1, <1>2, <1>3, <1>4, <1>5 DEF Next

----------------------------------------------------------------------------
(* Type correctness.                                                       *)

LEMMA InitTyped == Init => TypeInv /\ Numbered
<1> SUFFICES ASSUME Init PROVE TypeInv /\ Numbered
  OBVIOUS
<1>1. RowsTyped
  <2>1. PICK name \in Username, mail \in Email, p \in Password, r \in Role :
            /\ users = [u \in User |->
                   IF u = Founder THEN [username |-> name, email |-> mail, password |-> p,
                                        refresh |-> Nothing]
                   ELSE Nothing]
            /\ roles = [u \in User |-> IF u = Founder THEN {r} ELSE {}]
    BY DEF Init
  <2> QED
    BY <2>1, UserAssumption DEF Init, RowsTyped, UserRow
<1>2. CallsTyped /\ Informed
  BY NoLocalIsLocal DEF Init, CallsTyped, Stages, Informed, Knows
<1>3. HistoryTyped
  BY BoundAssumption DEF Init, HistoryTyped, Second
<1>4. DueSessions = {} /\ DueProofs = {}
  BY DEF Init, DueSessions, DueProofs
<1>5. Counted
  BY <1>4, FS_EmptySet, BoundAssumption DEF Init, Counted
<1>6. Numbered
  BY DEF Init, Numbered, Users
<1> QED
  BY <1>1, <1>2, <1>3, <1>5, <1>6 DEF TypeInv

LEMMA IdIsNumber == Id \subseteq Nat
BY BoundAssumption DEF Id

(* What the state holds of one call. *)
LEMMA CallTyped ==
    ASSUME TypeInv, NEW c \in Request
    PROVE  /\ pc[c] \in Stages
           /\ local[c] \in Local
           /\ Knows(pc[c], local[c])
BY DEF TypeInv, CallsTyped, Informed

(* Rows stay rows whatever field is written. *)
LEMMA UserRows ==
    ASSUME NEW r \in UserRow
    PROVE  /\ \A t \in Token \cup {Nothing} : [r EXCEPT !.refresh = t] \in UserRow
           /\ \A p \in Password : [r EXCEPT !.password = p] \in UserRow
           /\ \A p \in Password : [r EXCEPT !.password = p, !.refresh = Nothing] \in UserRow
           /\ \A patch \in Profile : Renamed(r, patch) \in UserRow
BY DEF UserRow, Renamed, Profile

LEMMA ProofRows ==
    ASSUME NEW r \in ProofRow
    PROVE  /\ [r EXCEPT !.used = TRUE] \in ProofRow
           /\ [r EXCEPT !.expired = TRUE] \in ProofRow
BY DEF ProofRow

LEMMA SessionRows ==
    ASSUME NEW r \in SessionRow
    PROVE  [r EXCEPT !.revoked = TRUE] \in SessionRow
BY DEF SessionRow

LEMMA UsersTyped ==
    ASSUME TypeInv, [Next]_vars
    PROVE  users' \in [User -> UserRow \cup {Nothing}] /\ created' \in SUBSET User
<1>0. /\ users \in [User -> UserRow \cup {Nothing}]
      /\ created \in SUBSET User
      /\ \A u \in Users : users[u] \in UserRow
  BY DEF TypeInv, RowsTyped, Users
<1>1. CASE UNCHANGED <<users, created, epoch, chain, overtaken>>
  BY <1>0, <1>1
<1>2. ASSUME NEW c \in Request, Create(c)
      PROVE  users' \in [User -> UserRow \cup {Nothing}] /\ created' \in SUBSET User
  <2> DEFINE loc == local[c]
  <2>1. CASE UNCHANGED <<users, created>>
    BY <1>0, <2>1
  <2>2. ASSUME NEW u \in User \ created,
               users' = [users EXCEPT ![u] = [username |-> loc.profile.username,
                                              email |-> loc.profile.email,
                                              password |-> loc.password, refresh |-> Nothing]],
               created' = created \cup {u}
        PROVE  users' \in [User -> UserRow \cup {Nothing}] /\ created' \in SUBSET User
    <3>1. /\ loc.profile.username \in Username
          /\ loc.profile.email \in Email
          /\ loc.password \in Password
      BY <1>2, CallTyped DEF Create, Knows
    <3>2. [username |-> loc.profile.username, email |-> loc.profile.email,
           password |-> loc.password, refresh |-> Nothing] \in UserRow
      BY <3>1 DEF UserRow
    <3> QED
      BY <1>0, <2>2, <3>2
  <2> QED
    BY <1>2, <2>1, <2>2 DEF Create
<1>3. ASSUME NEW c \in Request, Store(c)
      PROVE  users' \in [User -> UserRow \cup {Nothing}] /\ created' \in SUBSET User
  <2> DEFINE u == local[c].user
             stored == local[c].token
  <2>1. u \in User /\ stored \in Token
    BY <1>3, CallTyped DEF Store, StoreOf, Knows
  <2>2. CASE u \in Users
    <3>1. [users[u] EXCEPT !.refresh = stored] \in UserRow
      BY <1>0, <2>1, <2>2, UserRows
    <3> QED
      BY <1>0, <1>3, <2>1, <2>2, <3>1 DEF Store, StoreOf
  <2> QED
    BY <1>0, <1>3, <2>2 DEF Store, StoreOf
<1>4. ASSUME NEW c \in Request, Reset(c)
      PROVE  users' \in [User -> UserRow \cup {Nothing}] /\ created' \in SUBSET User
  <2> DEFINE u == local[c].user
             p == local[c].password
  <2>1. u \in User /\ p \in Password
    BY <1>4, CallTyped DEF Reset, Knows
  <2>2. CASE u \in Users
    <3>1. [users[u] EXCEPT !.password = p, !.refresh = Nothing] \in UserRow
      BY <1>0, <2>1, <2>2, UserRows
    <3>2. users' = [users EXCEPT ![u] = [users[u] EXCEPT !.password = p, !.refresh = Nothing]]
      BY <1>0, <1>4, <2>1, <2>2 DEF Reset, NewPassword
    <3> QED
      BY <1>0, <1>4, <2>1, <3>1, <3>2 DEF Reset
  <2> QED
    BY <1>0, <1>4, <2>2 DEF Reset
<1>5. ASSUME NEW c \in Request, ChangePassword(c)
      PROVE  users' \in [User -> UserRow \cup {Nothing}] /\ created' \in SUBSET User
  BY <1>0, <1>5, CallTyped, UserRows DEF ChangePassword, Knows
<1>6. CASE Logout
  <2>1. PICK u \in Users : /\ users' = [users EXCEPT ![u].refresh = Nothing]
                           /\ UNCHANGED created
    BY <1>6 DEF Logout
  <2>2. [users[u] EXCEPT !.refresh = Nothing] \in UserRow
    BY <1>0, UserRows
  <2> QED
    BY <1>0, <2>1, <2>2
<1>7. CASE UpdateProfile
  <2>1. PICK u \in Users, patch \in Profile :
            /\ users' = [users EXCEPT ![u] = Renamed(users[u], patch)]
            /\ UNCHANGED created
    BY <1>7 DEF UpdateProfile
  <2>2. Renamed(users[u], patch) \in UserRow
    BY <1>0, UserRows
  <2> QED
    BY <1>0, <2>1, <2>2
<1>8. CASE DeleteUser
  BY <1>0, <1>8 DEF DeleteUser
<1> QED
  BY <1>1, <1>2, <1>3, <1>4, <1>5, <1>6, <1>7, <1>8, UsersKept DEF WritesUsers

LEMMA SessionsTyped ==
    ASSUME TypeInv, [Next]_vars
    PROVE  sessions' \in [Id -> SessionRow \cup {Nothing}]
<1>0. /\ sessions \in [Id -> SessionRow \cup {Nothing}]
      /\ \A i \in Id : sessions[i] # Nothing => sessions[i] \in SessionRow
  BY DEF TypeInv, RowsTyped
<1>1. CASE UNCHANGED <<sessions, nextSession>>
  BY <1>0, <1>1
<1>2. ASSUME NEW c \in Request, RecordSession(c)
      PROVE  sessions' \in [Id -> SessionRow \cup {Nothing}]
  <2>1. local[c].user \in User
    BY <1>2, CallTyped DEF RecordSession, Knows
  <2>2. [user |-> local[c].user, revoked |-> FALSE] \in SessionRow
    BY <2>1 DEF SessionRow
  <2> QED
    BY <1>0, <1>2, <2>2 DEF RecordSession
<1>3. ASSUME NEW c \in Request, Revoke(c)
      PROVE  sessions' \in [Id -> SessionRow \cup {Nothing}]
  BY <1>0, <1>3, SessionRows DEF Revoke
<1>4. ASSUME NEW u \in User, NEW own \in Id, RevokeOthers(u, own)
      PROVE  sessions' \in [Id -> SessionRow \cup {Nothing}]
  BY <1>0, <1>4, SessionRows DEF RevokeOthers, Active
<1>5. CASE DeleteUser
  BY <1>0, <1>5 DEF DeleteUser
<1> QED
  BY <1>1, <1>2, <1>3, <1>4, <1>5, SessionsKept DEF WritesSessions

LEMMA ProofsTyped ==
    ASSUME TypeInv, Numbered, [Next]_vars
    PROVE  proofs' \in [Id -> ProofRow \cup {Nothing}]
<1>0. /\ proofs \in [Id -> ProofRow \cup {Nothing}]
      /\ \A i \in Id : proofs[i] # Nothing => proofs[i] \in ProofRow
  BY DEF TypeInv, RowsTyped
<1>1. CASE UNCHANGED <<proofs, nextProof, resetBy>>
  BY <1>0, <1>1
<1>2. ASSUME NEW c \in Request, StartForgot(c)
      PROVE  proofs' \in [Id -> ProofRow \cup {Nothing}]
  BY <1>0, <1>2, ProofRows DEF StartForgot, Usable
<1>3. ASSUME NEW c \in Request, Forgot(c)
      PROVE  proofs' \in [Id -> ProofRow \cup {Nothing}]
  <2>1. local[c].user \in User /\ local[c].kind \in {"email", "phone"}
    BY <1>3, CallTyped DEF Forgot, Knows, Local
  <2>2. [user |-> local[c].user, kind |-> local[c].kind, used |-> FALSE, expired |-> FALSE]
            \in ProofRow
    BY <2>1 DEF ProofRow
  <2> QED
    BY <1>0, <1>3, <2>2 DEF Forgot
<1>4. ASSUME NEW c \in Request, Reset(c)
      PROVE  proofs' \in [Id -> ProofRow \cup {Nothing}]
  <2> DEFINE i == local[c].id
  <2>1. CASE UNCHANGED proofs
    BY <1>0, <2>1
  <2>2. CASE proofs' = [proofs EXCEPT ![i].used = TRUE] /\ local[c].user \in Users
    <3>1. i \in Id /\ proofs[i] \in ProofRow
      BY <1>0, <1>4, <2>2, CallTyped DEF Reset, Knows, Numbered
    <3>2. [proofs[i] EXCEPT !.used = TRUE] \in ProofRow
      BY <3>1, ProofRows
    <3> QED
      BY <1>0, <2>2, <3>1, <3>2
  <2> QED
    BY <1>4, <2>1, <2>2 DEF Reset
<1>5. CASE ExpireProof
  BY <1>0, <1>5, ProofRows DEF ExpireProof, Usable
<1>6. CASE DeleteUser
  BY <1>0, <1>6 DEF DeleteUser
<1> QED
  BY <1>1, <1>2, <1>3, <1>4, <1>5, <1>6, ProofsKept DEF WritesProofs

(* What a call gets when it starts or goes on is typed. *)
LEMMA GotoTyped ==
    ASSUME TypeInv, NEW c \in Request, NEW stage \in Stages, NEW loc \in Local,
           Knows(stage, loc),
           pc' = [pc EXCEPT ![c] = stage],
           local' = [local EXCEPT ![c] = loc]
    PROVE  CallsTyped' /\ Informed'
BY DEF TypeInv, CallsTyped, Informed

LEMMA ReturnTyped ==
    ASSUME TypeInv, NEW c \in Request, Return(c)
    PROVE  CallsTyped' /\ Informed'
BY GotoTyped, NoLocalIsLocal DEF Return, Goto, Stages, Knows

LEMMA FlagsKept ==
    ASSUME NEW r \in Local, NEW op \in {"login", "register", "refresh"}, NEW b \in BOOLEAN
    PROVE  /\ [r EXCEPT !.by = op] \in Local
           /\ [r EXCEPT !.late = b] \in Local
           /\ [r EXCEPT !.by = op].user = r.user /\ [r EXCEPT !.by = op].token = r.token
           /\ [r EXCEPT !.late = b].user = r.user /\ [r EXCEPT !.late = b].token = r.token
BY DEF Local

LEMMA IssuedIsLocal ==
    ASSUME TypeInv, NEW u \in User, NEW op \in {"login", "register"}
    PROVE  /\ Issued(u) \in Local
           /\ [Issued(u) EXCEPT !.by = op] \in Local
           /\ [Issued(u) EXCEPT !.late = u \in overtaken] \in Local
           /\ Issued(u).user = u
           /\ Issued(u).token \in Token
           /\ [Issued(u) EXCEPT !.by = op].user = u
           /\ [Issued(u) EXCEPT !.by = op].token \in Token
           /\ [Issued(u) EXCEPT !.late = u \in overtaken].user = u
           /\ [Issued(u) EXCEPT !.late = u \in overtaken].token \in Token
<1>1. [user |-> u, issued |-> second] \in Token
  BY DEF TypeInv, HistoryTyped, Token
<1>2. epoch[u] \in Nat
  BY DEF TypeInv, HistoryTyped
<1>3. Issued(u) \in Local
  BY <1>1, <1>2 DEF Issued, NoLocal, Local, Profile
<1>4. Issued(u).user = u /\ Issued(u).token = [user |-> u, issued |-> second]
  BY DEF Issued, NoLocal
<1>5. (u \in overtaken) \in BOOLEAN
  OBVIOUS
<1>6. /\ [Issued(u) EXCEPT !.by = op] \in Local
      /\ [Issued(u) EXCEPT !.by = op].user = Issued(u).user
      /\ [Issued(u) EXCEPT !.by = op].token = Issued(u).token
  BY <1>3, FlagsKept
<1>7. /\ [Issued(u) EXCEPT !.late = u \in overtaken] \in Local
      /\ [Issued(u) EXCEPT !.late = u \in overtaken].user = Issued(u).user
      /\ [Issued(u) EXCEPT !.late = u \in overtaken].token = Issued(u).token
  BY <1>3, <1>5, FlagsKept
<1> QED
  BY <1>1, <1>3, <1>4, <1>6, <1>7

LEMMA CallsKept ==
    ASSUME UNCHANGED <<pc, local>>, TypeInv
    PROVE  CallsTyped' /\ Informed'
BY DEF TypeInv, CallsTyped, Informed, Knows

(* Calls that begin. *)
LEMMA BeginTyped ==
    ASSUME TypeInv, NEW c \in Request, Begin(c)
    PROVE  CallsTyped' /\ Informed'
<1>0. Users \subseteq User /\ Phoned \subseteq User
  BY UserAssumption DEF Users
<1>1. CASE StartLogin(c)
  <2>1. PICK u \in Users :
            StartAs(c, "login", "store", [Issued(u) EXCEPT !.by = "login"])
    BY <1>1 DEF StartLogin
  <2> DEFINE loc == [Issued(u) EXCEPT !.by = "login"]
  <2>2. loc \in Local /\ loc.user = u /\ loc.token \in Token
    BY <1>0, IssuedIsLocal
  <2>3. Knows("store", loc)
    BY <1>0, <2>2 DEF Knows
  <2> HIDE DEF loc
  <2>4. pc' = [pc EXCEPT ![c] = "store"] /\ local' = [local EXCEPT ![c] = loc]
    BY <2>1 DEF StartAs, loc
  <2> QED
    BY <2>2, <2>3, <2>4, GotoTyped DEF Stages
<1>2. CASE StartRegister(c)
  <2>1. PICK name \in Username, mail \in Email, p \in Password :
            StartAs(c, "register", "create",
                    [NoLocal EXCEPT !.profile = [username |-> name, email |-> mail], !.password = p])
    BY <1>2 DEF StartRegister
  <2> DEFINE loc == [NoLocal EXCEPT !.profile = [username |-> name, email |-> mail], !.password = p]
  <2>2. loc \in Local /\ Knows("create", loc)
    BY DEF NoLocal, Local, Profile, Knows
  <2> QED
    BY <2>1, <2>2, GotoTyped DEF StartAs, Stages
<1>3. CASE StartRefresh(c)
  <2>1. PICK t \in given :
            /\ t.user \in Users
            /\ StartAs(c, "refresh", "store", [Issued(t.user) EXCEPT !.late = t.user \in overtaken])
    BY <1>3 DEF StartRefresh
  <2> QED
    BY <1>0, <2>1, IssuedIsLocal, GotoTyped DEF StartAs, Stages, Knows
<1>4. CASE StartForgot(c)
  <2>1. PICK u \in Users, kind \in {"email", "phone"} :
            StartAs(c, "forgot", "forgot", [NoLocal EXCEPT !.user = u, !.kind = kind])
    BY <1>4 DEF StartForgot
  <2> DEFINE loc == [NoLocal EXCEPT !.user = u, !.kind = kind]
  <2>2. loc \in Local /\ Knows("forgot", loc)
    BY <1>0 DEF NoLocal, Local, Profile, Knows
  <2> QED
    BY <2>1, <2>2, GotoTyped DEF StartAs, Stages
<1>5. CASE StartReset(c)
  <2>1. PICK i \in Id, p \in Password :
            /\ Presentable(i)
            /\ StartAs(c, "reset", "reset",
                       [NoLocal EXCEPT !.user = proofs[i].user, !.id = i, !.password = p])
    BY <1>5 DEF StartReset
  <2> DEFINE loc == [NoLocal EXCEPT !.user = proofs[i].user, !.id = i, !.password = p]
  <2>2. proofs[i].user \in User
    BY <2>1 DEF Presentable, Usable, TypeInv, RowsTyped, ProofRow
  <2>3. loc \in Local /\ Knows("reset", loc)
    BY <2>2 DEF NoLocal, Local, Profile, Knows
  <2> QED
    BY <2>1, <2>3, GotoTyped DEF StartAs, Stages
<1>6. CASE StartPassword(c)
  <2>1. PICK u \in Users, p \in Password :
            StartAs(c, "password", "password", [NoLocal EXCEPT !.user = u, !.password = p])
    BY <1>6 DEF StartPassword
  <2> DEFINE loc == [NoLocal EXCEPT !.user = u, !.password = p]
  <2>2. loc \in Local /\ Knows("password", loc)
    BY <1>0 DEF NoLocal, Local, Profile, Knows
  <2> QED
    BY <2>1, <2>2, GotoTyped DEF StartAs, Stages
<1>7. CASE StartRevoke(c)
  <2>1. PICK u \in Users, i \in Id :
            StartAs(c, "sessions", "revoke", [NoLocal EXCEPT !.user = u, !.id = i])
    BY <1>7 DEF StartRevoke, Active
  <2> DEFINE loc == [NoLocal EXCEPT !.user = u, !.id = i]
  <2>2. loc \in Local /\ Knows("revoke", loc)
    BY <1>0 DEF NoLocal, Local, Profile, Knows
  <2> QED
    BY <2>1, <2>2, GotoTyped DEF StartAs, Stages
<1>8. CASE StartReplaceRole(c)
  <2>1. PICK u \in Users, r \in Role :
            StartAs(c, "roles", "assign", [NoLocal EXCEPT !.user = u, !.role = r])
    BY <1>8 DEF StartReplaceRole
  <2> DEFINE loc == [NoLocal EXCEPT !.user = u, !.role = r]
  <2>2. loc \in Local /\ Knows("assign", loc)
    BY <1>0 DEF NoLocal, Local, Profile, Knows
  <2> QED
    BY <2>1, <2>2, GotoTyped DEF StartAs, Stages
<1>9. CASE StartGuard(c)
  <2>1. PICK u \in Users :
            StartAs(c, "guard", "cache", [NoLocal EXCEPT !.user = u, !.perms = Granted(u)])
    BY <1>9 DEF StartGuard
  <2> DEFINE loc == [NoLocal EXCEPT !.user = u, !.perms = Granted(u)]
  <2>2. Granted(u) \in SUBSET Permission
    BY <1>0, UserAssumption DEF Granted, TypeInv, RowsTyped
  <2>3. loc \in Local /\ Knows("cache", loc)
    BY <1>0, <2>2 DEF NoLocal, Local, Profile, Knows
  <2> QED
    BY <2>1, <2>3, GotoTyped DEF StartAs, Stages
<1> QED
  BY <1>1, <1>2, <1>3, <1>4, <1>5, <1>6, <1>7, <1>8, <1>9 DEF Begin

(* Calls that go on. *)
LEMMA StepTyped ==
    ASSUME TypeInv, NEW c \in Request, Step(c) \/ Fail(c)
    PROVE  CallsTyped' /\ Informed'
<1>1. CASE Return(c)
  BY <1>1, ReturnTyped
<1>2. CASE Create(c) /\ ~Return(c)
  <2>1. PICK u \in User : Goto(c, "store", [Issued(u) EXCEPT !.by = "register"])
    BY <1>2 DEF Create
  <2> QED
    BY <2>1, IssuedIsLocal, GotoTyped DEF Goto, Stages, Knows
<1>3. CASE Store(c) /\ ~Return(c)
  <2>1. pc[c] = "store" /\ (Goto(c, "stamp", local[c]) \/ Goto(c, "session", local[c]))
    BY <1>3 DEF Store, StoreOf
  <2>2. local[c] \in Local /\ Knows("stamp", local[c]) /\ Knows("session", local[c])
    BY <2>1, CallTyped DEF Knows
  <2> QED
    BY <2>1, <2>2, GotoTyped DEF Goto, Stages
<1>4. CASE Stamp(c) /\ ~Return(c)
  <2>1. pc[c] = "stamp" /\ Goto(c, "session", local[c])
    BY <1>4 DEF Stamp
  <2>2. local[c] \in Local /\ Knows("session", local[c])
    BY <2>1, CallTyped DEF Knows
  <2> QED
    BY <2>1, <2>2, GotoTyped DEF Goto, Stages
<1>5. Return(c) \/ Create(c) \/ Store(c) \/ Stamp(c)
  BY DEF Step, Fail, RecordSession, Forgot, Reset, ChangePassword, Revoke, ReplaceRole, CachePerms
<1> QED
  BY <1>1, <1>2, <1>3, <1>4, <1>5

LEMMA ControlTyped ==
    ASSUME TypeInv, [Next]_vars
    PROVE  CallsTyped' /\ Informed'
<1>1. CASE UNCHANGED vars
  BY <1>1, CallsKept DEF vars, requests
<1>2. CASE Statement
  BY <1>2, CallsKept
  DEF Statement, Call, Logout, UpdateProfile, DeleteUser, AssignRole, RemoveRole
<1>3. ASSUME NEW u \in User, NEW own \in Id, RevokeOthers(u, own)
      PROVE  CallsTyped' /\ Informed'
  BY <1>3, CallsKept DEF RevokeOthers, Call
<1>4. ASSUME NEW u \in User, ExpirePerms(u)
      PROVE  CallsTyped' /\ Informed'
  BY <1>4, CallsKept DEF ExpirePerms, requests
<1>5. CASE ExpireProof \/ Tick
  BY <1>5, CallsKept DEF ExpireProof, Tick, requests
<1> QED
  BY <1>1, <1>2, <1>3, <1>4, <1>5, BeginTyped, StepTyped DEF Next

(* The calls that change roles or cached permissions. *)
WritesRoles ==
    \/ \E c \in Request : StartReplaceRole(c) \/ ReplaceRole(c) \/ CachePerms(c)
    \/ \E u \in User : ExpirePerms(u)
    \/ AssignRole \/ RemoveRole \/ DeleteUser

LEMMA RolesKept ==
    ASSUME [Next]_vars
    PROVE  WritesRoles \/ UNCHANGED <<roles, perms>>
<1>1. CASE UNCHANGED vars
  BY <1>1 DEF vars, rows, history
<1>2. ASSUME NEW c \in Request, Begin(c)
      PROVE  WritesRoles \/ UNCHANGED <<roles, perms>>
  BY <1>2 DEF WritesRoles, Begin, StartLogin, StartRegister, StartRefresh, StartForgot, StartReset, StartPassword, StartRevoke, StartGuard, rows, history
<1>3. ASSUME NEW c \in Request, Step(c) \/ Fail(c)
      PROVE  WritesRoles \/ UNCHANGED <<roles, perms>>
  BY <1>3 DEF WritesRoles, Step, Create, Store, Stamp, RecordSession, Forgot, Reset, ChangePassword, Revoke, Fail, StoreOf, rows, history
<1>4. ASSUME Statement \/ ExpireProof \/ Tick
      PROVE  WritesRoles \/ UNCHANGED <<roles, perms>>
  BY <1>4 DEF WritesRoles, Statement, Logout, UpdateProfile, ExpireProof, Tick, rows, history
<1>5. ASSUME NEW u \in User, ExpirePerms(u) \/ \E own \in Id : RevokeOthers(u, own)
      PROVE  WritesRoles \/ UNCHANGED <<roles, perms>>
  BY <1>5 DEF WritesRoles, RevokeOthers, rows, history
<1> QED
  BY <1>1, <1>2, <1>3, <1>4, <1>5 DEF Next

LEMMA RolesTyped ==
    ASSUME TypeInv, [Next]_vars
    PROVE  /\ roles' \in [User -> SUBSET Role]
           /\ perms' \in [User -> CachedPerms \cup {Nothing}]
<1> DEFINE Goal == roles' \in [User -> SUBSET Role] /\ perms' \in [User -> CachedPerms \cup {Nothing}]
<1>0. /\ roles \in [User -> SUBSET Role]
      /\ perms \in [User -> CachedPerms \cup {Nothing}]
  BY DEF TypeInv, RowsTyped
<1>1. CASE UNCHANGED <<roles, perms>>
  BY <1>0, <1>1
<1>2. ASSUME NEW c \in Request, StartReplaceRole(c) PROVE Goal
  BY <1>0, <1>2 DEF StartReplaceRole
<1>3. ASSUME NEW c \in Request, ReplaceRole(c) PROVE Goal
  <2>1. local[c].role \in Role
    BY <1>3, CallTyped DEF ReplaceRole, Knows
  <2> QED
    BY <1>0, <1>3, <2>1 DEF ReplaceRole
<1>4. ASSUME NEW c \in Request, CachePerms(c) PROVE Goal
  <2>1. local[c].perms \in SUBSET Permission
    BY CallTyped DEF Local
  <2>2. [set |-> local[c].perms, expires |-> TRUE] \in CachedPerms
    BY <2>1 DEF CachedPerms
  <2> QED
    BY <1>0, <1>4, <2>2 DEF CachePerms, rows
<1>5. ASSUME NEW u \in User, ExpirePerms(u) PROVE Goal
  BY <1>0, <1>5 DEF ExpirePerms, rows
<1>6. CASE AssignRole
  BY <1>0, <1>6 DEF AssignRole
<1>7. CASE RemoveRole
  BY <1>0, <1>7 DEF RemoveRole
<1>8. CASE DeleteUser
  BY <1>0, <1>8 DEF DeleteUser
<1> QED
  BY <1>1, <1>2, <1>3, <1>4, <1>5, <1>6, <1>7, <1>8, RolesKept DEF WritesRoles


(* The calls that change the clock or a history. *)
WritesHistory ==
    \/ \E c \in Request : Store(c) \/ Stamp(c) \/ RecordSession(c) \/ Reset(c) \/ Fail(c)
    \/ Logout \/ Tick

LEMMA HistoryKept ==
    ASSUME [Next]_vars
    PROVE  WritesHistory \/ UNCHANGED <<second, history>>
<1>1. CASE UNCHANGED vars
  BY <1>1 DEF vars, rows, history
<1>2. ASSUME NEW c \in Request, Begin(c)
      PROVE  WritesHistory \/ UNCHANGED <<second, history>>
  BY <1>2 DEF WritesHistory, Begin, StartLogin, StartRegister, StartRefresh, StartForgot, StartReset, StartPassword, StartRevoke, StartReplaceRole, StartGuard, StartAs, rows, history
<1>3. ASSUME NEW c \in Request, Step(c) \/ Fail(c)
      PROVE  WritesHistory \/ UNCHANGED <<second, history>>
  BY <1>3 DEF WritesHistory, Step, Create, Forgot, ChangePassword, Revoke, ReplaceRole, CachePerms, rows, history
<1>4. ASSUME Statement \/ ExpireProof \/ Tick
      PROVE  WritesHistory \/ UNCHANGED <<second, history>>
  BY <1>4 DEF WritesHistory, Statement, UpdateProfile, DeleteUser, AssignRole, RemoveRole, ExpireProof, Call, rows, history
<1>5. ASSUME NEW u \in User, ExpirePerms(u) \/ \E own \in Id : RevokeOthers(u, own)
      PROVE  WritesHistory \/ UNCHANGED <<second, history>>
  BY <1>5 DEF WritesHistory, ExpirePerms, RevokeOthers, Call, rows, history
<1> QED
  BY <1>1, <1>2, <1>3, <1>4, <1>5 DEF Next

LEMMA HistoriesTyped ==
    ASSUME TypeInv, Numbered, [Next]_vars
    PROVE  HistoryTyped'
<1>0. HistoryTyped /\ users \in [User -> UserRow \cup {Nothing}]
  BY DEF TypeInv, RowsTyped
<1>1. CASE UNCHANGED <<second, history>>
  BY <1>0, <1>1 DEF HistoryTyped, history
<1>2. ASSUME NEW c \in Request, Store(c) PROVE HistoryTyped'
  <2>1. /\ local[c].user \in User
        /\ local[c].token \in Token
        /\ local[c].epoch \in Nat
    BY <1>2, CallTyped DEF Store, StoreOf, Knows, Local
  <2> QED
    BY <1>0, <1>2, <2>1 DEF Store, StoreOf, HistoryTyped
<1>3. ASSUME NEW c \in Request, RecordSession(c) PROVE HistoryTyped'
  <2>1. local[c].token \in Token
    BY <1>3, CallTyped DEF RecordSession, Knows
  <2> QED
    BY <1>0, <1>3, <2>1 DEF RecordSession, HistoryTyped
<1>4. ASSUME NEW c \in Request, Reset(c) PROVE HistoryTyped'
  <2>1. local[c].user \in User /\ local[c].id \in Id
    BY <1>4, CallTyped DEF Reset, Knows
  <2> QED
    BY <1>0, <1>4, <2>1 DEF Reset, NewPassword, HistoryTyped
<1>5. ASSUME NEW c \in Request, Fail(c) \/ Stamp(c) PROVE HistoryTyped'
  <2>1. pc[c] \in {"stamp", "session"} => local[c].token \in Token
    BY CallTyped DEF Knows
  <2> QED
    BY <1>0, <1>5, <2>1 DEF Fail, Stamp, HistoryTyped
<1>6. CASE Logout
  BY <1>0, <1>6 DEF Logout, Call, Users, HistoryTyped
<1>7. CASE Tick
  BY <1>0, <1>7, BoundAssumption DEF Tick, history, HistoryTyped, Second
<1> QED
  BY <1>1, <1>2, <1>3, <1>4, <1>5, <1>6, <1>7, HistoryKept DEF WritesHistory

LEMMA RowsStayTyped ==
    ASSUME TypeInv, Numbered, [Next]_vars
    PROVE  RowsTyped'
BY UsersTyped, SessionsTyped, ProofsTyped, RolesTyped DEF RowsTyped

(* Sets that gain or lose one element. *)
LEMMA AtMostOneMore ==
    ASSUME NEW S, NEW T, NEW x, IsFiniteSet(S), T \subseteq S \cup {x}
    PROVE  /\ Cardinality(S) \in Nat /\ Cardinality(T) \in Nat
           /\ Cardinality(T) <= Cardinality(S) + 1
<1>1. Cardinality(S) \in Nat
  BY FS_CardinalityType
<1>2. /\ IsFiniteSet(S \cup {x})
      /\ Cardinality(S \cup {x}) = IF x \in S THEN Cardinality(S) ELSE Cardinality(S) + 1
  BY FS_AddElement
<1>3. Cardinality(S \cup {x}) <= Cardinality(S) + 1
  BY <1>1, <1>2
<1>4. /\ Cardinality(T) <= Cardinality(S \cup {x})
      /\ Cardinality(T) \in Nat /\ Cardinality(S \cup {x}) \in Nat
  BY <1>2, FS_Subset, FS_CardinalityType
<1> QED
  BY <1>1, <1>3, <1>4

LEMMA AtMostAsMany ==
    ASSUME NEW S, NEW T, IsFiniteSet(S), T \subseteq S
    PROVE  /\ Cardinality(S) \in Nat /\ Cardinality(T) \in Nat
           /\ Cardinality(T) <= Cardinality(S)
BY FS_Subset, FS_CardinalityType

LEMMA OneFewer ==
    ASSUME NEW S, NEW T, NEW x \in S, IsFiniteSet(S), T \subseteq S \ {x}
    PROVE  /\ Cardinality(S) \in Nat /\ Cardinality(T) \in Nat
           /\ Cardinality(T) + 1 <= Cardinality(S)
<1>1. IsFiniteSet(S \ {x}) /\ Cardinality(S \ {x}) = Cardinality(S) - 1
  BY FS_RemoveElement
<1> QED
  BY <1>1, FS_Subset, FS_CardinalityType

LEMMA DueFinite == IsFiniteSet(DueSessions) /\ IsFiniteSet(DueProofs)
BY RequestAssumption, FS_Subset DEF DueSessions, DueProofs

LEMMA CountedAfterStart ==
    ASSUME TypeInv, NEW c \in Request,
           started < MaxRequests, started' = started + 1,
           DueSessions' \subseteq DueSessions \cup {c}, DueProofs' \subseteq DueProofs \cup {c},
           UNCHANGED <<nextSession, nextProof>>
    PROVE  Counted'
<1>1. Cardinality(DueSessions') <= Cardinality(DueSessions) + 1
      /\ Cardinality(DueSessions) \in Nat /\ Cardinality(DueSessions') \in Nat
  BY DueFinite, AtMostOneMore
<1>2. Cardinality(DueProofs') <= Cardinality(DueProofs) + 1
      /\ Cardinality(DueProofs) \in Nat /\ Cardinality(DueProofs') \in Nat
  BY DueFinite, AtMostOneMore
<1> QED
  BY <1>1, <1>2, BoundAssumption DEF TypeInv, Counted

LEMMA CountedAfterStatement ==
    ASSUME TypeInv,
           started' = started \/ (started < MaxRequests /\ started' = started + 1),
           DueSessions' \subseteq DueSessions, DueProofs' \subseteq DueProofs,
           UNCHANGED <<nextSession, nextProof>>
    PROVE  Counted'
<1>1. Cardinality(DueSessions') <= Cardinality(DueSessions)
      /\ Cardinality(DueSessions) \in Nat /\ Cardinality(DueSessions') \in Nat
  BY DueFinite, AtMostAsMany
<1>2. Cardinality(DueProofs') <= Cardinality(DueProofs)
      /\ Cardinality(DueProofs) \in Nat /\ Cardinality(DueProofs') \in Nat
  BY DueFinite, AtMostAsMany
<1> QED
  BY <1>1, <1>2, BoundAssumption DEF TypeInv, Counted

LEMMA CountedAfterReturn ==
    ASSUME TypeInv, NEW c \in Request, Return(c),
           \/ UNCHANGED <<nextSession, nextProof>>
           \/ c \in DueSessions /\ nextSession' = nextSession + 1 /\ UNCHANGED nextProof
           \/ c \in DueProofs /\ nextProof' = nextProof + 1 /\ UNCHANGED nextSession
    PROVE  Counted'
<1>1. DueSessions' \subseteq DueSessions \ {c} /\ DueProofs' \subseteq DueProofs \ {c}
  BY NoLocalIsLocal DEF Return, Goto, DueSessions, DueProofs, TypeInv, CallsTyped
<1>2. UNCHANGED started
  BY DEF Return, Goto
<1>3. CASE UNCHANGED <<nextSession, nextProof>>
  BY <1>1, <1>2, <1>3, CountedAfterStatement
<1>4. CASE c \in DueSessions /\ nextSession' = nextSession + 1 /\ UNCHANGED nextProof
  <2>1. Cardinality(DueSessions') + 1 <= Cardinality(DueSessions)
        /\ Cardinality(DueSessions) \in Nat /\ Cardinality(DueSessions') \in Nat
    BY <1>1, <1>4, DueFinite, OneFewer
  <2>2. Cardinality(DueProofs') <= Cardinality(DueProofs)
        /\ Cardinality(DueProofs) \in Nat /\ Cardinality(DueProofs') \in Nat
    BY <1>1, DueFinite, AtMostAsMany
  <2> QED
    BY <1>2, <1>4, <2>1, <2>2, BoundAssumption DEF TypeInv, Counted
<1>5. CASE c \in DueProofs /\ nextProof' = nextProof + 1 /\ UNCHANGED nextSession
  <2>1. Cardinality(DueProofs') + 1 <= Cardinality(DueProofs)
        /\ Cardinality(DueProofs) \in Nat /\ Cardinality(DueProofs') \in Nat
    BY <1>1, <1>5, DueFinite, OneFewer
  <2>2. Cardinality(DueSessions') <= Cardinality(DueSessions)
        /\ Cardinality(DueSessions) \in Nat /\ Cardinality(DueSessions') \in Nat
    BY <1>1, DueFinite, AtMostAsMany
  <2> QED
    BY <1>2, <1>5, <2>1, <2>2, BoundAssumption DEF TypeInv, Counted
<1> QED
  BY <1>3, <1>4, <1>5

LEMMA StartCounted ==
    ASSUME TypeInv, NEW c \in Request, Begin(c)
    PROVE  Counted'
<1>1. PICK op \in Operations, stage \in Stages : \E loc : StartAs(c, op, stage, loc)
  BY DEF Begin, StartLogin, StartRegister, StartRefresh, StartForgot, StartReset, StartPassword,
         StartRevoke, StartReplaceRole, StartGuard, StartAs, Start, Stages
<1>2. DueSessions' \subseteq DueSessions \cup {c} /\ DueProofs' \subseteq DueProofs \cup {c}
  BY <1>1 DEF StartAs, DueSessions, DueProofs, TypeInv, CallsTyped
<1>3. UNCHANGED <<nextSession, nextProof>>
  BY DEF Begin, StartLogin, StartRegister, StartRefresh, StartForgot, StartReset, StartPassword,
         StartRevoke, StartReplaceRole, StartGuard, rows
<1> QED
  BY <1>1, <1>2, <1>3, CountedAfterStart DEF StartAs, Start

LEMMA StepCounted ==
    ASSUME TypeInv, NEW c \in Request, Step(c) \/ Fail(c)
    PROVE  Counted'
<1>1. CASE RecordSession(c)
  <2>1. c \in DueSessions
    BY <1>1 DEF RecordSession, DueSessions
  <2> QED
    BY <1>1, <2>1, CountedAfterReturn DEF RecordSession
<1>2. CASE Forgot(c)
  <2>1. c \in DueProofs
    BY <1>2 DEF Forgot, DueProofs
  <2> QED
    BY <1>2, <2>1, CountedAfterReturn DEF Forgot
<1>3. CASE Create(c)
  <2>1. CASE Return(c)
    BY <1>3, <2>1, CountedAfterReturn DEF Create
  <2>2. ASSUME NEW u \in User, Goto(c, "store", [Issued(u) EXCEPT !.by = "register"])
        PROVE  Counted'
    <3>1. c \in DueSessions
      BY <1>3 DEF Create, DueSessions
    <3>2. DueSessions' \subseteq DueSessions /\ DueProofs' \subseteq DueProofs
      BY <2>2, <3>1 DEF Goto, DueSessions, DueProofs, TypeInv, CallsTyped
    <3> QED
      BY <1>3, <2>2, <3>2, CountedAfterStatement DEF Create, Goto
  <2> QED
    BY <1>3, <2>1, <2>2 DEF Create
<1>4. CASE Store(c)
  <2>1. CASE Return(c)
    BY <1>4, <2>1, CountedAfterReturn DEF Store, StoreOf
  <2>2. CASE /\ local[c].by # "refresh"
             /\ Goto(c, "stamp", local[c]) \/ Goto(c, "session", local[c])
    <3>1. c \in DueSessions
      BY <1>4, <2>2 DEF Store, StoreOf, DueSessions
    <3>2. DueSessions' \subseteq DueSessions /\ DueProofs' \subseteq DueProofs
      BY <2>2, <3>1 DEF Goto, DueSessions, DueProofs, TypeInv, CallsTyped
    <3> QED
      BY <1>4, <2>2, <3>2, CountedAfterStatement DEF Store, StoreOf, Goto
  <2> QED
    BY <1>4, <2>1, <2>2 DEF Store, StoreOf
<1>5. CASE Fail(c) \/ Reset(c) \/ ChangePassword(c) \/ Revoke(c) \/ ReplaceRole(c) \/ CachePerms(c)
  BY <1>5, CountedAfterReturn DEF Fail, Reset, ChangePassword, Revoke, ReplaceRole, CachePerms, rows
<1>6. CASE Stamp(c)
  <2>1. CASE Return(c)
    BY <1>6, <2>1, CountedAfterReturn DEF Stamp, rows
  <2>2. CASE Goto(c, "session", local[c])
    <3>1. c \in DueSessions
      BY <1>6 DEF Stamp, DueSessions
    <3>2. DueSessions' \subseteq DueSessions /\ DueProofs' \subseteq DueProofs
      BY <2>2, <3>1 DEF Goto, DueSessions, DueProofs, TypeInv, CallsTyped
    <3> QED
      BY <1>6, <2>2, <3>2, CountedAfterStatement DEF Stamp, Goto, rows
  <2> QED
    BY <1>6, <2>1, <2>2 DEF Stamp
<1> QED
  BY <1>1, <1>2, <1>3, <1>4, <1>5, <1>6 DEF Step

LEMMA StaysCounted ==
    ASSUME TypeInv, [Next]_vars
    PROVE  Counted'
<1>1. CASE \/ UNCHANGED vars \/ Statement \/ ExpireProof \/ Tick
           \/ \E u \in User : ExpirePerms(u) \/ \E own \in Id : RevokeOthers(u, own)
  <2>1. UNCHANGED <<pc, local, nextSession, nextProof>>
    BY <1>1 DEF vars, rows, requests, Statement, Call, Logout, UpdateProfile, DeleteUser, AssignRole,
               RemoveRole, ExpireProof, Tick, ExpirePerms, RevokeOthers
  <2>2. started' = started \/ (started < MaxRequests /\ started' = started + 1)
    BY <1>1 DEF vars, requests, Statement, Call, Start, Logout, UpdateProfile, DeleteUser, AssignRole,
               RemoveRole, ExpireProof, Tick, ExpirePerms, RevokeOthers
  <2>3. DueSessions' = DueSessions /\ DueProofs' = DueProofs
    BY <2>1 DEF DueSessions, DueProofs
  <2> QED
    BY <2>1, <2>2, <2>3, CountedAfterStatement
<1> QED
  BY <1>1, StartCounted, StepCounted DEF Next

LEMMA StaysTyped ==
    ASSUME TypeInv, Numbered, [Next]_vars
    PROVE  TypeInv'
BY RowsStayTyped, ControlTyped, HistoriesTyped, StaysCounted DEF TypeInv

----------------------------------------------------------------------------
(* What happens to one row in a step.                                      *)

(* A user that exists has been there before, or gets a new id. *)
LEMMA UserSteps ==
    ASSUME TypeInv, Numbered, [Next]_vars
    PROVE  /\ created \subseteq created'
           /\ Users' \subseteq created'
           /\ \A u \in created : users[u] = Nothing => users'[u] = Nothing
           /\ DeleteUser \/ Users \subseteq Users'
<1> DEFINE Goal ==
      /\ created \subseteq created'
      /\ Users' \subseteq created'
      /\ \A u \in created : users[u] = Nothing => users'[u] = Nothing
      /\ DeleteUser \/ Users \subseteq Users'
<1>0. /\ users \in [User -> UserRow \cup {Nothing}]
      /\ \A r \in UserRow : r # Nothing
      /\ Users \subseteq created /\ Users \subseteq User
  BY RowAssumption DEF TypeInv, RowsTyped, Numbered, Users
<1>1. users' \in [User -> UserRow \cup {Nothing}]
  BY UsersTyped
<1>2. ASSUME UNCHANGED created,
             \A u \in User : users[u] = Nothing <=> users'[u] = Nothing
      PROVE  Goal
  BY <1>0, <1>2 DEF Users, TypeInv, RowsTyped
<1>3. ASSUME NEW c \in Request, Create(c)
      PROVE  Goal
  <2>1. CASE UNCHANGED <<users, created>>
    BY <1>2, <2>1
  <2>2. ASSUME NEW u \in User \ created, NEW r,
               users' = [users EXCEPT ![u] = r], created' = created \cup {u}
        PROVE  Goal
    BY <1>0, <2>2 DEF Users
  <2> QED
    BY <1>3, <2>1, <2>2 DEF Create
<1>4. ASSUME NEW v \in Users, NEW r, users' = [users EXCEPT ![v] = r], r # Nothing, UNCHANGED created
      PROVE  Goal
  BY <1>0, <1>2, <1>4 DEF Users
<1>5. ASSUME NEW c \in Request, Store(c)
      PROVE  Goal
  <2> DEFINE u == local[c].user
  <2>1. CASE u \in Users
    <3>1. local[c].token \in Token
      BY <1>5, CallTyped DEF Store, StoreOf, Knows
    <3>2. [users[u] EXCEPT !.refresh = local[c].token] \in UserRow
      BY <1>0, <2>1, <3>1, UserRows DEF Users
    <3> HIDE DEF u
    <3> QED
      BY <1>0, <1>4, <1>5, <2>1, <3>2 DEF Store, StoreOf, u
  <2> QED
    BY <1>2, <1>5, <2>1 DEF Store, StoreOf
<1>6. ASSUME NEW c \in Request, Reset(c)
      PROVE  Goal
  <2> DEFINE u == local[c].user
             p == local[c].password
  <2>1. CASE u \in Users
    <3>1. p \in Password
      BY <1>6, CallTyped DEF Reset, Knows
    <3>2. [users[u] EXCEPT !.password = p, !.refresh = Nothing] \in UserRow
      BY <1>0, <2>1, <3>1, UserRows DEF Users
    <3>3. users' = [users EXCEPT ![u] = [users[u] EXCEPT !.password = p, !.refresh = Nothing]]
      BY <1>0, <1>6, <2>1 DEF Reset, NewPassword
    <3> QED
      BY <1>0, <1>4, <1>6, <2>1, <3>2, <3>3 DEF Reset
  <2> QED
    BY <1>2, <1>6, <2>1 DEF Reset
<1>7. ASSUME NEW c \in Request, ChangePassword(c)
      PROVE  Goal
  <2>1. local[c].password \in Password
    BY <1>7, CallTyped DEF ChangePassword, Knows
  <2>2. \A u \in Users : [users[u] EXCEPT !.password = local[c].password] \in UserRow
    BY <1>0, <2>1, UserRows DEF Users
  <2> QED
    BY <1>0, <1>2, <1>7, <2>2 DEF ChangePassword, Users
<1>8. CASE Logout
  <2>1. PICK u \in Users : users' = [users EXCEPT ![u].refresh = Nothing] /\ UNCHANGED created
    BY <1>8 DEF Logout
  <2>2. [users[u] EXCEPT !.refresh = Nothing] \in UserRow
    BY <1>0, UserRows DEF Users
  <2> QED
    BY <1>0, <1>4, <2>1, <2>2
<1>9. CASE UpdateProfile
  <2>1. PICK u \in Users, patch \in Profile :
            users' = [users EXCEPT ![u] = Renamed(users[u], patch)] /\ UNCHANGED created
    BY <1>9 DEF UpdateProfile
  <2>2. Renamed(users[u], patch) \in UserRow
    BY <1>0, UserRows DEF Users
  <2> QED
    BY <1>0, <1>4, <2>1, <2>2
<1>10. CASE DeleteUser
  <2>1. PICK u \in Users : users' = [users EXCEPT ![u] = Nothing] /\ UNCHANGED created
    BY <1>10 DEF DeleteUser
  <2> QED
    BY <1>0, <1>10, <2>1 DEF Users
<1>11. CASE UNCHANGED <<users, created>>
  BY <1>2, <1>11
<1> QED
  BY <1>3, <1>5, <1>6, <1>7, <1>8, <1>9, <1>10, <1>11, UsersKept DEF WritesUsers, Create

(* A session stays its user's until it goes with him; a revoked one stays  *)
(* revoked; a new one has the next number and a user.                      *)
LEMMA SessionSteps ==
    ASSUME TypeInv, Numbered, [Next]_vars
    PROVE  /\ nextSession' \in {nextSession, nextSession + 1}
           /\ \A i \in Id : sessions'[i] # Nothing =>
                  \/ /\ sessions[i] # Nothing
                     /\ sessions'[i].user = sessions[i].user
                     /\ sessions[i].revoked => sessions'[i].revoked
                     /\ sessions[i].user \in Users => sessions'[i].user \in Users'
                  \/ /\ sessions[i] = Nothing /\ i = nextSession /\ nextSession' = nextSession + 1
                     /\ sessions'[i].user \in Users'
<1> DEFINE Kept == \A i \in Id : sessions'[i] # Nothing =>
                     /\ sessions[i] # Nothing
                     /\ sessions'[i].user = sessions[i].user
                     /\ sessions[i].revoked => sessions'[i].revoked
           Goal == /\ nextSession' \in {nextSession, nextSession + 1}
                   /\ \A i \in Id : sessions'[i] # Nothing =>
                        \/ /\ sessions[i] # Nothing
                           /\ sessions'[i].user = sessions[i].user
                           /\ sessions[i].revoked => sessions'[i].revoked
                           /\ sessions[i].user \in Users => sessions'[i].user \in Users'
                        \/ /\ sessions[i] = Nothing /\ i = nextSession /\ nextSession' = nextSession + 1
                           /\ sessions'[i].user \in Users'
<1>0. /\ sessions \in [Id -> SessionRow \cup {Nothing}]
      /\ \A i \in Id : sessions[i] # Nothing => sessions[i] \in SessionRow /\ i < nextSession
      /\ nextSession \in Nat
      /\ \A r \in SessionRow : r # Nothing
  BY RowAssumption DEF TypeInv, RowsTyped, Numbered, Counted
<1>1. CASE DeleteUser
  <2>1. PICK u \in Users :
            /\ users' = [users EXCEPT ![u] = Nothing]
            /\ sessions' = [i \in Id |-> IF sessions[i] # Nothing /\ sessions[i].user = u
                                         THEN Nothing ELSE sessions[i]]
            /\ UNCHANGED nextSession
    BY <1>1 DEF DeleteUser
  <2>2. ASSUME NEW i \in Id, sessions'[i] # Nothing
        PROVE  sessions'[i] = sessions[i] /\ sessions[i] # Nothing /\ sessions[i].user # u
    BY <2>1, <2>2
  <2>3. \A v \in Users : v # u => v \in Users'
    BY <2>1 DEF Users, TypeInv, RowsTyped
  <2> QED
    BY <2>1, <2>2, <2>3
<1>2. CASE ~DeleteUser
  <2>0. Users \subseteq Users'
    BY <1>2, UserSteps
  <2>1. CASE UNCHANGED <<sessions, nextSession>>
    BY <2>0, <2>1
  <2>2. ASSUME NEW c \in Request, RecordSession(c)
        PROVE  Goal
    <3>1. CASE local[c].user \notin Users
      BY <2>0, <2>2, <3>1 DEF RecordSession
    <3>2. CASE local[c].user \in Users
      <4>1. /\ sessions' = [sessions EXCEPT ![nextSession] = [user |-> local[c].user, revoked |-> FALSE]]
            /\ nextSession' = nextSession + 1
        BY <2>2, <3>2 DEF RecordSession
      <4>2. nextSession \in Id => sessions[nextSession] = Nothing
        BY <1>0, IdIsNumber
      <4> QED
        BY <1>0, <2>0, <3>2, <4>1, <4>2
    <3> QED
      BY <3>1, <3>2
  <2>3. ASSUME NEW c \in Request, Revoke(c)
        PROVE  Goal
    <3>1. Kept
      BY <1>0, <2>3, SessionRows DEF Revoke, SessionRow
    <3> QED
      BY <2>0, <2>3, <3>1 DEF Revoke
  <2>4. ASSUME NEW u \in User, NEW own \in Id, RevokeOthers(u, own)
        PROVE  Goal
    <3>1. Kept
      BY <1>0, <2>4 DEF RevokeOthers, Active, SessionRow
    <3> QED
      BY <2>0, <2>4, <3>1 DEF RevokeOthers
  <2> QED
    BY <1>2, <2>1, <2>2, <2>3, <2>4, SessionsKept DEF WritesSessions
<1> QED
  BY <1>1, <1>2

(* Likewise a proof, which is used once and for all. *)
LEMMA ProofSteps ==
    ASSUME TypeInv, Numbered, [Next]_vars
    PROVE  /\ nextProof' \in {nextProof, nextProof + 1}
           /\ \A i \in Id :
                  \/ proofs[i] = Nothing /\ proofs'[i] = Nothing
                  \/ /\ proofs[i] # Nothing /\ proofs'[i] # Nothing
                     /\ proofs'[i].user = proofs[i].user
                     /\ proofs[i].used => proofs'[i].used
                     /\ proofs[i].user \in Users => proofs'[i].user \in Users'
                  \/ proofs[i] # Nothing /\ proofs'[i] = Nothing /\ proofs[i].user \notin Users'
                  \/ /\ proofs[i] = Nothing /\ i = nextProof /\ nextProof' = nextProof + 1
                     /\ proofs'[i] # Nothing /\ proofs'[i].user \in Users'
<1> DEFINE Kept == \A i \in Id :
                     \/ proofs[i] = Nothing /\ proofs'[i] = Nothing
                     \/ /\ proofs[i] # Nothing /\ proofs'[i] # Nothing
                        /\ proofs'[i].user = proofs[i].user
                        /\ proofs[i].used => proofs'[i].used
           Goal == /\ nextProof' \in {nextProof, nextProof + 1}
                   /\ \A i \in Id :
                        \/ proofs[i] = Nothing /\ proofs'[i] = Nothing
                        \/ /\ proofs[i] # Nothing /\ proofs'[i] # Nothing
                           /\ proofs'[i].user = proofs[i].user
                           /\ proofs[i].used => proofs'[i].used
                           /\ proofs[i].user \in Users => proofs'[i].user \in Users'
                        \/ proofs[i] # Nothing /\ proofs'[i] = Nothing /\ proofs[i].user \notin Users'
                        \/ /\ proofs[i] = Nothing /\ i = nextProof /\ nextProof' = nextProof + 1
                           /\ proofs'[i] # Nothing /\ proofs'[i].user \in Users'
<1>0. /\ proofs \in [Id -> ProofRow \cup {Nothing}]
      /\ \A i \in Id : proofs[i] # Nothing => proofs[i] \in ProofRow /\ i < nextProof
      /\ nextProof \in Nat
      /\ \A r \in ProofRow : r # Nothing
  BY RowAssumption DEF TypeInv, RowsTyped, Numbered, Counted
<1>1. CASE DeleteUser
  <2>1. PICK u \in Users :
            /\ users' = [users EXCEPT ![u] = Nothing]
            /\ proofs' = [i \in Id |-> IF proofs[i] # Nothing /\ proofs[i].user = u
                                       THEN Nothing ELSE proofs[i]]
            /\ UNCHANGED nextProof
    BY <1>1 DEF DeleteUser
  <2>2. u \notin Users' /\ \A v \in Users : v # u => v \in Users'
    BY <2>1 DEF Users, TypeInv, RowsTyped
  <2> QED
    BY <2>1, <2>2
<1>2. CASE ~DeleteUser
  <2>0. Users \subseteq Users'
    BY <1>2, UserSteps
  <2>1. CASE UNCHANGED <<proofs, nextProof, resetBy>>
    BY <2>0, <2>1
  <2>2. ASSUME NEW c \in Request, StartForgot(c)
        PROVE  Goal
    <3>1. PICK u \in Users, kind \in {"email", "phone"} :
              proofs' = [i \in Id |->
                 IF Usable(i) /\ proofs[i].user = u /\ proofs[i].kind = kind
                 THEN [proofs[i] EXCEPT !.used = TRUE] ELSE proofs[i]]
      BY <2>2 DEF StartForgot
    <3>2. Kept
      BY <1>0, <3>1, ProofRows DEF Usable, ProofRow
    <3> QED
      BY <2>0, <2>2, <3>2 DEF StartForgot
  <2>3. ASSUME NEW c \in Request, Forgot(c)
        PROVE  Goal
    <3>1. CASE local[c].user \notin Users
      BY <2>0, <2>3, <3>1 DEF Forgot
    <3>2. CASE local[c].user \in Users
      <4> DEFINE row == [user |-> local[c].user, kind |-> local[c].kind, used |-> FALSE, expired |-> FALSE]
      <4>1. proofs' = [proofs EXCEPT ![nextProof] = row] /\ nextProof' = nextProof + 1
        BY <2>3, <3>2 DEF Forgot
      <4>2. nextProof \in Id => proofs[nextProof] = Nothing
        BY <1>0, IdIsNumber
      <4>3. row.user \in Users' /\ row \in ProofRow
        BY <2>0, <2>3, <3>2, CallTyped DEF Forgot, Knows, Local, ProofRow, Users
      <4> HIDE DEF row
      <4> QED
        BY <1>0, <2>0, <4>1, <4>2, <4>3
    <3> QED
      BY <3>1, <3>2
  <2>4. ASSUME NEW c \in Request, Reset(c)
        PROVE  Goal
    <3>1. CASE UNCHANGED proofs
      BY <2>0, <2>4, <3>1 DEF Reset
    <3>2. CASE proofs' = [proofs EXCEPT ![local[c].id].used = TRUE] /\ local[c].user \in Users
      <4>1. local[c].id \in Id /\ proofs[local[c].id] \in ProofRow
        BY <1>0, <2>4, <3>2, CallTyped DEF Reset, Knows, Numbered
      <4>2. [proofs[local[c].id] EXCEPT !.used = TRUE] \in ProofRow
        BY <4>1, ProofRows
      <4>3. Kept
        BY <1>0, <3>2, <4>1, <4>2 DEF ProofRow
      <4> QED
        BY <2>0, <2>4, <4>3 DEF Reset
    <3> QED
      BY <2>4, <3>1, <3>2 DEF Reset
  <2>5. CASE ExpireProof
    <3>1. PICK i \in Id : proofs[i] # Nothing /\ proofs' = [proofs EXCEPT ![i].expired = TRUE]
      BY <2>5 DEF ExpireProof, Usable
    <3>2. [proofs[i] EXCEPT !.expired = TRUE] \in ProofRow
      BY <1>0, <3>1, ProofRows
    <3>3. Kept
      BY <1>0, <3>1, <3>2 DEF ProofRow
    <3> QED
      BY <2>0, <2>5, <3>3 DEF ExpireProof
  <2> QED
    BY <1>2, <2>1, <2>2, <2>3, <2>4, <2>5, ProofsKept DEF WritesProofs
<1> QED
  BY <1>1, <1>2

----------------------------------------------------------------------------
(* Numbered is inductive.                                                  *)

LEMMA InitNoOrphans == Init => NoOrphans
<1> SUFFICES ASSUME Init PROVE NoOrphans
  OBVIOUS
<1>1. PICK name \in Username, mail \in Email, p \in Password, r \in Role :
          /\ users = [u \in User |->
                 IF u = Founder THEN [username |-> name, email |-> mail, password |-> p,
                                      refresh |-> Nothing]
                 ELSE Nothing]
          /\ roles = [u \in User |-> IF u = Founder THEN {r} ELSE {}]
  BY DEF Init
<1>2. [username |-> name, email |-> mail, password |-> p, refresh |-> Nothing] \in UserRow
  BY DEF UserRow
<1>3. Founder \in Users
  BY <1>1, <1>2, UserAssumption, RowAssumption DEF Users
<1> QED
  BY <1>1, <1>3 DEF Init, NoOrphans

(* What hangs on an account goes with it: each row that is there in the    *)
(* next state was there, with its user, or is new and has one.             *)
LEMMA NoOrphansKept ==
    ASSUME TypeInv, Numbered, NoOrphans, [Next]_vars
    PROVE  NoOrphans'
<1>1. \A i \in Id : sessions'[i] # Nothing => sessions'[i].user \in Users'
  BY SessionSteps DEF NoOrphans
<1>2. \A i \in Id : proofs'[i] # Nothing => proofs'[i].user \in Users'
  BY ProofSteps DEF NoOrphans
<1>3. \A u \in User \ Users' : roles'[u] = {}
  <2>0. /\ \A u \in User \ Users : roles[u] = {}
        /\ roles \in [User -> SUBSET Role]
    BY DEF NoOrphans, TypeInv, RowsTyped
  <2>1. CASE DeleteUser
    BY <2>0, <2>1 DEF DeleteUser, Users, TypeInv, RowsTyped
  <2>2. CASE ~DeleteUser
    <3>0. Users \subseteq Users' /\ Users \subseteq User
      BY <2>2, UserSteps DEF Users
    <3>1. CASE UNCHANGED <<roles, perms>>
      BY <2>0, <3>0, <3>1
    <3>2. ASSUME NEW c \in Request, StartReplaceRole(c)
          PROVE  \A u \in User \ Users' : roles'[u] = {}
      BY <2>0, <3>0, <3>2 DEF StartReplaceRole
    <3>3. ASSUME NEW c \in Request, ReplaceRole(c)
          PROVE  \A u \in User \ Users' : roles'[u] = {}
      BY <2>0, <3>0, <3>3 DEF ReplaceRole
    <3>4. ASSUME NEW c \in Request, CachePerms(c)
          PROVE  \A u \in User \ Users' : roles'[u] = {}
      BY <2>0, <3>0, <3>4 DEF CachePerms, rows
    <3>5. ASSUME NEW u \in User, ExpirePerms(u)
          PROVE  \A v \in User \ Users' : roles'[v] = {}
      BY <2>0, <3>0, <3>5 DEF ExpirePerms, rows
    <3>6. CASE AssignRole \/ RemoveRole
      BY <2>0, <3>0, <3>6 DEF AssignRole, RemoveRole
    <3> QED
      BY <2>2, <3>1, <3>2, <3>3, <3>4, <3>5, <3>6, RolesKept DEF WritesRoles
  <2> QED
    BY <2>1, <2>2
<1> QED
  BY <1>1, <1>2, <1>3 DEF NoOrphans

(* A reset that has checked its proof finds it in the transaction, or its  *)
(* user is gone.                                                           *)
ResetHolds(c) ==
    pc[c] = "reset" =>
        LET loc == local[c]
        IN  /\ loc.id < nextProof
            /\ loc.user \in created
            /\ loc.user \in Users =>
                   proofs[loc.id] # Nothing /\ proofs[loc.id].user = loc.user

LEMMA ResetKept ==
    ASSUME TypeInv, Numbered, [Next]_vars, NEW c \in Request,
           UNCHANGED <<pc[c], local[c]>>
    PROVE  ResetHolds(c)'
<1> SUFFICES ASSUME pc[c] = "reset"
             PROVE  /\ local[c].id < nextProof'
                    /\ local[c].user \in created'
                    /\ local[c].user \in Users' =>
                          proofs'[local[c].id] # Nothing /\ proofs'[local[c].id].user = local[c].user
  BY DEF ResetHolds
<1>1. /\ local[c].id \in Id /\ local[c].id < nextProof
      /\ local[c].user \in created
      /\ local[c].user \in Users =>
             proofs[local[c].id] # Nothing /\ proofs[local[c].id].user = local[c].user
      /\ nextProof \in Nat
  BY CallTyped DEF Numbered, Knows, TypeInv, Counted
<1>2. local[c].user \in Users' => local[c].user \in Users
  BY <1>1, UserSteps DEF Users, TypeInv, RowsTyped
<1>3. nextProof' \in {nextProof, nextProof + 1}
  BY ProofSteps
<1>4. local[c].id < nextProof'
  <2> DEFINE i == local[c].id
  <2>1. i \in Nat /\ i < nextProof /\ nextProof \in Nat
    BY <1>1, IdIsNumber
  <2> HIDE DEF i
  <2>2. i < nextProof'
    BY <1>3, <2>1
  <2> QED
    BY <2>2 DEF i
<1>5. local[c].user \in created'
  BY <1>1, UserSteps
<1> QED
  BY <1>1, <1>2, <1>4, <1>5, ProofSteps

LEMMA ResetStarts ==
    ASSUME TypeInv, Numbered, NoOrphans, NEW c \in Request, StartReset(c)
    PROVE  ResetHolds(c)'
<1>1. PICK i \in Id, p \in Password :
          /\ Presentable(i)
          /\ StartAs(c, "reset", "reset",
                     [NoLocal EXCEPT !.user = proofs[i].user, !.id = i, !.password = p])
  BY DEF StartReset
<1> DEFINE loc == [NoLocal EXCEPT !.user = proofs[i].user, !.id = i, !.password = p]
<1>2. loc.user = proofs[i].user /\ loc.id = i
  BY DEF NoLocal
<1>3. local'[c] = loc
  BY <1>1 DEF StartAs, TypeInv, CallsTyped
<1>4. proofs[i] # Nothing /\ i < nextProof /\ proofs[i].user \in created
  BY <1>1 DEF Presentable, Usable, Numbered, NoOrphans
<1>5. UNCHANGED <<users, created, proofs, nextProof>>
  BY DEF StartReset, rows
<1> HIDE DEF loc
<1> QED
  BY <1>2, <1>3, <1>4, <1>5 DEF ResetHolds

LEMMA ResetsHold ==
    ASSUME TypeInv, Numbered, NoOrphans, [Next]_vars, NEW c \in Request
    PROVE  ResetHolds(c)'
<1>1. CASE UNCHANGED <<pc, local>>
  BY <1>1, ResetKept
<1>2. ASSUME NEW d \in Request, Begin(d)
      PROVE  ResetHolds(c)'
  <2>1. CASE c # d
    <3>1. PICK op \in Operations, stage \in Stages : \E loc : StartAs(d, op, stage, loc)
      BY <1>2 DEF Begin, StartLogin, StartRegister, StartRefresh, StartForgot, StartReset,
           StartPassword, StartRevoke, StartReplaceRole, StartGuard, StartAs, Start, Stages
    <3>2. UNCHANGED <<pc[c], local[c]>>
      BY <2>1, <3>1 DEF StartAs, TypeInv, CallsTyped
    <3> QED
      BY <3>2, ResetKept
  <2>2. CASE StartReset(d) /\ c = d
    BY <2>2, ResetStarts
  <2>3. CASE ~StartReset(d) /\ c = d
    <3>1. pc'[c] # "reset"
      BY <1>2, <2>3 DEF Begin, StartLogin, StartRegister, StartRefresh, StartForgot,
           StartPassword, StartRevoke, StartReplaceRole, StartGuard, StartAs, TypeInv, CallsTyped
    <3> QED
      BY <3>1 DEF ResetHolds
  <2> QED
    BY <2>1, <2>2, <2>3
<1>3. ASSUME NEW d \in Request, Step(d) \/ Fail(d)
      PROVE  ResetHolds(c)'
  <2>1. PICK stage \in Stages \ {"reset"} : \E loc : Goto(d, stage, loc)
    BY <1>3 DEF Step, Fail, Return, Stages, Create, Store, StoreOf, Stamp, RecordSession, Forgot,
         Reset, ChangePassword, Revoke, ReplaceRole, CachePerms
  <2>2. CASE c # d
    <3>1. UNCHANGED <<pc[c], local[c]>>
      BY <2>1, <2>2 DEF Goto, TypeInv, CallsTyped
    <3> QED
      BY <3>1, ResetKept
  <2>3. CASE c = d
    BY <2>1, <2>3 DEF Goto, TypeInv, CallsTyped, ResetHolds
  <2> QED
    BY <2>2, <2>3
<1>4. \/ UNCHANGED <<pc, local>>
      \/ \E d \in Request : Begin(d) \/ Step(d) \/ Fail(d)
  BY DEF Next, vars, requests, Statement, Call, Logout, UpdateProfile, DeleteUser, AssignRole,
         RemoveRole, ExpireProof, Tick, ExpirePerms, RevokeOthers
<1> QED
  BY <1>1, <1>2, <1>3, <1>4

LEMMA StaysNumbered ==
    ASSUME TypeInv, Numbered, NoOrphans, [Next]_vars
    PROVE  Numbered'
<1>0. nextSession \in Nat /\ nextProof \in Nat /\ resetBy \subseteq Id
  BY DEF TypeInv, Counted, HistoryTyped
<1>1. \A i \in Id : sessions'[i] # Nothing => i < nextSession'
  BY <1>0, IdIsNumber, SessionSteps DEF Numbered
<1>2. \A i \in Id : proofs'[i] # Nothing => i < nextProof'
  BY <1>0, IdIsNumber, ProofSteps DEF Numbered
<1>3. \A i \in resetBy' : i < nextProof'
  <2>1. \A i \in resetBy : i < nextProof'
    BY <1>0, IdIsNumber, ProofSteps DEF Numbered
  <2>2. ASSUME NEW c \in Request, Reset(c)
        PROVE  \A i \in resetBy' : i < nextProof'
    BY <2>1, <2>2 DEF Reset, NewPassword, Numbered
  <2>3. CASE UNCHANGED resetBy
    BY <2>1, <2>3
  <2>4. UNCHANGED resetBy \/ \E c \in Request : Reset(c)
    BY ProofsKept DEF WritesProofs, StartForgot, Forgot, ExpireProof, DeleteUser, history
  <2> QED
    BY <2>2, <2>3, <2>4
<1>4. Users' \subseteq created'
  BY UserSteps
<1>5. \A c \in Request : ResetHolds(c)'
  BY ResetsHold
<1> QED
  BY <1>1, <1>2, <1>3, <1>4, <1>5 DEF Numbered, ResetHolds

----------------------------------------------------------------------------
(* The properties.                                                         *)

LEMMA InitSafe ==
    Init => UniqueAccounts /\ RefreshEndsWithLogout /\ StoredTokenIsHandedOut /\ ResetConsumesProof
<1> SUFFICES ASSUME Init
             PROVE  UniqueAccounts /\ RefreshEndsWithLogout /\ StoredTokenIsHandedOut
                    /\ ResetConsumesProof
  OBVIOUS
<1>1. \A u \in Users : u = Founder /\ users[u].refresh = Nothing
  BY DEF Init, Users
<1> QED
  BY <1>1 DEF Init, UniqueAccounts, RefreshEndsWithLogout, StoredTokenIsHandedOut, ResetConsumesProof

LEMMA UniqueKept ==
    ASSUME TypeInv, UniqueAccounts, [Next]_vars
    PROVE  UniqueAccounts'
<1>0. /\ users \in [User -> UserRow \cup {Nothing}]
      /\ Users \subseteq User
      /\ \A u \in Users : users[u] \in UserRow
      /\ \A u, v \in Users : u # v =>
            users[u].username # users[v].username /\ users[u].email # users[v].email
  BY DEF TypeInv, RowsTyped, Users, UniqueAccounts
<1>1. ASSUME \A u \in Users' : /\ u \in Users
                              /\ users'[u].username = users[u].username
                              /\ users'[u].email = users[u].email
      PROVE  UniqueAccounts'
  BY <1>0, <1>1 DEF UniqueAccounts
<1>2. ASSUME NEW v \in User, NEW r, users' = [users EXCEPT ![v] = r],
             \A w \in Users \ {v} : /\ users[w].username # r.username
                                    /\ users[w].email # r.email
      PROVE  UniqueAccounts'
  <2>1. \A w \in Users' : w = v \/ (w \in Users /\ users'[w] = users[w])
    BY <1>0, <1>2 DEF Users
  <2>2. users'[v] = r
    BY <1>0, <1>2
  <2> QED
    BY <1>0, <1>2, <2>1, <2>2 DEF UniqueAccounts
<1>3. ASSUME NEW v \in Users, NEW r, users' = [users EXCEPT ![v] = r],
             r.username = users[v].username, r.email = users[v].email
      PROVE  UniqueAccounts'
  <2>1. \A w \in Users \ {v} : users[w].username # r.username /\ users[w].email # r.email
    BY <1>0, <1>3
  <2>2. v \in User
    BY <1>0
  <2> QED
    BY <1>2, <1>3, <2>1, <2>2
<1>4. ASSUME NEW c \in Request, Create(c) PROVE UniqueAccounts'
  <2>1. CASE UNCHANGED users
    BY <1>0, <1>1, <2>1 DEF Users
  <2>2. ASSUME NEW u \in User \ created, ~Collides(Nothing, local[c].profile),
               users' = [users EXCEPT ![u] = [username |-> local[c].profile.username,
                                              email |-> local[c].profile.email,
                                              password |-> local[c].password, refresh |-> Nothing]]
        PROVE  UniqueAccounts'
    <3> DEFINE r == [username |-> local[c].profile.username, email |-> local[c].profile.email,
                     password |-> local[c].password, refresh |-> Nothing]
    <3>1. \A w \in Users : /\ users[w].username # local[c].profile.username
                           /\ users[w].email # local[c].profile.email
      BY <1>0, <2>2, UserAssumption DEF Collides
    <3>2. r.username = local[c].profile.username /\ r.email = local[c].profile.email
      OBVIOUS
    <3>3. users' = [users EXCEPT ![u] = r]
      BY <2>2
    <3> HIDE DEF r
    <3>4. \A w \in Users \ {u} : users[w].username # r.username /\ users[w].email # r.email
      BY <3>1, <3>2
    <3>5. u \in User
      OBVIOUS
    <3> QED
      BY <1>2, <3>3, <3>4, <3>5
  <2> QED
    BY <1>4, <2>1, <2>2 DEF Create
<1>5. ASSUME NEW c \in Request, Store(c) PROVE UniqueAccounts'
  <2> DEFINE u == local[c].user
             r == [users[u] EXCEPT !.refresh = local[c].token]
  <2>1. CASE u \in Users
    <3>1. users' = [users EXCEPT ![u] = r]
      BY <1>5, <2>1 DEF Store, StoreOf
    <3>2. r.username = users[u].username /\ r.email = users[u].email
      BY <1>0, <2>1 DEF UserRow
    <3> HIDE DEF u, r
    <3> QED
      BY <1>3, <2>1, <3>1, <3>2
  <2> QED
    BY <1>0, <1>1, <1>5, <2>1 DEF Store, StoreOf, Users
<1>6. ASSUME NEW c \in Request, Reset(c) PROVE UniqueAccounts'
  <2> DEFINE u == local[c].user
             r == [users[u] EXCEPT !.password = local[c].password, !.refresh = Nothing]
  <2>1. CASE u \in Users
    <3>1. users' = [users EXCEPT ![u] = r]
      BY <1>0, <1>6, <2>1 DEF Reset, NewPassword
    <3>2. r.username = users[u].username /\ r.email = users[u].email
      BY <1>0, <2>1 DEF UserRow
    <3> HIDE DEF u, r
    <3> QED
      BY <1>3, <2>1, <3>1, <3>2
  <2> QED
    BY <1>0, <1>1, <1>6, <2>1 DEF Reset, Users
<1>7. ASSUME NEW c \in Request, ChangePassword(c) PROVE UniqueAccounts'
  <2>1. \A u \in User : users'[u] # Nothing => /\ users[u] # Nothing
                                              /\ users'[u].username = users[u].username
                                              /\ users'[u].email = users[u].email
    BY <1>0, <1>7 DEF ChangePassword, UserRow, Users
  <2> QED
    BY <1>1, <2>1 DEF Users
<1>8. CASE Logout
  <2>1. PICK u \in Users : users' = [users EXCEPT ![u].refresh = Nothing]
    BY <1>8 DEF Logout
  <2> DEFINE r == [users[u] EXCEPT !.refresh = Nothing]
  <2>2. r.username = users[u].username /\ r.email = users[u].email
    BY <1>0 DEF UserRow
  <2>3. users' = [users EXCEPT ![u] = r]
    BY <2>1
  <2> HIDE DEF r
  <2> QED
    BY <1>3, <2>2, <2>3
<1>9. CASE UpdateProfile
  <2>1. PICK u \in Users, patch \in Profile :
            ~Collides(u, patch) /\ users' = [users EXCEPT ![u] = Renamed(users[u], patch)]
    BY <1>9 DEF UpdateProfile
  <2> DEFINE r == Renamed(users[u], patch)
  <2>2. /\ r.username = IF patch.username = Nothing THEN users[u].username ELSE patch.username
        /\ r.email = IF patch.email = Nothing THEN users[u].email ELSE patch.email
    BY <1>0 DEF Renamed, UserRow
  <2>3. \A w \in Users \ {u} : /\ users[w].username # patch.username
                               /\ users[w].email # patch.email
    BY <2>1 DEF Collides
  <2>4. \A w \in Users \ {u} : users[w].username # r.username /\ users[w].email # r.email
    BY <1>0, <2>2, <2>3
  <2> HIDE DEF r
  <2>5. u \in User /\ users' = [users EXCEPT ![u] = r]
    BY <1>0, <2>1 DEF r
  <2> QED
    BY <1>2, <2>4, <2>5
<1>10. CASE DeleteUser
  <2>1. PICK u \in Users : users' = [users EXCEPT ![u] = Nothing]
    BY <1>10 DEF DeleteUser
  <2> QED
    BY <1>0, <1>1, <2>1 DEF Users
<1>11. CASE UNCHANGED <<users, created, epoch, chain, overtaken>>
  BY <1>0, <1>1, <1>11 DEF Users
<1> QED
  BY <1>4, <1>5, <1>6, <1>7, <1>8, <1>9, <1>10, <1>11, UsersKept DEF WritesUsers

LEMMA RefreshKept ==
    ASSUME TypeInv, RefreshEndsWithLogout, [Next]_vars
    PROVE  RefreshEndsWithLogout'
<1>0. /\ users \in [User -> UserRow \cup {Nothing}]
      /\ epoch \in [User -> Nat] /\ chain \in [User -> Nat]
      /\ Users \subseteq User
      /\ \A u \in Users : users[u] \in UserRow
      /\ \A u \in Users : users[u].refresh # Nothing => chain[u] = epoch[u] \/ u \in overtaken
  BY DEF TypeInv, RowsTyped, HistoryTyped, Users, RefreshEndsWithLogout
<1>1. ASSUME UNCHANGED <<epoch, chain, overtaken>>,
             \A u \in User : users'[u] # Nothing =>
                 \/ users[u] # Nothing /\ users'[u].refresh = users[u].refresh
                 \/ users'[u].refresh = Nothing
      PROVE  RefreshEndsWithLogout'
  BY <1>0, <1>1 DEF RefreshEndsWithLogout, Users
<1>2. ASSUME NEW c \in Request, Create(c) PROVE RefreshEndsWithLogout'
  <2>1. UNCHANGED <<epoch, chain, overtaken>>
    BY <1>2 DEF Create, history
  <2>2. CASE UNCHANGED users
    BY <1>1, <2>1, <2>2
  <2>3. ASSUME NEW u \in User,
               users' = [users EXCEPT ![u] = [username |-> local[c].profile.username,
                                              email |-> local[c].profile.email,
                                              password |-> local[c].password, refresh |-> Nothing]]
        PROVE  RefreshEndsWithLogout'
    BY <1>0, <1>1, <2>1, <2>3
  <2> QED
    BY <1>2, <2>2, <2>3 DEF Create
<1>3. ASSUME NEW c \in Request, Store(c) PROVE RefreshEndsWithLogout'
  <2> DEFINE u == local[c].user
  <2>1. CASE u \in Users
    <3>1. /\ users' = [users EXCEPT ![u].refresh = local[c].token]
          /\ chain' = [chain EXCEPT ![u] = local[c].epoch]
          /\ overtaken' = IF local[c].late \/ local[c].epoch # epoch[u]
                          THEN overtaken \cup {u} ELSE overtaken \ {u}
          /\ UNCHANGED epoch
      BY <1>3, <2>1 DEF Store, StoreOf
    <3> HIDE DEF u
    <3>2. chain'[u] = epoch'[u] \/ u \in overtaken'
      BY <1>0, <2>1, <3>1
    <3>3. \A v \in User \ {u} : /\ users'[v] = users[v]
                                /\ chain'[v] = chain[v] /\ epoch'[v] = epoch[v]
                                /\ v \in overtaken => v \in overtaken'
      BY <1>0, <2>1, <3>1
    <3> QED
      BY <1>0, <3>2, <3>3 DEF RefreshEndsWithLogout, Users
  <2>2. CASE u \notin Users
    BY <1>1, <1>3, <2>2 DEF Store, StoreOf
  <2> QED
    BY <2>1, <2>2
<1>4. ASSUME NEW c \in Request, Reset(c) PROVE RefreshEndsWithLogout'
  <2> DEFINE u == local[c].user
             r == [users[u] EXCEPT !.password = local[c].password, !.refresh = Nothing]
  <2>1. CASE u \in Users
    <3>1. /\ users' = [users EXCEPT ![u] = r]
          /\ epoch' = [epoch EXCEPT ![u] = @ + 1]
          /\ UNCHANGED <<chain, overtaken>>
      BY <1>0, <1>4, <2>1 DEF Reset, NewPassword
    <3>2. r.refresh = Nothing
      BY <1>0, <2>1 DEF UserRow
    <3> HIDE DEF u, r
    <3> QED
      BY <1>0, <2>1, <3>1, <3>2 DEF RefreshEndsWithLogout, Users
  <2> QED
    BY <1>1, <1>4, <2>1 DEF Reset
<1>5. ASSUME NEW c \in Request, ChangePassword(c) PROVE RefreshEndsWithLogout'
  <2>1. \A u \in User : users'[u] # Nothing =>
            users[u] # Nothing /\ users'[u].refresh = users[u].refresh
    BY <1>0, <1>5 DEF ChangePassword, UserRow, Users
  <2> QED
    BY <1>1, <1>5, <2>1 DEF ChangePassword, history
<1>6. CASE Logout
  <2>1. PICK u \in Users : /\ users' = [users EXCEPT ![u].refresh = Nothing]
                           /\ epoch' = [epoch EXCEPT ![u] = @ + 1]
                           /\ UNCHANGED <<chain, overtaken>>
    BY <1>6 DEF Logout
  <2>2. users'[u].refresh = Nothing
    BY <1>0, <2>1 DEF UserRow
  <2> QED
    BY <1>0, <2>1, <2>2 DEF RefreshEndsWithLogout, Users
<1>7. CASE UpdateProfile
  <2>1. PICK u \in Users, patch \in Profile :
            users' = [users EXCEPT ![u] = Renamed(users[u], patch)]
    BY <1>7 DEF UpdateProfile
  <2>2. Renamed(users[u], patch).refresh = users[u].refresh
    BY <1>0 DEF Renamed, UserRow
  <2>3. UNCHANGED <<epoch, chain, overtaken>>
    BY <1>7 DEF UpdateProfile, history
  <2>4. \A v \in User : users'[v] # Nothing =>
            users[v] # Nothing /\ users'[v].refresh = users[v].refresh
    BY <1>0, <2>1, <2>2 DEF Users
  <2> QED
    BY <1>1, <2>3, <2>4
<1>8. CASE DeleteUser
  <2>1. PICK u \in Users : users' = [users EXCEPT ![u] = Nothing]
    BY <1>8 DEF DeleteUser
  <2> QED
    BY <1>0, <1>1, <1>8, <2>1 DEF DeleteUser, history
<1>9. CASE UNCHANGED <<users, created, epoch, chain, overtaken>>
  BY <1>1, <1>9
<1> QED
  BY <1>2, <1>3, <1>4, <1>5, <1>6, <1>7, <1>8, <1>9, UsersKept DEF WritesUsers

(* Where the token of a user is. *)
HandedOut(t) ==
    \/ t \in given \cup lost
    \/ \E c \in Request : pc[c] \in {"stamp", "session"} /\ local[c].token = t

LEMMA HandedOutKept ==
    ASSUME TypeInv, [Next]_vars, NEW t, t # Nothing, HandedOut(t)
    PROVE  HandedOut(t)'
<1>1. CASE UNCHANGED <<pc, local>> /\ given \subseteq given' /\ lost \subseteq lost'
  BY <1>1 DEF HandedOut
<1>2. ASSUME NEW d \in Request, Begin(d)
      PROVE  HandedOut(t)'
  <2>1. PICK op \in Operations, stage \in Stages : \E loc : StartAs(d, op, stage, loc)
    BY <1>2 DEF Begin, StartLogin, StartRegister, StartRefresh, StartForgot, StartReset,
         StartPassword, StartRevoke, StartReplaceRole, StartGuard, StartAs, Start, Stages
  <2>2. UNCHANGED <<given, lost>>
    BY <1>2 DEF Begin, StartLogin, StartRegister, StartRefresh, StartForgot, StartReset,
         StartPassword, StartRevoke, StartReplaceRole, StartGuard, history
  <2>3. \A c \in Request : pc[c] \in {"stamp", "session"} => UNCHANGED <<pc[c], local[c]>>
    BY <2>1 DEF StartAs, TypeInv, CallsTyped
  <2> QED
    BY <2>2, <2>3 DEF HandedOut
<1>3. ASSUME NEW d \in Request, Step(d) \/ Fail(d)
      PROVE  HandedOut(t)'
  <2>1. given \subseteq given' /\ lost \subseteq lost'
    BY <1>3 DEF Step, Fail, Create, Store, StoreOf, Stamp, RecordSession, Forgot, Reset,
         ChangePassword, Revoke, ReplaceRole, CachePerms, history
  <2>2. \A c \in Request \ {d} : UNCHANGED <<pc[c], local[c]>>
    <3>1. PICK stage \in Stages : \E loc : Goto(d, stage, loc)
      BY <1>3 DEF Step, Fail, Return, Stages, Create, Store, StoreOf, Stamp, RecordSession, Forgot,
           Reset, ChangePassword, Revoke, ReplaceRole, CachePerms
    <3> QED
      BY <3>1 DEF Goto, TypeInv, CallsTyped
  <2>3. CASE pc[d] \in {"stamp", "session"} /\ local[d].token = t
    <3>1. CASE Stamp(d) /\ Goto(d, "session", local[d])
      <4>1. pc'[d] = "session" /\ local'[d].token = t
        BY <2>3, <3>1 DEF Goto, TypeInv, CallsTyped
      <4> QED
        BY <4>1 DEF HandedOut
    <3>2. CASE Stamp(d) /\ lost' = lost \cup {local[d].token}
      BY <2>3, <3>2 DEF HandedOut
    <3>3. CASE RecordSession(d) \/ Fail(d)
      <4>1. t \in given' \cup lost'
        BY <2>3, <3>3 DEF RecordSession, Fail
      <4> QED
        BY <4>1 DEF HandedOut
    <3>4. Stamp(d) \/ RecordSession(d) \/ Fail(d)
      BY <1>3, <2>3 DEF Step, Create, Store, StoreOf, Forgot, Reset, ChangePassword, Revoke,
           ReplaceRole, CachePerms
    <3> QED
      BY <3>1, <3>2, <3>3, <3>4 DEF Stamp
  <2> QED
    BY <2>1, <2>2, <2>3 DEF HandedOut
<1>4. \/ UNCHANGED <<pc, local>> /\ given \subseteq given' /\ lost \subseteq lost'
      \/ \E d \in Request : Begin(d) \/ Step(d) \/ Fail(d)
  BY DEF Next, vars, requests, history, Statement, Call, Logout, UpdateProfile, DeleteUser,
         AssignRole, RemoveRole, ExpireProof, Tick, ExpirePerms, RevokeOthers
<1> QED
  BY <1>1, <1>2, <1>3, <1>4

LEMMA TokensKept ==
    ASSUME TypeInv, StoredTokenIsHandedOut, [Next]_vars
    PROVE  StoredTokenIsHandedOut'
<1>0. /\ users \in [User -> UserRow \cup {Nothing}]
      /\ Users \subseteq User
      /\ \A u \in Users : users[u] \in UserRow
      /\ \A u \in Users : users[u].refresh # Nothing => HandedOut(users[u].refresh)
  BY DEF TypeInv, RowsTyped, Users, StoredTokenIsHandedOut, HandedOut
<1>1. ASSUME \A u \in User : users'[u] # Nothing =>
                 \/ users[u] # Nothing /\ users'[u].refresh = users[u].refresh
                 \/ users'[u].refresh = Nothing
                 \/ \E t : t = users'[u].refresh /\ HandedOut(t)'
      PROVE  StoredTokenIsHandedOut'
  <2>1. ASSUME NEW u \in User, users'[u] # Nothing, users'[u].refresh # Nothing
        PROVE  \E t : t = users'[u].refresh /\ HandedOut(t)'
    <3>1. CASE users[u] # Nothing /\ users'[u].refresh = users[u].refresh
      <4>1. PICK t : t = users[u].refresh
        OBVIOUS
      <4>2. t # Nothing /\ HandedOut(t)
        BY <1>0, <2>1, <3>1, <4>1 DEF Users
      <4>3. HandedOut(t)'
        BY <4>2, HandedOutKept
      <4> QED
        BY <3>1, <4>1, <4>3
    <3> QED
      BY <1>1, <2>1, <3>1
  <2>2. \A u \in Users' : users'[u].refresh # Nothing =>
            \E t : /\ t = users'[u].refresh
                  /\ \/ t \in given' \cup lost'
                     \/ \E c \in Request : /\ pc'[c] \in {"stamp", "session"}
                                            /\ local'[c].token = t
    BY <2>1 DEF HandedOut, Users
  <2> QED
    BY <2>2 DEF StoredTokenIsHandedOut
<1>2. ASSUME NEW c \in Request, Create(c) PROVE StoredTokenIsHandedOut'
  <2>2. CASE UNCHANGED users
    BY <1>1, <2>2
  <2>3. ASSUME NEW u \in User,
               users' = [users EXCEPT ![u] = [username |-> local[c].profile.username,
                                              email |-> local[c].profile.email,
                                              password |-> local[c].password, refresh |-> Nothing]]
        PROVE  StoredTokenIsHandedOut'
    BY <1>0, <1>1, <2>3
  <2> QED
    BY <1>2, <2>2, <2>3 DEF Create
<1>3. ASSUME NEW c \in Request, Store(c) PROVE StoredTokenIsHandedOut'
  <2>0. PICK u, t : u = local[c].user /\ t = local[c].token
    OBVIOUS
  <2>1. CASE u \in Users
    <3>1. /\ users' = [users EXCEPT ![u].refresh = t]
          /\ \/ Goto(c, "stamp", local[c]) \/ Goto(c, "session", local[c])
             \/ given' = given \cup {t}
      BY <1>3, <2>0, <2>1 DEF Store, StoreOf
    <3>2. ASSUME Goto(c, "stamp", local[c]) \/ Goto(c, "session", local[c])
          PROVE  HandedOut(t)'
      <4>1. pc'[c] \in {"stamp", "session"} /\ local'[c].token = t
        BY <2>0, <3>2 DEF Goto, TypeInv, CallsTyped
      <4> QED
        BY <4>1 DEF HandedOut
    <3>3. HandedOut(t)'
      BY <3>1, <3>2 DEF HandedOut
    <3>4. users'[u].refresh = t /\ \A v \in User \ {u} : users'[v] = users[v]
      BY <1>0, <2>1, <3>1 DEF UserRow
    <3>5. \A v \in User : users'[v] # Nothing =>
              \/ users[v] # Nothing /\ users'[v].refresh = users[v].refresh
              \/ \E x : x = users'[v].refresh /\ HandedOut(x)'
      BY <3>3, <3>4
    <3> QED
      BY <1>1, <3>5
  <2>2. CASE u \notin Users
    BY <1>1, <1>3, <2>0, <2>2 DEF Store, StoreOf
  <2> QED
    BY <2>1, <2>2
<1>4. ASSUME NEW c \in Request, Reset(c) PROVE StoredTokenIsHandedOut'
  <2> DEFINE u == local[c].user
             r == [users[u] EXCEPT !.password = local[c].password, !.refresh = Nothing]
  <2>1. CASE u \in Users
    <3>1. users' = [users EXCEPT ![u] = r]
      BY <1>0, <1>4, <2>1 DEF Reset, NewPassword
    <3>2. r.refresh = Nothing
      BY <1>0, <2>1 DEF UserRow
    <3> HIDE DEF u, r
    <3> QED
      BY <1>0, <1>1, <2>1, <3>1, <3>2
  <2> QED
    BY <1>1, <1>4, <2>1 DEF Reset
<1>5. ASSUME NEW c \in Request, ChangePassword(c) PROVE StoredTokenIsHandedOut'
  <2>1. \A u \in User : users'[u] # Nothing =>
            users[u] # Nothing /\ users'[u].refresh = users[u].refresh
    BY <1>0, <1>5 DEF ChangePassword, UserRow, Users
  <2> QED
    BY <1>1, <2>1
<1>6. CASE Logout
  <2>1. PICK u \in Users : users' = [users EXCEPT ![u].refresh = Nothing]
    BY <1>6 DEF Logout
  <2>2. users'[u].refresh = Nothing
    BY <1>0, <2>1 DEF UserRow
  <2> QED
    BY <1>0, <1>1, <2>1, <2>2
<1>7. CASE UpdateProfile
  <2>1. PICK u \in Users, patch \in Profile :
            users' = [users EXCEPT ![u] = Renamed(users[u], patch)]
    BY <1>7 DEF UpdateProfile
  <2>2. Renamed(users[u], patch).refresh = users[u].refresh
    BY <1>0 DEF Renamed, UserRow
  <2>3. \A v \in User : users'[v] # Nothing =>
            users[v] # Nothing /\ users'[v].refresh = users[v].refresh
    BY <1>0, <2>1, <2>2 DEF Users
  <2> QED
    BY <1>1, <2>3
<1>8. CASE DeleteUser
  <2>1. PICK u \in Users : users' = [users EXCEPT ![u] = Nothing]
    BY <1>8 DEF DeleteUser
  <2> QED
    BY <1>0, <1>1, <2>1
<1>9. CASE UNCHANGED <<users, created, epoch, chain, overtaken>>
  BY <1>1, <1>9
<1> QED
  BY <1>2, <1>3, <1>4, <1>5, <1>6, <1>7, <1>8, <1>9, UsersKept DEF WritesUsers

LEMMA ConsumedKept ==
    ASSUME TypeInv, Numbered, ResetConsumesProof, [Next]_vars
    PROVE  ResetConsumesProof'
<1>0. /\ \A i \in resetBy : i \in Id /\ i < nextProof /\ (proofs[i] # Nothing => proofs[i].used)
      /\ nextProof \in Nat
  BY DEF TypeInv, HistoryTyped, Counted, Numbered, ResetConsumesProof
<1>1. \A i \in resetBy : proofs'[i] # Nothing => proofs'[i].used
  <2> SUFFICES ASSUME NEW i \in resetBy, proofs'[i] # Nothing PROVE proofs'[i].used
    OBVIOUS
  <2>1. i \in Id /\ i # nextProof
    BY <1>0, IdIsNumber
  <2> QED
    BY <1>0, <2>1, ProofSteps
<1>2. CASE UNCHANGED resetBy
  BY <1>1, <1>2 DEF ResetConsumesProof
<1>3. ASSUME NEW c \in Request, Reset(c), resetBy' # resetBy
      PROVE  ResetConsumesProof'
  <2> DEFINE i == local[c].id
  <2>1. i \in Id /\ local[c].user \in Users /\ proofs[i] \in ProofRow
        /\ resetBy' = resetBy \cup {i}
        /\ proofs' = [proofs EXCEPT ![i].used = TRUE]
    BY <1>3, CallTyped DEF Reset, NewPassword, Knows, Numbered, TypeInv, RowsTyped
  <2>2. proofs'[i].used
    BY <2>1 DEF ProofRow, TypeInv, RowsTyped
  <2> HIDE DEF i
  <2> QED
    BY <1>1, <2>1, <2>2 DEF ResetConsumesProof
<1>4. UNCHANGED resetBy \/ \E c \in Request : Reset(c)
  BY ProofsKept DEF WritesProofs, StartForgot, Forgot, ExpireProof, DeleteUser, history
<1> QED
  BY <1>2, <1>3, <1>4

LEMMA NothingComesBackStep ==
    ASSUME TypeInv, Numbered, [Next]_vars
    PROVE  /\ \A u \in created : users[u] = Nothing => users'[u] = Nothing
           /\ \A i \in Id : sessions[i] # Nothing /\ sessions[i].revoked =>
                  sessions'[i] = Nothing \/ sessions'[i].revoked
           /\ \A i \in Id : proofs[i] # Nothing /\ proofs[i].used =>
                  proofs'[i] = Nothing \/ proofs'[i].used
BY UserSteps, SessionSteps, ProofSteps

Unused(u, kind) == {i \in Id : Usable(i) /\ proofs[i].user = u /\ proofs[i].kind = kind}
Coming(u, kind) == {c \in Request : pc[c] = "forgot" /\ local[c].user = u /\ local[c].kind = kind}

Few(u, kind) == Cardinality(Unused(u, kind)) + Cardinality(Coming(u, kind)) <= Cardinality(Request)

LEMMA FewIsFew == FewUnusedProofs <=> \A u \in User, kind \in {"email", "phone"} : Few(u, kind)
BY DEF FewUnusedProofs, Few, Unused, Coming

LEMMA ProofSetsFinite ==
    ASSUME NEW u, NEW kind
    PROVE  IsFiniteSet(Unused(u, kind)) /\ IsFiniteSet(Coming(u, kind))
<1>1. IsFiniteSet(Id)
  BY BoundAssumption, FS_Interval DEF Id
<1> QED
  BY <1>1, RequestAssumption, FS_Subset DEF Unused, Coming

LEMMA FewInit ==
    ASSUME Init, NEW u, NEW kind
    PROVE  Few(u, kind)
<1>1. Unused(u, kind) = {} /\ Coming(u, kind) = {}
  BY DEF Init, Unused, Coming, Usable
<1> QED
  BY <1>1, FS_EmptySet, FS_CardinalityType, RequestAssumption DEF Few

(* The proofs that are unused: the calls that ask for one use up the       *)
(* others first, and only creating one adds to them.                       *)
LEMMA FewKept ==
    ASSUME TypeInv, Numbered, [Next]_vars, NEW u \in User, NEW kind \in {"email", "phone"},
           Few(u, kind)
    PROVE  Few(u, kind)'
<1> DEFINE U == Unused(u, kind)
           C == Coming(u, kind)
           V == Unused(u, kind)'
           D == Coming(u, kind)'
<1>0. /\ proofs \in [Id -> ProofRow \cup {Nothing}]
      /\ \A i \in Id : proofs[i] # Nothing => proofs[i] \in ProofRow
  BY DEF TypeInv, RowsTyped
<1>1. IsFiniteSet(U) /\ IsFiniteSet(C) /\ Cardinality(U) + Cardinality(C) <= Cardinality(Request)
      /\ Cardinality(Request) \in Nat
  BY ProofSetsFinite, FS_CardinalityType, RequestAssumption DEF Few
<1>2. ASSUME V \subseteq U, D \subseteq C
      PROVE  Cardinality(V) + Cardinality(D) <= Cardinality(Request)
  <2> HIDE DEF U, C, V, D
  <2>1. /\ Cardinality(U) \in Nat /\ Cardinality(V) \in Nat /\ Cardinality(V) <= Cardinality(U)
    BY <1>1, <1>2, AtMostAsMany
  <2>2. /\ Cardinality(C) \in Nat /\ Cardinality(D) \in Nat /\ Cardinality(D) <= Cardinality(C)
    BY <1>1, <1>2, AtMostAsMany
  <2> QED
    BY <1>1, <2>1, <2>2
<1>3. ASSUME V = {}
      PROVE  Cardinality(V) + Cardinality(D) <= Cardinality(Request)
  <2>1. D \subseteq Request
    BY DEF Coming
  <2> HIDE DEF V, D
  <2>2. Cardinality(V) = 0
    BY <1>3, FS_EmptySet
  <2>3. Cardinality(D) \in Nat /\ Cardinality(D) <= Cardinality(Request)
    BY <2>1, RequestAssumption, AtMostAsMany
  <2> QED
    BY <1>1, <2>2, <2>3
<1>4. ASSUME NEW c \in C, D \subseteq C \ {c}, NEW i, V \subseteq U \cup {i}
      PROVE  Cardinality(V) + Cardinality(D) <= Cardinality(Request)
  <2> HIDE DEF U, C, V, D
  <2>1. /\ Cardinality(U) \in Nat /\ Cardinality(V) \in Nat /\ Cardinality(V) <= Cardinality(U) + 1
    BY <1>1, <1>4, AtMostOneMore
  <2>2. /\ Cardinality(C) \in Nat /\ Cardinality(D) \in Nat /\ Cardinality(D) + 1 <= Cardinality(C)
    BY <1>1, <1>4, OneFewer
  <2> QED
    BY <1>1, <2>1, <2>2
<1>5. ASSUME UNCHANGED proofs PROVE V \subseteq U
  BY <1>5 DEF Unused, Usable
<1>6. ASSUME NEW c \in Request, NEW stage \in Stages \ {"forgot"}, NEW loc,
             pc' = [pc EXCEPT ![c] = stage], local' = [local EXCEPT ![c] = loc]
      PROVE  D \subseteq C \ {c}
  BY <1>6 DEF Coming, TypeInv, CallsTyped
<1>7. ASSUME UNCHANGED <<pc, local>> PROVE D \subseteq C
  BY <1>7 DEF Coming
<1>8. ASSUME NEW c \in Request, StartForgot(c)
      PROVE  Cardinality(V) + Cardinality(D) <= Cardinality(Request)
  <2>1. PICK v \in Users, k \in {"email", "phone"} :
            /\ StartAs(c, "forgot", "forgot", [NoLocal EXCEPT !.user = v, !.kind = k])
            /\ proofs' = [i \in Id |->
                   IF Usable(i) /\ proofs[i].user = v /\ proofs[i].kind = k
                   THEN [proofs[i] EXCEPT !.used = TRUE] ELSE proofs[i]]
    BY <1>8 DEF StartForgot
  <2>2. CASE v = u /\ k = kind
    <3>1. \A i \in Id : ~(proofs'[i] # Nothing /\ ~proofs'[i].used
                          /\ proofs'[i].user = u /\ proofs'[i].kind = kind)
      BY <1>0, <2>1, <2>2 DEF Usable, ProofRow
    <3>2. V = {}
      BY <3>1 DEF Unused, Usable
    <3> QED
      BY <1>3, <3>2
  <2>3. CASE ~(v = u /\ k = kind)
    <3>1. V \subseteq U
      BY <1>0, <2>1 DEF Unused, Usable, ProofRow
    <3>2. [NoLocal EXCEPT !.user = v, !.kind = k].user = v
          /\ [NoLocal EXCEPT !.user = v, !.kind = k].kind = k
      BY DEF NoLocal
    <3>3. D \subseteq C
      BY <2>1, <2>3, <3>2 DEF StartAs, Coming, TypeInv, CallsTyped
    <3> QED
      BY <1>2, <3>1, <3>3
  <2> QED
    BY <2>2, <2>3
<1>9. ASSUME NEW c \in Request, Begin(c), ~StartForgot(c)
      PROVE  Cardinality(V) + Cardinality(D) <= Cardinality(Request)
  <2>1. PICK op \in Operations, stage \in Stages : \E loc : StartAs(c, op, stage, loc)
    BY <1>9 DEF Begin, StartLogin, StartRegister, StartRefresh, StartReset, StartPassword,
         StartRevoke, StartReplaceRole, StartGuard, StartAs, Start, Stages
  <2>2. pc'[c] # "forgot"
    BY <1>9 DEF Begin, StartLogin, StartRegister, StartRefresh, StartReset, StartPassword,
         StartRevoke, StartReplaceRole, StartGuard, StartAs, TypeInv, CallsTyped
  <2>3. stage # "forgot"
    BY <2>1, <2>2 DEF StartAs, TypeInv, CallsTyped
  <2>4. D \subseteq C \ {c}
    BY <1>6, <2>1, <2>3 DEF StartAs
  <2>5. UNCHANGED proofs
    BY <1>9 DEF Begin, StartLogin, StartRegister, StartRefresh, StartReset,
         StartPassword, StartRevoke, StartReplaceRole, StartGuard, rows
  <2> QED
    BY <1>2, <1>5, <2>4, <2>5
<1>10. ASSUME NEW c \in Request, Forgot(c)
      PROVE  Cardinality(V) + Cardinality(D) <= Cardinality(Request)
  <2>1. D \subseteq C \ {c}
    BY <1>6, <1>10 DEF Forgot, Return, Goto, Stages
  <2>2. CASE UNCHANGED proofs
    BY <1>2, <1>5, <2>1, <2>2
  <2>3. CASE proofs' = [proofs EXCEPT ![nextProof] =
                  [user |-> local[c].user, kind |-> local[c].kind, used |-> FALSE, expired |-> FALSE]]
    <3>1. V \subseteq U \cup {nextProof}
      BY <1>0, <2>3 DEF Unused, Usable
    <3>2. CASE c \in C
      BY <1>4, <2>1, <3>1, <3>2
    <3>3. CASE c \notin C
      <4>1. ~(local[c].user = u /\ local[c].kind = kind)
        BY <1>10, <3>3 DEF Forgot, Coming
      <4>2. V \subseteq U
        BY <1>0, <2>3, <4>1 DEF Unused, Usable
      <4> QED
        BY <1>2, <2>1, <4>2
    <3> QED
      BY <3>2, <3>3
  <2> QED
    BY <1>10, <2>2, <2>3 DEF Forgot
<1>11. ASSUME NEW c \in Request, Reset(c)
      PROVE  Cardinality(V) + Cardinality(D) <= Cardinality(Request)
  <2>1. D \subseteq C \ {c}
    BY <1>6, <1>11 DEF Reset, Return, Goto, Stages
  <2>2. CASE UNCHANGED proofs
    BY <1>2, <1>5, <2>1, <2>2
  <2>3. CASE proofs' = [proofs EXCEPT ![local[c].id].used = TRUE]
    <3>2. local[c].user \in Users => proofs[local[c].id] # Nothing /\ local[c].id \in Id
      BY <1>11, CallTyped DEF Reset, Numbered, Knows
    <3>3. CASE local[c].user \in Users
      <4>1. PICK j \in Id : proofs[j] # Nothing /\ proofs' = [proofs EXCEPT ![j].used = TRUE]
        BY <2>3, <3>2, <3>3
      <4>2. V \subseteq U
        BY <1>0, <4>1 DEF Unused, Usable, ProofRow
      <4> QED
        BY <1>2, <2>1, <4>2
    <3>4. CASE local[c].user \notin Users
      BY <1>2, <1>5, <1>11, <2>1, <3>4 DEF Reset
    <3> QED
      BY <3>3, <3>4
  <2> QED
    BY <1>11, <2>2, <2>3 DEF Reset
<1>12. ASSUME NEW c \in Request, Step(c) \/ Fail(c), ~Forgot(c), ~Reset(c)
      PROVE  Cardinality(V) + Cardinality(D) <= Cardinality(Request)
  <2>1. PICK stage \in Stages \ {"forgot"} : \E loc : Goto(c, stage, loc)
    BY <1>12 DEF Step, Fail, Return, Stages, Create, Store, StoreOf, Stamp, RecordSession,
         ChangePassword, Revoke, ReplaceRole, CachePerms
  <2>2. D \subseteq C \ {c}
    BY <1>6, <2>1 DEF Goto
  <2>3. UNCHANGED proofs
    BY <1>12 DEF Step, Fail, Create, Store, StoreOf, Stamp, RecordSession,
         ChangePassword, Revoke, ReplaceRole, CachePerms, rows
  <2> QED
    BY <1>2, <1>5, <2>2, <2>3
<1>13. ASSUME UNCHANGED <<pc, local, proofs>>
      PROVE  Cardinality(V) + Cardinality(D) <= Cardinality(Request)
  BY <1>2, <1>5, <1>7, <1>13
<1>14. ASSUME ExpireProof
      PROVE  Cardinality(V) + Cardinality(D) <= Cardinality(Request)
  <2>1. PICK i \in Id : Usable(i) /\ proofs' = [proofs EXCEPT ![i].expired = TRUE]
    BY <1>14 DEF ExpireProof
  <2>2. V \subseteq U
    BY <1>0, <2>1 DEF Unused, Usable, ProofRow
  <2>3. D \subseteq C
    BY <1>7, <1>14 DEF ExpireProof, requests
  <2> QED
    BY <1>2, <2>2, <2>3
<1>15. ASSUME DeleteUser
      PROVE  Cardinality(V) + Cardinality(D) <= Cardinality(Request)
  <2>1. V \subseteq U
    BY <1>0, <1>15 DEF DeleteUser, Unused, Usable
  <2>2. D \subseteq C
    BY <1>7, <1>15 DEF DeleteUser, Call
  <2> QED
    BY <1>2, <2>1, <2>2
<1>16. \/ UNCHANGED <<pc, local, proofs>>
       \/ ExpireProof \/ DeleteUser
       \/ \E c \in Request : Begin(c) \/ Step(c) \/ Fail(c)
  BY DEF Next, vars, rows, requests, Statement, Call, Logout, UpdateProfile,
         AssignRole, RemoveRole, Tick, ExpirePerms, RevokeOthers
<1> HIDE DEF U, C, V, D
<1>17. Cardinality(V) + Cardinality(D) <= Cardinality(Request)
  BY <1>8, <1>9, <1>10, <1>11, <1>12, <1>13, <1>14, <1>15, <1>16
<1> QED
  BY <1>17 DEF Few, V, D

----------------------------------------------------------------------------
(* The theorems.  Inv is inductive; each property is one of its conjuncts, *)
(* or follows from it for each step.                                       *)

Inv ==
    /\ TypeInv
    /\ Numbered
    /\ NoOrphans
    /\ UniqueAccounts
    /\ RefreshEndsWithLogout
    /\ StoredTokenIsHandedOut
    /\ ResetConsumesProof
    /\ FewUnusedProofs

LEMMA InitInv == Init => Inv
<1> SUFFICES ASSUME Init PROVE Inv
  OBVIOUS
<1>1. FewUnusedProofs
  BY FewInit, FewIsFew
<1> QED
  BY <1>1, InitTyped, InitNoOrphans, InitSafe DEF Inv

LEMMA NextInv == Inv /\ [Next]_vars => Inv'
<1> SUFFICES ASSUME Inv, [Next]_vars PROVE Inv'
  OBVIOUS
<1>1. TypeInv' /\ Numbered' /\ NoOrphans'
  BY StaysTyped, StaysNumbered, NoOrphansKept DEF Inv
<1>2. UniqueAccounts' /\ RefreshEndsWithLogout' /\ StoredTokenIsHandedOut' /\ ResetConsumesProof'
  BY UniqueKept, RefreshKept, TokensKept, ConsumedKept DEF Inv
<1>3. FewUnusedProofs'
  <2>1. \A u \in User, kind \in {"email", "phone"} : Few(u, kind)'
    BY FewKept, FewIsFew DEF Inv
  <2> QED
    BY <2>1 DEF FewUnusedProofs, Few, Unused, Coming
<1> QED
  BY <1>1, <1>2, <1>3 DEF Inv

(* The invariant holds in every reachable state. *)
THEOREM InvHolds == Spec => []Inv
BY InitInv, NextInv, PTL DEF Spec

(* Every variable holds a value of its kind: in particular no call writes  *)
(* a row out of local variables it has not set (users, sessions, proofs).  *)
THEOREM TypeCorrect == Spec => []TypeOK
<1>1. Inv => TypeOK
  BY TypeInvImpliesTypeOK DEF Inv
<1> QED
  BY <1>1, InvHolds, PTL

(* No two accounts have one username or one email, whatever registers and  *)
(* profile updates race (register, updateProfile, updateUser).             *)
THEOREM AccountsAreUnique == Spec => []UniqueAccounts
<1>1. Inv => UniqueAccounts
  BY DEF Inv
<1> QED
  BY <1>1, InvHolds, PTL

(* Sessions, proofs and roles are of users that exist: a login or a reset  *)
(* in flight while its user is deleted leaves nothing behind.              *)
THEOREM NothingIsOrphaned == Spec => []NoOrphans
<1>1. Inv => NoOrphans
  BY DEF Inv
<1> QED
  BY <1>1, InvHolds, PTL

(* Logout and reset end the refresh token and its successors, but for what *)
(* was in flight (clearRefreshTokenHash, resetPassword).                   *)
THEOREM LogoutEndsRefresh == Spec => []RefreshEndsWithLogout
<1>1. Inv => RefreshEndsWithLogout
  BY DEF Inv
<1> QED
  BY <1>1, InvHolds, PTL

(* The refresh token that works was sent to a client, is on the response   *)
(* of a request that records its session, or is of a login whose other     *)
(* write has failed or is to come (updateRefreshTokenHash, then the        *)
(* cookie, then recordSession).                                            *)
THEOREM TokensReachClients == Spec => []StoredTokenIsHandedOut
<1>1. Inv => StoredTokenIsHandedOut
  BY DEF Inv
<1> QED
  BY <1>1, InvHolds, PTL

(* A reset uses its token or code up (resetPassword, resetPasswordByPhone, *)
(* whose transaction finds the row its check has found).                   *)
THEOREM ResetsConsume == Spec => []ResetConsumesProof
<1>1. Inv => ResetConsumesProof
  BY DEF Inv
<1> QED
  BY <1>1, InvHolds, PTL

(* Unused reset links and codes of a user are never more than the calls    *)
(* that may be in flight at once (forgotPasswordByEmail and ByPhone).      *)
THEOREM ProofsAreFew == Spec => []FewUnusedProofs
<1>1. Inv => FewUnusedProofs
  BY DEF Inv
<1> QED
  BY <1>1, InvHolds, PTL

(* A deleted account, a revoked session and a used proof stay what they    *)
(* are, whatever late calls still write.                                   *)
THEOREM GoneIsGone == Spec => NothingComesBack
<1>1. Inv /\ [Next]_vars =>
          [/\ \A u \in created : users[u] = Nothing => users'[u] = Nothing
           /\ \A i \in Id : sessions[i] # Nothing /\ sessions[i].revoked =>
                  sessions'[i] = Nothing \/ sessions'[i].revoked
           /\ \A i \in Id : proofs[i] # Nothing /\ proofs[i].used =>
                  proofs'[i] = Nothing \/ proofs'[i].used]_vars
  BY NothingComesBackStep DEF Inv
<1> QED
  BY <1>1, InvHolds, PTL DEF Spec, NothingComesBack
=============================================================================
