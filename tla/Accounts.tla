------------------------------ MODULE Accounts ------------------------------
(***************************************************************************)
(* Users, refresh tokens and access tokens: login with Google, refresh,     *)
(* logout and profile, statement by statement.  An access token carries the *)
(* role its user had when it was signed and is believed until it expires;   *)
(* the role itself is only changed by hand in the database.  Time passes in *)
(* ticks and is counted only as far as it matters.  The names that login    *)
(* and profile write are left out: the later of two statements wins.        *)
(***************************************************************************)
EXTENDS Integers, FiniteSets

CONSTANTS
  Emails,         \* addresses Google vouches for
  Ids,            \* ids the database or GenerateUUID makes up
  Tokens,         \* refresh tokens; an ended one nobody refers to is free again
  Phones, NoPhone,
  Calls,          \* requests, each free again when it is answered
  AccessLife,     \* accessTokenExpiry and refreshTokenExpiry, in ticks
  RefreshLife,
  MaxCall         \* bound: ticks from the first statement of a request to its end

ASSUME LifeAssumption == AccessLife \in Nat \ {0} /\ RefreshLife \in Nat \ {0}
ASSUME PhoneAssumption == NoPhone \in Phones
ASSUME CallAssumption == MaxCall \in Nat

VARIABLES
  users,       \* id -> row of users or None
  sessions,    \* token -> [user, left] or None; left: ticks until it ends
  access,      \* the access tokens that have not expired
  calls,       \* request -> what it has read and does next, or None
  granted,     \* id -> the role last given by hand, or at creation
  asked,       \* id -> the phone last asked for in the profile
  changed,     \* id -> ticks since the role column changed
  overtaken    \* ids whose role was given while a login had read the row

vars == <<users, sessions, access, calls, granted, asked, changed, overtaken>>

None == [none |-> TRUE]
Roles == {"customer", "admin"}
Horizon == AccessLife + MaxCall + 1   \* what happened earlier no longer matters

UserRow == [email : Emails, role : Roles, phone : Phones]
Session == [user : Ids, left : -Horizon..RefreshLife]
AccessToken == [user : Ids, role : Roles, session : Tokens, age : 0..AccessLife - 1]
Call ==
  [step : {"create"}, email : Emails, age : 0..MaxCall]
    \union [step : {"update"}, user : Ids, role : Roles, phone : Phones, age : 0..MaxCall]
    \union {call \in [step : {"save"}, user : Ids, role : Roles,
                      age : 0..MaxCall, signed : 0..MaxCall] : call.signed <= call.age}
    \union [step : {"issue"}, session : Tokens, age : 0..MaxCall]

Known(i) == users[i] # None
Busy(c) == calls[c] # None
Live(s) == sessions[s] # None /\ sessions[s].left > 0

(* Nobody can tell whether the token was ever there.                        *)
Free(s) ==
  /\ ~Live(s)
  /\ \A t \in access : t.session # s
  /\ \A c \in Calls : Busy(c) /\ calls[c].step = "issue" => calls[c].session # s

Goes(c, next) == calls' = [calls EXCEPT ![c] = next]
Issue(i, role, s, age) ==
  access' = IF age < AccessLife
            THEN access \union {[user |-> i, role |-> role, session |-> s, age |-> age]}
            ELSE access

-----------------------------------------------------------------------------
(* Login *)

(* GetByEmail: the row as it is now, or that there is none.                 *)
FindUser(c, e) ==
  /\ ~Busy(c)
  /\ \/ /\ \A i \in Ids : Known(i) => users[i].email # e
        /\ Goes(c, [step |-> "create", email |-> e, age |-> 0])
     \/ \E i \in Ids :
          /\ Known(i) /\ users[i].email = e
          /\ Goes(c, [step |-> "update", user |-> i, role |-> users[i].role,
                      phone |-> users[i].phone, age |-> 0])
  /\ UNCHANGED <<users, sessions, access, granted, asked, changed, overtaken>>

NewUser(e) == [email |-> e, role |-> "customer", phone |-> NoPhone]
Signed(c, i, role) ==
  [step |-> "save", user |-> i, role |-> role, age |-> calls[c].age, signed |-> 0]

(* Mutant: the email column is not unique.                                  *)
CreateUserAgain(c, i) ==
  /\ Busy(c) /\ calls[c].step = "create" /\ ~Known(i)
  /\ users' = [users EXCEPT ![i] = NewUser(calls[c].email)]
  /\ granted' = [granted EXCEPT ![i] = "customer"]
  /\ asked' = [asked EXCEPT ![i] = NoPhone]
  /\ Goes(c, Signed(c, i, "customer"))
  /\ UNCHANGED <<sessions, access, changed, overtaken>>

(* The email column is unique, and the access token is signed for the id    *)
(* that the database gave, not for the one made up before.                  *)
CreateUser(c, i) ==
  /\ Busy(c) /\ calls[c].step = "create" /\ ~Known(i)
  /\ \A j \in Ids : Known(j) => users[j].email # calls[c].email
  /\ users' = [users EXCEPT ![i] = NewUser(calls[c].email)]
  /\ granted' = [granted EXCEPT ![i] = "customer"]
  /\ asked' = [asked EXCEPT ![i] = NoPhone]
  /\ Goes(c, Signed(c, i, "customer"))
  /\ UNCHANGED <<sessions, access, changed, overtaken>>

(* Mutant: a login writes the role of a new user.                           *)
WriteNewRole(call) == [users[call.user] EXCEPT !.role = "customer"]

(* UpdateUser sets the role that was read before, but not the phone.        *)
Written(call) == [users[call.user] EXCEPT !.role = call.role]

(* An error of this statement is logged and the login goes on.              *)
UpdateUser(c) ==
  /\ Busy(c) /\ calls[c].step = "update"
  /\ LET call == calls[c]
     IN  /\ \/ /\ users' = [users EXCEPT ![call.user] = Written(call)]
               /\ changed' = IF Written(call).role # users[call.user].role
                             THEN [changed EXCEPT ![call.user] = 0] ELSE changed
            \/ UNCHANGED <<users, changed>>
         /\ Goes(c, Signed(c, call.user, call.role))
  /\ UNCHANGED <<sessions, access, granted, asked, overtaken>>

(* The tokens reach the client only if the refresh token is saved; both     *)
(* count from the moment they were made, before that statement.             *)
SaveRefreshToken(c, s) ==
  /\ Busy(c) /\ calls[c].step = "save" /\ Free(s)
  /\ LET call == calls[c]
     IN  /\ sessions' = [sessions EXCEPT ![s] =
                           [user |-> call.user, left |-> RefreshLife - call.signed]]
         /\ Issue(call.user, call.role, s, call.signed)
  /\ Goes(c, None)
  /\ UNCHANGED <<users, granted, asked, changed, overtaken>>

-----------------------------------------------------------------------------
(* Refresh and logout *)

(* Mutant: a refresh token is good until it expires, revoked or not.        *)
GetRefreshTokenDead(c, s) ==
  /\ ~Busy(c) /\ sessions[s] # None
  /\ Goes(c, [step |-> "issue", session |-> s, age |-> 0])
  /\ UNCHANGED <<users, sessions, access, granted, asked, changed, overtaken>>

(* A revoked token is not found and an expired one refused.                 *)
GetRefreshToken(c, s) ==
  /\ ~Busy(c) /\ Live(s)
  /\ Goes(c, [step |-> "issue", session |-> s, age |-> 0])
  /\ UNCHANGED <<users, sessions, access, granted, asked, changed, overtaken>>

(* GetByID and GenerateJWT: the token may have been revoked meanwhile.      *)
RefreshAccessToken(c) ==
  /\ Busy(c) /\ calls[c].step = "issue"
  /\ LET s == calls[c].session
         i == sessions[s].user
     IN  Issue(i, users[i].role, s, 0)
  /\ Goes(c, None)
  /\ UNCHANGED <<users, sessions, granted, asked, changed, overtaken>>

(* Logout answers with success whether or not the token was revoked.        *)
RevokeToken(s) ==
  /\ Live(s)
  /\ sessions' = [sessions EXCEPT ![s].left = 0]
  /\ UNCHANGED <<users, access, calls, granted, asked, changed, overtaken>>

-----------------------------------------------------------------------------
(* Any statement may fail, and a client may go away.                        *)
Fail(c) ==
  /\ Busy(c) /\ calls[c].step # "update"
  /\ Goes(c, None)
  /\ UNCHANGED <<users, sessions, access, granted, asked, changed, overtaken>>

(* The profile of whoever the access token names.                           *)
UpdateProfile(t, p) ==
  /\ t \in access
  /\ users' = [users EXCEPT ![t.user].phone = p]
  /\ asked' = [asked EXCEPT ![t.user] = p]
  /\ UNCHANGED <<sessions, access, calls, granted, changed, overtaken>>

HasRead(c, i) == Busy(c) /\ calls[c].step = "update" /\ calls[c].user = i

(* By hand in the database: no request changes a role.                      *)
GiveRole(i, role) ==
  /\ Known(i) /\ users[i].role # role
  /\ users' = [users EXCEPT ![i].role = role]
  /\ granted' = [granted EXCEPT ![i] = role]
  /\ changed' = [changed EXCEPT ![i] = 0]
  /\ overtaken' = IF \E c \in Calls : HasRead(c, i)
                  THEN overtaken \union {i} ELSE overtaken \ {i}
  /\ UNCHANGED <<sessions, access, calls, asked>>

Older(call) ==
  IF call = None THEN None
  ELSE IF call.step = "save" THEN [call EXCEPT !.age = @ + 1, !.signed = @ + 1]
  ELSE [call EXCEPT !.age = @ + 1]

(* Mutant: the expiry of an access token is not checked.                    *)
AgedUnchecked == {[t EXCEPT !.age = @ + 1] : t \in access}

(* Mutant: an access token is signed without an expiry.                     *)
AgedNever == access

(* ValidateJWT accepts a token until it expires.                            *)
Aged == {[t EXCEPT !.age = @ + 1] : t \in {t \in access : t.age + 1 < AccessLife}}

Tick ==
  /\ \A c \in Calls : Busy(c) => calls[c].age < MaxCall
  /\ calls' = [c \in Calls |-> Older(calls[c])]
  /\ access' = Aged
  /\ sessions' = [s \in Tokens |->
       IF sessions[s] # None /\ sessions[s].left > -Horizon
       THEN [sessions[s] EXCEPT !.left = @ - 1] ELSE sessions[s]]
  /\ changed' = [i \in Ids |-> IF changed[i] < Horizon THEN changed[i] + 1 ELSE changed[i]]
  /\ UNCHANGED <<users, granted, asked, overtaken>>

-----------------------------------------------------------------------------
Init ==
  /\ users = [i \in Ids |-> None]
  /\ sessions = [s \in Tokens |-> None]
  /\ access = {}
  /\ calls = [c \in Calls |-> None]
  /\ granted = [i \in Ids |-> "customer"]
  /\ asked = [i \in Ids |-> NoPhone]
  /\ changed = [i \in Ids |-> Horizon]
  /\ overtaken = {}

Next ==
  \/ \E c \in Calls :
       \/ \E e \in Emails : FindUser(c, e)
       \/ \E i \in Ids : CreateUser(c, i)
       \/ UpdateUser(c)
       \/ \E s \in Tokens : SaveRefreshToken(c, s) \/ GetRefreshToken(c, s)
       \/ RefreshAccessToken(c) \/ Fail(c)
  \/ \E s \in Tokens : RevokeToken(s)
  \/ \E t \in access, p \in Phones : UpdateProfile(t, p)
  \/ \E i \in Ids, role \in Roles : GiveRole(i, role)
  \/ Tick

Spec == Init /\ [][Next]_vars

-----------------------------------------------------------------------------
(* Properties *)

TypeOK ==
  /\ users \in [Ids -> UserRow \union {None}]
  /\ sessions \in [Tokens -> Session \union {None}]
  /\ access \subseteq AccessToken
  /\ calls \in [Calls -> Call \union {None}]
  /\ granted \in [Ids -> Roles] /\ asked \in [Ids -> Phones]
  /\ changed \in [Ids -> 0..Horizon]
  /\ overtaken \subseteq Ids

(* Two first logins of one address leave one user, and whoever a token or a *)
(* login in progress names is a user.                                      *)
OneUserPerEmail ==
  /\ \A i, j \in Ids : Known(i) /\ Known(j) /\ users[i].email = users[j].email => i = j
  /\ \A t \in access : Known(t.user)
  /\ \A s \in Tokens : sessions[s] # None => Known(sessions[s].user)
  /\ \A c \in Calls : Busy(c) /\ calls[c].step \in {"update", "save"} => Known(calls[c].user)

(* "If role changes mid-session": an access token shows a role that is not   *)
(* the user's any more for at most its life and one request.               *)
RoleStalenessBounded ==
  \A t \in access :
    t.role # users[t.user].role => changed[t.user] <= t.age + MaxCall

(* After a refresh token was revoked or has expired, no access token of the  *)
(* session outlives its own life and one request.                          *)
SessionEnds ==
  \A t \in access : -sessions[t.session].left <= t.age + MaxCall

(* "Ensure Role doesn't get overwritten": a role stays as it was given,       *)
(* unless a login had read the row when it was.                            *)
RoleIsGranted ==
  \A i \in Ids : Known(i) /\ users[i].role # granted[i] => i \in overtaken

(* A login never loses the phone that the user sets while it runs.           *)
ProfileKept ==
  \A i \in Ids : Known(i) => users[i].phone = asked[i]
=============================================================================
