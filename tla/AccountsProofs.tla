--------------------------- MODULE AccountsProofs ---------------------------
(***************************************************************************)
(* Proofs about users and tokens, for any addresses, tokens, requests in    *)
(* flight, lives and request durations.  What the invariants say of tokens  *)
(* is made inductive by saying it of the requests that are about to make    *)
(* one.                                                                    *)
(***************************************************************************)
EXTENDS Accounts, TLAPS

At(c, step) == Busy(c) /\ calls[c].step = step

(* Access tokens and refreshes in progress have the session they name, and  *)
(* a refresh began while the session was alive.                            *)
SessionsThere ==
  /\ \A t \in access : sessions[t.session] # None
  /\ \A c \in Calls : At(c, "issue") =>
       /\ sessions[calls[c].session] # None
       /\ -sessions[calls[c].session].left <= calls[c].age

(* A login holds a role that is not the user's any more only if it changed  *)
(* since the login read it.                                                *)
RolesRead ==
  \A c \in Calls : At(c, "update") \/ At(c, "save") =>
    (calls[c].role # users[calls[c].user].role => changed[calls[c].user] <= calls[c].age)

(* A login that holds a role nobody gave was overtaken.                      *)
RolesHeld ==
  \A c \in Calls : At(c, "update") =>
    (calls[c].role # granted[calls[c].user] => calls[c].user \in overtaken)

AccountsInv ==
  /\ TypeOK /\ OneUserPerEmail /\ SessionsThere /\ RolesRead /\ RolesHeld
  /\ RoleStalenessBounded /\ SessionEnds /\ RoleIsGranted /\ ProfileKept

(* The numbers are numbers.                                                *)
LEMMA Constants ==
  /\ AccessLife \in Nat \ {0} /\ RefreshLife \in Nat \ {0} /\ MaxCall \in Nat
  /\ NoPhone \in Phones /\ Horizon \in Nat /\ Horizon = AccessLife + MaxCall + 1
BY LifeAssumption, CallAssumption, PhoneAssumption DEF Horizon

LEMMA NoneIsNothing == None \notin UserRow /\ None \notin Session /\ None \notin Call
<1>1. DOMAIN None = {"none"}
  BY DEF None
<1>2. ASSUME None \in UserRow PROVE FALSE
  <2>1. DOMAIN None = {"email", "role", "phone"}
    BY <1>2 DEF UserRow
  <2> QED
    BY <1>1, <2>1
<1>3. ASSUME None \in Session PROVE FALSE
  <2>1. DOMAIN None = {"user", "left"}
    BY <1>3 DEF Session
  <2> QED
    BY <1>1, <2>1
<1>4. ASSUME None \in Call PROVE FALSE
  <2>1. "step" \in DOMAIN None
    BY <1>4 DEF Call
  <2> QED
    BY <1>1, <2>1
<1> QED
  BY <1>2, <1>3, <1>4

(* What a request in progress holds, by its next step.                      *)
LEMMA CallTypes ==
  ASSUME TypeOK, NEW c \in Calls, Busy(c)
  PROVE  /\ calls[c] \in Call /\ calls[c].age \in 0..MaxCall
         /\ calls[c].step \in {"create", "update", "save", "issue"}
         /\ calls[c].step = "create" => calls[c].email \in Emails
         /\ calls[c].step = "update" =>
              calls[c].user \in Ids /\ calls[c].role \in Roles /\ calls[c].phone \in Phones
         /\ calls[c].step = "save" =>
              /\ calls[c].user \in Ids /\ calls[c].role \in Roles
              /\ calls[c].signed \in 0..MaxCall /\ calls[c].signed <= calls[c].age
         /\ calls[c].step = "issue" => calls[c].session \in Tokens
<1>1. calls[c] \in Call
  BY DEF TypeOK, Busy
<1> QED
  BY <1>1 DEF Call

LEMMA RowTypes ==
  ASSUME TypeOK
  PROVE  /\ \A i \in Ids : Known(i) =>
              /\ users[i] \in UserRow /\ users[i].email \in Emails
              /\ users[i].role \in Roles /\ users[i].phone \in Phones
         /\ \A s \in Tokens : sessions[s] # None =>
              /\ sessions[s] \in Session /\ sessions[s].user \in Ids
              /\ sessions[s].left \in -Horizon..RefreshLife
         /\ \A t \in access :
              /\ t \in AccessToken /\ t.user \in Ids /\ t.role \in Roles /\ t.session \in Tokens
              /\ t.age \in 0..AccessLife - 1
         /\ \A i \in Ids : changed[i] \in 0..Horizon /\ granted[i] \in Roles /\ asked[i] \in Phones
<1> USE DEF TypeOK, Known
<1>1. \A i \in Ids : Known(i) => users[i] \in UserRow
  OBVIOUS
<1>2. \A s \in Tokens : sessions[s] # None => sessions[s] \in Session
  OBVIOUS
<1>3. \A t \in access : t \in AccessToken
  OBVIOUS
<1>4. \A i \in Ids : changed[i] \in 0..Horizon /\ granted[i] \in Roles /\ asked[i] \in Phones
  OBVIOUS
<1> QED
  BY <1>1, <1>2, <1>3, <1>4 DEF UserRow, Session, AccessToken

(* A request that takes its next step, and only it, changes what it holds.   *)
LEMMA GoesType ==
  ASSUME TypeOK, NEW c \in Calls, NEW next \in Call \union {None}, Goes(c, next)
  PROVE  /\ calls' \in [Calls -> Call \union {None}]
         /\ calls'[c] = next /\ \A d \in Calls : d # c => calls'[d] = calls[d]
BY DEF Goes, TypeOK

(* The records requests go on with.                                        *)
LEMMA CallForms ==
  /\ \A e \in Emails, n \in 0..MaxCall : [step |-> "create", email |-> e, age |-> n] \in Call
  /\ \A i \in Ids, r \in Roles, p \in Phones, n \in 0..MaxCall :
       [step |-> "update", user |-> i, role |-> r, phone |-> p, age |-> n] \in Call
  /\ \A i \in Ids, r \in Roles, n \in 0..MaxCall, m \in 0..MaxCall : m <= n =>
       [step |-> "save", user |-> i, role |-> r, age |-> n, signed |-> m] \in Call
  /\ \A s \in Tokens, n \in 0..MaxCall : [step |-> "issue", session |-> s, age |-> n] \in Call
BY DEF Call

-----------------------------------------------------------------------------
LEMMA InitAccounts == Init => AccountsInv
<1> SUFFICES ASSUME Init PROVE AccountsInv
  OBVIOUS
<1>1. TypeOK
  BY Constants DEF Init, TypeOK, Roles
<1>2. OneUserPerEmail
  BY DEF Init, OneUserPerEmail, Known, Busy
<1>3. SessionsThere /\ RolesRead /\ RolesHeld
  BY DEF Init, SessionsThere, RolesRead, RolesHeld, At, Busy
<1>4. RoleStalenessBounded /\ SessionEnds /\ RoleIsGranted /\ ProfileKept
  BY DEF Init, RoleStalenessBounded, SessionEnds, RoleIsGranted, ProfileKept, Known
<1> QED
  BY <1>1, <1>2, <1>3, <1>4 DEF AccountsInv

(* A login that found no row, or found one.                                 *)
LEMMA FindUserKeeps ==
  ASSUME AccountsInv, NEW c \in Calls, NEW e \in Emails, FindUser(c, e)
  PROVE  AccountsInv'
<1> USE DEF AccountsInv
<1>1. PICK next : /\ Goes(c, next)
                  /\ \/ next = [step |-> "create", email |-> e, age |-> 0]
                     \/ \E i \in Ids :
                          /\ Known(i)
                          /\ next = [step |-> "update", user |-> i, role |-> users[i].role,
                                     phone |-> users[i].phone, age |-> 0]
  BY DEF FindUser
<1>2. UNCHANGED <<users, sessions, access, granted, asked, changed, overtaken>>
  BY DEF FindUser
<1>3. next \in Call
  BY <1>1, CallForms, RowTypes, Constants
<1>4. /\ calls' \in [Calls -> Call \union {None}] /\ calls'[c] = next
      /\ \A d \in Calls : d # c => calls'[d] = calls[d]
  BY <1>1, <1>3, GoesType
<1>5. TypeOK'
  BY <1>2, <1>4 DEF TypeOK
<1>6. OneUserPerEmail'
  BY <1>1, <1>2, <1>4 DEF OneUserPerEmail, Known, Busy
<1>7. SessionsThere'
  BY <1>1, <1>2, <1>4 DEF SessionsThere, At, Busy
<1>8. RolesRead'
  BY <1>1, <1>2, <1>4 DEF RolesRead, At, Busy
<1>9. RolesHeld'
  BY <1>1, <1>2, <1>4 DEF RolesHeld, At, Busy, RoleIsGranted
<1>10. RoleStalenessBounded' /\ SessionEnds' /\ RoleIsGranted' /\ ProfileKept'
  BY <1>2 DEF RoleStalenessBounded, SessionEnds, RoleIsGranted, ProfileKept, Known
<1> QED
  BY <1>5, <1>6, <1>7, <1>8, <1>9, <1>10

(* A first login creates the user, whom nobody names yet.                   *)
LEMMA CreateUserKeeps ==
  ASSUME AccountsInv, NEW c \in Calls, NEW i \in Ids, CreateUser(c, i)
  PROVE  AccountsInv'
<1> USE DEF AccountsInv
<1>1. /\ Busy(c) /\ calls[c].step = "create" /\ ~Known(i)
      /\ \A j \in Ids : Known(j) => users[j].email # calls[c].email
      /\ UNCHANGED <<sessions, access, changed, overtaken>>
  BY DEF CreateUser
<1> DEFINE row == NewUser(calls[c].email)
           next == Signed(c, i, "customer")
<1>2. row \in UserRow /\ row # None /\ row.email = calls[c].email /\ row.role = "customer" /\ row.phone = NoPhone
  BY <1>1, CallTypes, Constants, NoneIsNothing DEF NewUser, UserRow, Roles
<1>3. /\ next \in Call /\ next.step = "save" /\ next.user = i /\ next.role = "customer"
  BY <1>1, CallTypes, CallForms, Constants DEF Signed, Roles
<1>4. /\ users'[i] = row /\ \A j \in Ids : j # i => users'[j] = users[j]
      /\ granted'[i] = "customer" /\ \A j \in Ids : j # i => granted'[j] = granted[j]
      /\ asked'[i] = NoPhone /\ \A j \in Ids : j # i => asked'[j] = asked[j]
      /\ users' \in [Ids -> UserRow \union {None}]
      /\ granted' \in [Ids -> Roles] /\ asked' \in [Ids -> Phones]
  BY <1>2, Constants DEF CreateUser, TypeOK, Roles
<1>5. /\ calls' \in [Calls -> Call \union {None}] /\ calls'[c] = next
      /\ \A d \in Calls : d # c => calls'[d] = calls[d]
  BY <1>3, GoesType DEF CreateUser
<1> HIDE DEF row, next
<1>6. TypeOK'
  BY <1>1, <1>4, <1>5 DEF TypeOK
<1>7. \A j \in Ids : Known(j)' <=> Known(j) \/ j = i
  BY <1>2, <1>4 DEF Known
<1>8. /\ \A t \in access : t.user # i /\ t.user \in Ids
      /\ \A d \in Calls : At(d, "update") \/ At(d, "save") => calls[d].user # i /\ calls[d].user \in Ids
  BY <1>1, RowTypes, CallTypes DEF OneUserPerEmail, At
<1>9. OneUserPerEmail'
  <2>1. \A j, k \in Ids : Known(j)' /\ Known(k)' /\ users'[j].email = users'[k].email => j = k
    BY <1>1, <1>2, <1>4, <1>7 DEF OneUserPerEmail
  <2>2. \A t \in access' : Known(t.user)'
    BY <1>1, <1>7, <1>8 DEF OneUserPerEmail, Known
  <2>3. \A s \in Tokens : sessions'[s] # None => users'[sessions'[s].user] # None
    BY <1>1, <1>7, RowTypes DEF OneUserPerEmail, Known
  <2>4. \A d \in Calls : Busy(d)' /\ calls'[d].step \in {"update", "save"} => users'[calls'[d].user] # None
    <3> SUFFICES ASSUME NEW d \in Calls, calls'[d] # None, calls'[d].step \in {"update", "save"}
                 PROVE  users'[calls'[d].user] # None
      BY DEF Busy, Known
    <3>1. CASE d = c
      BY <3>1, <1>2, <1>3, <1>4, <1>5
    <3>2. CASE d # c
      BY <3>2, <1>4, <1>5, <1>8 DEF OneUserPerEmail, Known, Busy, At
    <3> QED
      BY <3>1, <3>2
  <2> QED
    BY <2>1, <2>2, <2>3, <2>4 DEF OneUserPerEmail, Known
<1>10. SessionsThere'
  BY <1>1, <1>3, <1>5 DEF SessionsThere, At, Busy
<1>11. RolesRead'
  <2> SUFFICES ASSUME NEW d \in Calls, calls'[d] # None, calls'[d].step \in {"update", "save"},
                      calls'[d].role # users'[calls'[d].user].role
               PROVE  changed'[calls'[d].user] <= calls'[d].age
    BY DEF RolesRead, At, Busy
  <2>1. d # c
    BY <1>2, <1>3, <1>4, <1>5
  <2>2. calls[d].user # i /\ calls[d].user \in Ids /\ calls'[d] = calls[d]
    BY <2>1, <1>5, <1>8 DEF At, Busy
  <2> QED
    BY <2>1, <2>2, <1>1, <1>4 DEF RolesRead, At, Busy
<1>12. RolesHeld'
  BY <1>1, <1>3, <1>4, <1>5, <1>8 DEF RolesHeld, At, Busy
<1>13. RoleStalenessBounded' /\ SessionEnds'
  BY <1>1, <1>4, <1>8 DEF RoleStalenessBounded, SessionEnds
<1>14. RoleIsGranted' /\ ProfileKept'
  BY <1>1, <1>2, <1>4, <1>7 DEF RoleIsGranted, ProfileKept, Known
<1> QED
  BY <1>6, <1>9, <1>10, <1>11, <1>12, <1>13, <1>14

(* A login that writes the row back, or fails to, and signs a token.         *)
LEMMA UpdateUserKeeps ==
  ASSUME AccountsInv, NEW c \in Calls, UpdateUser(c)
  PROVE  AccountsInv'
<1> USE DEF AccountsInv
<1> DEFINE i == calls[c].user
           next == Signed(c, i, calls[c].role)
<1>1. /\ Busy(c) /\ calls[c].step = "update" /\ i \in Ids /\ Known(i)
      /\ calls[c].role \in Roles /\ calls[c].age \in 0..MaxCall
      /\ UNCHANGED <<sessions, access, granted, asked, overtaken>>
  BY CallTypes DEF UpdateUser, OneUserPerEmail
<1>2. /\ next \in Call /\ next.step = "save" /\ next.user = i
      /\ next.role = calls[c].role /\ next.age = calls[c].age
  BY <1>1, CallForms, Constants DEF Signed
<1>3. /\ calls' \in [Calls -> Call \union {None}] /\ calls'[c] = next
      /\ \A d \in Calls : d # c => calls'[d] = calls[d]
  BY <1>2, GoesType DEF UpdateUser
<1>4. users[i] \in UserRow /\ users \in [Ids -> UserRow \union {None}]
      /\ changed \in [Ids -> 0..Horizon]
  BY <1>1 DEF TypeOK, Known
<1>5. \/ users' = users /\ changed' = changed
      \/ /\ users' = [users EXCEPT ![i] = Written(calls[c])]
         /\ changed' = IF calls[c].role # users[i].role
                       THEN [changed EXCEPT ![i] = 0] ELSE changed
  BY <1>4 DEF UpdateUser, Written, UserRow
<1>6. /\ users' \in [Ids -> UserRow \union {None}] /\ changed' \in [Ids -> 0..Horizon]
      /\ \A j \in Ids : j # i => users'[j] = users[j] /\ changed'[j] = changed[j]
      /\ users'[i] \in UserRow /\ users'[i].email = users[i].email
      /\ users'[i].phone = users[i].phone
      /\ \/ users'[i].role = users[i].role /\ changed'[i] = changed[i]
         \/ users'[i].role = calls[c].role /\ changed'[i] = 0
  BY <1>1, <1>4, <1>5, Constants DEF Written, UserRow
<1> HIDE DEF i, next
<1>7. \A j \in Ids : (Known(j)' <=> Known(j)) /\ (Known(j) => users'[j].email = users[j].email)
  BY <1>1, <1>6, NoneIsNothing DEF Known
<1>8. TypeOK'
  BY <1>1, <1>3, <1>6 DEF TypeOK
<1>9. OneUserPerEmail'
  <2>1. \A j, k \in Ids : Known(j)' /\ Known(k)' /\ users'[j].email = users'[k].email => j = k
    BY <1>7 DEF OneUserPerEmail
  <2>2. \A t \in access' : users'[t.user] # None
    BY <1>1, <1>7, RowTypes DEF OneUserPerEmail, Known
  <2>3. \A s \in Tokens : sessions'[s] # None => users'[sessions'[s].user] # None
    BY <1>1, <1>7, RowTypes DEF OneUserPerEmail, Known
  <2>4. \A d \in Calls : Busy(d)' /\ calls'[d].step \in {"update", "save"} => users'[calls'[d].user] # None
    BY <1>1, <1>2, <1>3, <1>7, CallTypes DEF OneUserPerEmail, Known, Busy
  <2> QED
    BY <2>1, <2>2, <2>3, <2>4 DEF OneUserPerEmail, Known
<1>10. SessionsThere'
  BY <1>1, <1>2, <1>3 DEF SessionsThere, At, Busy
<1>11. RolesRead'
  <2> SUFFICES ASSUME NEW d \in Calls, calls'[d] # None, calls'[d].step \in {"update", "save"},
                      calls'[d].role # users'[calls'[d].user].role
               PROVE  changed'[calls'[d].user] <= calls'[d].age
    BY DEF RolesRead, At, Busy
  <2> DEFINE j == calls[d].user
  <2>1. /\ calls'[d].user = j /\ calls'[d].role = calls[d].role /\ calls'[d].age = calls[d].age
        /\ At(d, "update") \/ At(d, "save")
    BY <1>1, <1>2, <1>3 DEF At, Busy, i
  <2>2. j \in Ids /\ calls[d].age \in 0..MaxCall
    BY <2>1, CallTypes DEF At
  <2>3. calls[d].role # users[j].role => changed[j] <= calls[d].age
    BY <2>1 DEF RolesRead
  <2> HIDE DEF j
  <2>4. \/ changed'[j] = changed[j] /\ users'[j].role = users[j].role
        \/ changed'[j] = 0
    BY <2>2, <1>6
  <2> QED
    BY <2>1, <2>2, <2>3, <2>4
<1>12. RolesHeld'
  BY <1>1, <1>2, <1>3 DEF RolesHeld, At, Busy
<1>13. RoleStalenessBounded'
  <2> SUFFICES ASSUME NEW t \in access, t.role # users'[t.user].role
               PROVE  changed'[t.user] <= t.age + MaxCall
    BY <1>1 DEF RoleStalenessBounded
  <2>1. t.user \in Ids /\ t.age \in 0..AccessLife - 1
    BY RowTypes
  <2>2. \/ changed'[t.user] = changed[t.user] /\ users'[t.user].role = users[t.user].role
        \/ changed'[t.user] = 0
    BY <2>1, <1>6
  <2> QED
    BY <2>1, <2>2, Constants DEF RoleStalenessBounded
<1>14. SessionEnds' /\ ProfileKept'
  BY <1>1, <1>6, <1>7 DEF SessionEnds, ProfileKept, Known
<1>15. RoleIsGranted'
  <2> SUFFICES ASSUME NEW j \in Ids, Known(j), users'[j].role # granted[j]
               PROVE  j \in overtaken
    BY <1>1, <1>7 DEF RoleIsGranted
  <2>1. CASE users'[j].role = users[j].role
    BY <2>1 DEF RoleIsGranted
  <2>2. CASE j = i /\ users'[j].role = calls[c].role
    BY <2>2, <1>1 DEF RolesHeld, At, i
  <2> QED
    BY <2>1, <2>2, <1>6
<1> QED
  BY <1>8, <1>9, <1>10, <1>11, <1>12, <1>13, <1>14, <1>15


(* Answering a login: a new session takes a token nobody refers to.          *)
LEMMA SaveRefreshTokenKeeps ==
  ASSUME AccountsInv, NEW c \in Calls, NEW s \in Tokens, SaveRefreshToken(c, s)
  PROVE  AccountsInv'
<1> USE DEF AccountsInv
<1> DEFINE i == calls[c].user
           age == calls[c].signed
           row == [user |-> i, left |-> RefreshLife - age]
           token == [user |-> i, role |-> calls[c].role, session |-> s, age |-> age]
<1>1. /\ At(c, "save") /\ Free(s) /\ i \in Ids /\ Known(i) /\ calls[c].role \in Roles
      /\ age \in 0..MaxCall /\ calls[c].age \in 0..MaxCall
      /\ UNCHANGED <<users, granted, asked, changed, overtaken>>
  BY CallTypes DEF SaveRefreshToken, OneUserPerEmail, At
<1>2. row \in Session /\ row # None /\ row.user = i /\ -row.left <= age
  BY <1>1, Constants, NoneIsNothing DEF Session
<1>3. age < AccessLife => token \in AccessToken
  BY <1>1, Constants DEF AccessToken
<1>4. token.user = i /\ token.role = calls[c].role /\ token.session = s /\ token.age = age
  OBVIOUS
<1>5. /\ sessions' = [sessions EXCEPT ![s] = row]
      /\ access' = IF age < AccessLife THEN access \union {token} ELSE access
      /\ Goes(c, None)
  <2>1. sessions' = [sessions EXCEPT ![s] = row] /\ Goes(c, None)
    BY DEF SaveRefreshToken
  <2>2. Issue(i, calls[c].role, s, age)
    BY DEF SaveRefreshToken
  <2> QED
    BY <2>1, <2>2 DEF Issue
<1>6. /\ calls' \in [Calls -> Call \union {None}] /\ calls'[c] = None
      /\ \A d \in Calls : d # c => calls'[d] = calls[d]
  BY <1>5, GoesType
<1> HIDE DEF i, age, row, token
<1>7. /\ sessions' \in [Tokens -> Session \union {None}] /\ sessions'[s] = row
      /\ \A u \in Tokens : u # s => sessions'[u] = sessions[u]
  BY <1>2, <1>5 DEF TypeOK
<1>8. \A t \in access' : t \in access \/ (t = token /\ age < AccessLife)
  BY <1>5
<1>9. /\ \A t \in access : t.session # s
      /\ \A d \in Calls : At(d, "issue") => calls[d].session # s
  BY <1>1 DEF Free, At
<1>10. TypeOK'
  BY <1>1, <1>3, <1>6, <1>7, <1>8 DEF TypeOK
<1>11. OneUserPerEmail'
  <2>1. \A j, k \in Ids : Known(j)' /\ Known(k)' /\ users'[j].email = users'[k].email => j = k
    BY <1>1 DEF OneUserPerEmail, Known
  <2>2. \A t \in access' : users'[t.user] # None
    BY <1>1, <1>4, <1>8 DEF OneUserPerEmail, Known
  <2>3. \A u \in Tokens : sessions'[u] # None => users'[sessions'[u].user] # None
    BY <1>1, <1>2, <1>7 DEF OneUserPerEmail, Known
  <2>4. \A d \in Calls : Busy(d)' /\ calls'[d].step \in {"update", "save"} => users'[calls'[d].user] # None
    BY <1>1, <1>6 DEF OneUserPerEmail, Known, Busy
  <2> QED
    BY <2>1, <2>2, <2>3, <2>4 DEF OneUserPerEmail, Known
<1>12. SessionsThere'
  <2>1. \A t \in access' : sessions'[t.session] # None
    BY <1>2, <1>4, <1>7, <1>8, <1>9, RowTypes DEF SessionsThere
  <2>2. ASSUME NEW d \in Calls, calls'[d] # None, calls'[d].step = "issue"
        PROVE  /\ sessions'[calls'[d].session] # None
               /\ -sessions'[calls'[d].session].left <= calls'[d].age
    <3>1. calls'[d] = calls[d] /\ At(d, "issue")
      BY <2>2, <1>6 DEF At, Busy
    <3>2. calls[d].session \in Tokens /\ calls[d].session # s
      BY <3>1, <1>9, CallTypes DEF At
    <3> QED
      BY <3>1, <3>2, <1>7 DEF SessionsThere
  <2> QED
    BY <2>1, <2>2 DEF SessionsThere, At, Busy
<1>13. RolesRead' /\ RolesHeld'
  BY <1>1, <1>6 DEF RolesRead, RolesHeld, At, Busy
<1>14. RoleStalenessBounded'
  <2> SUFFICES ASSUME NEW t \in access', t.role # users[t.user].role
               PROVE  changed[t.user] <= t.age + MaxCall
    BY <1>1 DEF RoleStalenessBounded
  <2>1. CASE t \in access
    BY <2>1 DEF RoleStalenessBounded
  <2>2. CASE t = token
    <3>1. changed[i] <= calls[c].age /\ changed[i] \in 0..Horizon
      BY <2>2, <1>1, <1>4, RowTypes DEF RolesRead, i
    <3> QED
      BY <3>1, <2>2, <1>1, <1>4, Constants
  <2> QED
    BY <2>1, <2>2, <1>8
<1>15. SessionEnds'
  <2> SUFFICES ASSUME NEW t \in access'
               PROVE  -sessions'[t.session].left <= t.age + MaxCall
    BY DEF SessionEnds
  <2>1. CASE t \in access
    BY <2>1, <1>7, <1>9, RowTypes DEF SessionEnds
  <2>2. CASE t = token
    <3>1. row.left \in Int
      BY <1>1, <1>2, Constants DEF row
    <3> QED
      BY <3>1, <2>2, <1>1, <1>2, <1>4, <1>7, Constants
  <2> QED
    BY <2>1, <2>2, <1>8
<1>16. RoleIsGranted' /\ ProfileKept'
  BY <1>1 DEF RoleIsGranted, ProfileKept, Known
<1> QED
  BY <1>10, <1>11, <1>12, <1>13, <1>14, <1>15, <1>16

(* A refresh begins with a session that is alive.                            *)
LEMMA GetRefreshTokenKeeps ==
  ASSUME AccountsInv, NEW c \in Calls, NEW s \in Tokens, GetRefreshToken(c, s)
  PROVE  AccountsInv'
<1> USE DEF AccountsInv
<1> DEFINE next == [step |-> "issue", session |-> s, age |-> 0]
<1>1. /\ Live(s) /\ Goes(c, next)
      /\ UNCHANGED <<users, sessions, access, granted, asked, changed, overtaken>>
  BY DEF GetRefreshToken
<1>2. next \in Call
  BY CallForms, Constants
<1>3. /\ calls' \in [Calls -> Call \union {None}] /\ calls'[c] = next
      /\ \A d \in Calls : d # c => calls'[d] = calls[d]
  BY <1>1, <1>2, GoesType
<1>4. /\ sessions[s] # None /\ -sessions[s].left <= 0
  BY <1>1, RowTypes DEF Live
<1>5. TypeOK'
  BY <1>1, <1>3 DEF TypeOK
<1>6. OneUserPerEmail' /\ SessionsThere' /\ RolesRead' /\ RolesHeld'
  BY <1>1, <1>3, <1>4 DEF OneUserPerEmail, SessionsThere, RolesRead, RolesHeld, At, Busy, Known
<1>7. RoleStalenessBounded' /\ SessionEnds' /\ RoleIsGranted' /\ ProfileKept'
  BY <1>1 DEF RoleStalenessBounded, SessionEnds, RoleIsGranted, ProfileKept, Known
<1> QED
  BY <1>5, <1>6, <1>7

(* A refresh ends with the role of this moment.                              *)
LEMMA RefreshAccessTokenKeeps ==
  ASSUME AccountsInv, NEW c \in Calls, RefreshAccessToken(c)
  PROVE  AccountsInv'
<1> USE DEF AccountsInv
<1> DEFINE s == calls[c].session
           i == sessions[s].user
           token == [user |-> i, role |-> users[i].role, session |-> s, age |-> 0]
<1>1. /\ At(c, "issue") /\ s \in Tokens /\ sessions[s] # None /\ calls[c].age \in 0..MaxCall
      /\ -sessions[s].left <= calls[c].age
      /\ UNCHANGED <<users, sessions, granted, asked, changed, overtaken>>
  BY CallTypes DEF RefreshAccessToken, SessionsThere, At
<1>2. i \in Ids /\ Known(i) /\ users[i].role \in Roles /\ sessions[s].left \in Int
  BY <1>1, RowTypes DEF OneUserPerEmail
<1>3. /\ token \in AccessToken /\ token.user = i /\ token.role = users[i].role
      /\ token.session = s /\ token.age = 0
  BY <1>1, <1>2, Constants DEF AccessToken
<1>4. access' = access \union {token} /\ Goes(c, None)
  BY Constants DEF RefreshAccessToken, Issue
<1>5. /\ calls' \in [Calls -> Call \union {None}] /\ calls'[c] = None
      /\ \A d \in Calls : d # c => calls'[d] = calls[d]
  BY <1>4, GoesType
<1> HIDE DEF s, i, token
<1>6. TypeOK'
  BY <1>1, <1>3, <1>4, <1>5 DEF TypeOK
<1>7. OneUserPerEmail'
  BY <1>1, <1>2, <1>3, <1>4, <1>5 DEF OneUserPerEmail, Known, Busy
<1>8. SessionsThere' /\ RolesRead' /\ RolesHeld'
  BY <1>1, <1>3, <1>4, <1>5 DEF SessionsThere, RolesRead, RolesHeld, At, Busy
<1>9. RoleStalenessBounded'
  BY <1>1, <1>3, <1>4 DEF RoleStalenessBounded
<1>10. SessionEnds'
  BY <1>1, <1>2, <1>3, <1>4, Constants DEF SessionEnds
<1>11. RoleIsGranted' /\ ProfileKept'
  BY <1>1 DEF RoleIsGranted, ProfileKept, Known
<1> QED
  BY <1>6, <1>7, <1>8, <1>9, <1>10, <1>11

(* A request that goes no further, and a logout.                             *)
LEMMA FailKeeps ==
  ASSUME AccountsInv, NEW c \in Calls, Fail(c)
  PROVE  AccountsInv'
<1> USE DEF AccountsInv
<1>1. UNCHANGED <<users, sessions, access, granted, asked, changed, overtaken>>
  BY DEF Fail
<1>2. /\ calls' \in [Calls -> Call \union {None}] /\ calls'[c] = None
      /\ \A d \in Calls : d # c => calls'[d] = calls[d]
  BY GoesType DEF Fail
<1>3. TypeOK'
  BY <1>1, <1>2 DEF TypeOK
<1>4. OneUserPerEmail' /\ SessionsThere' /\ RolesRead' /\ RolesHeld'
  BY <1>1, <1>2 DEF OneUserPerEmail, SessionsThere, RolesRead, RolesHeld, At, Busy, Known
<1>5. RoleStalenessBounded' /\ SessionEnds' /\ RoleIsGranted' /\ ProfileKept'
  BY <1>1 DEF RoleStalenessBounded, SessionEnds, RoleIsGranted, ProfileKept, Known
<1> QED
  BY <1>3, <1>4, <1>5

LEMMA RevokeTokenKeeps ==
  ASSUME AccountsInv, NEW s \in Tokens, RevokeToken(s)
  PROVE  AccountsInv'
<1> USE DEF AccountsInv
<1>1. /\ sessions[s] # None /\ sessions' = [sessions EXCEPT ![s].left = 0]
      /\ UNCHANGED <<users, access, calls, granted, asked, changed, overtaken>>
  BY DEF RevokeToken, Live
<1>2. sessions[s] \in Session /\ sessions \in [Tokens -> Session \union {None}]
  BY <1>1 DEF TypeOK
<1>3. /\ sessions' \in [Tokens -> Session \union {None}]
      /\ sessions'[s] # None /\ sessions'[s].left = 0 /\ sessions'[s].user = sessions[s].user
      /\ \A u \in Tokens : u # s => sessions'[u] = sessions[u]
  <2>1. [sessions[s] EXCEPT !.left = 0] \in Session
    BY <1>2, Constants DEF Session
  <2>2. sessions'[s] = [sessions[s] EXCEPT !.left = 0]
    BY <1>1, <1>2
  <2> QED
    BY <1>1, <1>2, <2>1, <2>2, NoneIsNothing DEF Session
<1>4. TypeOK'
  BY <1>1, <1>3 DEF TypeOK
<1>5. OneUserPerEmail'
  BY <1>1, <1>3 DEF OneUserPerEmail, Known, Busy
<1>6. SessionsThere'
  BY <1>1, <1>3, RowTypes, CallTypes DEF SessionsThere, At, Busy
<1>7. RolesRead' /\ RolesHeld'
  BY <1>1 DEF RolesRead, RolesHeld, At, Busy
<1>8. RoleStalenessBounded' /\ RoleIsGranted' /\ ProfileKept'
  BY <1>1 DEF RoleStalenessBounded, RoleIsGranted, ProfileKept, Known
<1>9. SessionEnds'
  BY <1>1, <1>3, RowTypes, Constants DEF SessionEnds
<1> QED
  BY <1>4, <1>5, <1>6, <1>7, <1>8, <1>9


LEMMA UpdateProfileKeeps ==
  ASSUME AccountsInv, NEW t \in access, NEW p \in Phones, UpdateProfile(t, p)
  PROVE  AccountsInv'
<1> USE DEF AccountsInv
<1> DEFINE i == t.user
<1>1. /\ i \in Ids /\ Known(i)
      /\ users' = [users EXCEPT ![i].phone = p] /\ asked' = [asked EXCEPT ![i] = p]
      /\ UNCHANGED <<sessions, access, calls, granted, changed, overtaken>>
  BY RowTypes DEF UpdateProfile, OneUserPerEmail
<1>2. users[i] \in UserRow /\ users \in [Ids -> UserRow \union {None}] /\ asked \in [Ids -> Phones]
  BY <1>1 DEF TypeOK, Known
<1> HIDE DEF i
<1>3. [users[i] EXCEPT !.phone = p] \in UserRow /\ users'[i] = [users[i] EXCEPT !.phone = p]
  BY <1>1, <1>2 DEF UserRow
<1>4. /\ users' \in [Ids -> UserRow \union {None}] /\ asked' \in [Ids -> Phones]
      /\ users'[i].role = users[i].role /\ users'[i].email = users[i].email
      /\ users'[i].phone = p /\ asked'[i] = p /\ users'[i] # None
      /\ \A j \in Ids : j # i => users'[j] = users[j] /\ asked'[j] = asked[j]
  BY <1>1, <1>2, <1>3, NoneIsNothing DEF UserRow
<1>5. \A j \in Ids : /\ users'[j] # None <=> users[j] # None
                     /\ users[j] # None => /\ users'[j].email = users[j].email
                                           /\ users'[j].role = users[j].role
  BY <1>1, <1>4 DEF Known
<1>6. TypeOK'
  BY <1>1, <1>4 DEF TypeOK
<1>7. OneUserPerEmail'
  <2>1. \A j, k \in Ids : Known(j)' /\ Known(k)' /\ users'[j].email = users'[k].email => j = k
    BY <1>5 DEF OneUserPerEmail, Known
  <2>2. \A u \in access' : users'[u.user] # None
    BY <1>1, <1>5, RowTypes DEF OneUserPerEmail, Known
  <2>3. \A u \in Tokens : sessions'[u] # None => users'[sessions'[u].user] # None
    BY <1>1, <1>5, RowTypes DEF OneUserPerEmail, Known
  <2>4. \A d \in Calls : Busy(d)' /\ calls'[d].step \in {"update", "save"} => users'[calls'[d].user] # None
    BY <1>1, <1>5, CallTypes DEF OneUserPerEmail, Known, Busy
  <2> QED
    BY <2>1, <2>2, <2>3, <2>4 DEF OneUserPerEmail, Known
<1>8. SessionsThere' /\ RolesHeld' /\ SessionEnds'
  BY <1>1 DEF SessionsThere, RolesHeld, SessionEnds, At, Busy
<1>9. RolesRead'
  <2> SUFFICES ASSUME NEW d \in Calls, At(d, "update") \/ At(d, "save"),
                      calls[d].role # users'[calls[d].user].role
               PROVE  changed[calls[d].user] <= calls[d].age
    BY <1>1 DEF RolesRead, At, Busy
  <2>1. calls[d].user \in Ids /\ Known(calls[d].user)
    BY CallTypes DEF At, OneUserPerEmail
  <2> QED
    BY <2>1, <1>5 DEF RolesRead, Known
<1>10. RoleStalenessBounded'
  <2> SUFFICES ASSUME NEW u \in access, u.role # users'[u.user].role
               PROVE  changed[u.user] <= u.age + MaxCall
    BY <1>1 DEF RoleStalenessBounded
  <2>1. u.user \in Ids /\ Known(u.user)
    BY RowTypes DEF OneUserPerEmail
  <2> QED
    BY <2>1, <1>5 DEF RoleStalenessBounded, Known
<1>11. RoleIsGranted'
  BY <1>1, <1>5 DEF RoleIsGranted, Known
<1>12. ProfileKept'
  BY <1>1, <1>4 DEF ProfileKept, Known
<1> QED
  BY <1>6, <1>7, <1>8, <1>9, <1>10, <1>11, <1>12

(* A role given by hand: logins that had read the row are overtaken.         *)
LEMMA GiveRoleKeeps ==
  ASSUME AccountsInv, NEW i \in Ids, NEW role \in Roles, GiveRole(i, role)
  PROVE  AccountsInv'
<1> USE DEF AccountsInv
<1>1. /\ Known(i)
      /\ users' = [users EXCEPT ![i].role = role] /\ granted' = [granted EXCEPT ![i] = role]
      /\ changed' = [changed EXCEPT ![i] = 0]
      /\ UNCHANGED <<sessions, access, calls, asked>>
  BY DEF GiveRole
<1>2. /\ users[i] \in UserRow /\ users \in [Ids -> UserRow \union {None}]
      /\ granted \in [Ids -> Roles] /\ changed \in [Ids -> 0..Horizon] /\ overtaken \subseteq Ids
  BY <1>1 DEF TypeOK, Known
<1>3. [users[i] EXCEPT !.role = role] \in UserRow /\ users'[i] = [users[i] EXCEPT !.role = role]
  BY <1>1, <1>2 DEF UserRow
<1>4. /\ users' \in [Ids -> UserRow \union {None}] /\ granted' \in [Ids -> Roles]
      /\ changed' \in [Ids -> 0..Horizon]
      /\ users'[i].role = role /\ users'[i].email = users[i].email
      /\ users'[i].phone = users[i].phone /\ users'[i] # None
      /\ granted'[i] = role /\ changed'[i] = 0
      /\ \A j \in Ids : j # i => /\ users'[j] = users[j] /\ granted'[j] = granted[j]
                                 /\ changed'[j] = changed[j]
  BY <1>1, <1>2, <1>3, NoneIsNothing, Constants DEF UserRow
<1>5. \A j \in Ids : /\ users'[j] # None <=> users[j] # None
                     /\ users[j] # None => /\ users'[j].email = users[j].email
                                           /\ users'[j].phone = users[j].phone
  BY <1>1, <1>4 DEF Known
<1>6. overtaken' \subseteq Ids /\ \A j \in Ids : j # i => (j \in overtaken' <=> j \in overtaken)
  BY <1>2 DEF GiveRole
<1>7. TypeOK'
  BY <1>1, <1>4, <1>6 DEF TypeOK
<1>8. OneUserPerEmail'
  <2>1. \A j, k \in Ids : Known(j)' /\ Known(k)' /\ users'[j].email = users'[k].email => j = k
    BY <1>5 DEF OneUserPerEmail, Known
  <2>2. \A u \in access' : users'[u.user] # None
    BY <1>1, <1>5, RowTypes DEF OneUserPerEmail, Known
  <2>3. \A u \in Tokens : sessions'[u] # None => users'[sessions'[u].user] # None
    BY <1>1, <1>5, RowTypes DEF OneUserPerEmail, Known
  <2>4. \A d \in Calls : Busy(d)' /\ calls'[d].step \in {"update", "save"} => users'[calls'[d].user] # None
    BY <1>1, <1>5, CallTypes DEF OneUserPerEmail, Known, Busy
  <2> QED
    BY <2>1, <2>2, <2>3, <2>4 DEF OneUserPerEmail, Known
<1>9. SessionsThere' /\ SessionEnds'
  BY <1>1 DEF SessionsThere, SessionEnds, At, Busy
<1>10. RolesRead'
  <2> SUFFICES ASSUME NEW d \in Calls, At(d, "update") \/ At(d, "save"),
                      calls[d].role # users'[calls[d].user].role
               PROVE  changed'[calls[d].user] <= calls[d].age
    BY <1>1 DEF RolesRead, At, Busy
  <2>1. calls[d].user \in Ids /\ calls[d].age \in 0..MaxCall
    BY CallTypes DEF At
  <2>2. CASE calls[d].user = i
    BY <2>1, <2>2, <1>4
  <2>3. CASE calls[d].user # i
    BY <2>1, <2>3, <1>4 DEF RolesRead
  <2> QED
    BY <2>2, <2>3
<1>11. RolesHeld'
  <2> SUFFICES ASSUME NEW d \in Calls, At(d, "update"),
                      calls[d].role # granted'[calls[d].user]
               PROVE  calls[d].user \in overtaken'
    BY <1>1 DEF RolesHeld, At, Busy
  <2>1. calls[d].user \in Ids
    BY CallTypes DEF At
  <2>2. CASE calls[d].user = i
    BY <2>2, <1>2 DEF GiveRole, HasRead, At
  <2>3. CASE calls[d].user # i
    BY <2>1, <2>3, <1>4, <1>6 DEF RolesHeld
  <2> QED
    BY <2>2, <2>3
<1>12. RoleStalenessBounded'
  <2> SUFFICES ASSUME NEW u \in access, u.role # users'[u.user].role
               PROVE  changed'[u.user] <= u.age + MaxCall
    BY <1>1 DEF RoleStalenessBounded
  <2>1. u.user \in Ids /\ u.age \in 0..AccessLife - 1
    BY RowTypes
  <2>2. CASE u.user = i
    BY <2>1, <2>2, <1>4, Constants
  <2>3. CASE u.user # i
    BY <2>1, <2>3, <1>4 DEF RoleStalenessBounded
  <2> QED
    BY <2>2, <2>3
<1>13. RoleIsGranted'
  BY <1>4, <1>5, <1>6 DEF RoleIsGranted, Known
<1>14. ProfileKept'
  BY <1>1, <1>5 DEF ProfileKept, Known
<1> QED
  BY <1>7, <1>8, <1>9, <1>10, <1>11, <1>12, <1>13, <1>14


(* Time: everything grows older by a tick, and an access token expires.      *)
LEMMA TickKeeps ==
  ASSUME AccountsInv, Tick
  PROVE  AccountsInv'
<1> USE DEF AccountsInv
<1>1. UNCHANGED <<users, granted, asked, overtaken>>
  BY DEF Tick
<1>2. \A i \in Ids : changed'[i] \in 0..Horizon /\ changed'[i] <= changed[i] + 1
  BY RowTypes, Constants DEF Tick
<1>3. \A t \in access' : \E u \in access :
        /\ t.user = u.user /\ t.role = u.role /\ t.session = u.session
        /\ t.age = u.age + 1 /\ t \in AccessToken
  <2> SUFFICES ASSUME NEW t \in access'
               PROVE  \E u \in access :
                        /\ t.user = u.user /\ t.role = u.role /\ t.session = u.session
                        /\ t.age = u.age + 1 /\ t \in AccessToken
    OBVIOUS
  <2>1. PICK u \in access : u.age + 1 < AccessLife /\ t = [u EXCEPT !.age = @ + 1]
    BY DEF Tick, Aged
  <2>2. u \in AccessToken /\ u.age \in 0..AccessLife - 1
    BY RowTypes
  <2>3. t \in AccessToken /\ t.user = u.user /\ t.role = u.role /\ t.session = u.session
        /\ t.age = u.age + 1
    BY <2>1, <2>2, Constants DEF AccessToken
  <2> QED
    BY <2>3
<1>4. ASSUME NEW s \in Tokens, sessions[s] # None
      PROVE  /\ sessions'[s] \in Session /\ sessions'[s] # None
             /\ sessions'[s].user = sessions[s].user
             /\ -sessions'[s].left <= -sessions[s].left + 1
  <2>1. sessions[s] \in Session /\ sessions[s].left \in -Horizon..RefreshLife
    BY <1>4, RowTypes
  <2>2. CASE sessions[s].left > -Horizon
    <3>1. sessions'[s] = [sessions[s] EXCEPT !.left = @ - 1]
      BY <1>4, <2>2 DEF Tick
    <3>2. /\ sessions'[s] \in Session /\ sessions'[s].user = sessions[s].user
          /\ sessions'[s].left = sessions[s].left - 1
      BY <2>1, <2>2, <3>1, Constants DEF Session
    <3> QED
      BY <2>1, <3>2, NoneIsNothing
  <2>3. CASE ~(sessions[s].left > -Horizon)
    BY <1>4, <2>1, <2>3, Constants DEF Tick
  <2> QED
    BY <2>2, <2>3
<1>5. \A s \in Tokens : sessions[s] = None => sessions'[s] = None
  BY DEF Tick
<1>6. ASSUME NEW c \in Calls, Busy(c)
      PROVE  /\ calls'[c] \in Call /\ calls'[c] # None /\ calls'[c].step = calls[c].step
             /\ calls'[c].age = calls[c].age + 1
             /\ calls[c].step \in {"update", "save"} =>
                  calls'[c].user = calls[c].user /\ calls'[c].role = calls[c].role
             /\ calls[c].step = "issue" => calls'[c].session = calls[c].session
  <2>1. calls[c] # None /\ calls'[c] = Older(calls[c]) /\ calls[c].age < MaxCall
    BY <1>6 DEF Tick, Busy
  <2>2. calls[c] \in Call /\ calls[c].age \in 0..MaxCall
    BY <1>6, CallTypes
  <2>3. /\ calls'[c] \in Call /\ calls'[c].step = calls[c].step
        /\ calls'[c].age = calls[c].age + 1
        /\ calls[c].step \in {"update", "save"} =>
             calls'[c].user = calls[c].user /\ calls'[c].role = calls[c].role
        /\ calls[c].step = "issue" => calls'[c].session = calls[c].session
    <3>1. CASE calls[c].step = "create"
      <4>1. calls'[c] = [calls[c] EXCEPT !.age = @ + 1]
        BY <2>1, <3>1 DEF Older
      <4>2. calls[c] \in [step : {"create"}, email : Emails, age : 0..MaxCall]
        BY <2>2, <3>1 DEF Call
      <4>3. calls'[c] \in [step : {"create"}, email : Emails, age : 0..MaxCall]
        BY <2>1, <2>2, <4>1, <4>2, Constants
      <4> QED
        BY <2>2, <3>1, <4>1, <4>2, <4>3 DEF Call
    <3>2. CASE calls[c].step = "update"
      <4>1. calls'[c] = [calls[c] EXCEPT !.age = @ + 1]
        BY <2>1, <3>2 DEF Older
      <4>2. calls[c] \in [step : {"update"}, user : Ids, role : Roles, phone : Phones, age : 0..MaxCall]
        BY <2>2, <3>2 DEF Call
      <4>3. calls'[c] \in [step : {"update"}, user : Ids, role : Roles, phone : Phones, age : 0..MaxCall]
        BY <2>1, <2>2, <4>1, <4>2, Constants
      <4> QED
        BY <2>2, <3>2, <4>1, <4>2, <4>3 DEF Call
    <3>3. CASE calls[c].step = "save"
      <4>1. calls'[c] = [calls[c] EXCEPT !.age = @ + 1, !.signed = @ + 1]
        BY <2>1, <3>3 DEF Older
      <4>2. calls[c] \in [step : {"save"}, user : Ids, role : Roles, age : 0..MaxCall, signed : 0..MaxCall]
        BY <2>2, <3>3 DEF Call
      <4>3. calls[c].signed <= calls[c].age
        BY <1>6, <3>3, CallTypes
      <4>4. /\ calls'[c].step = "save" /\ calls'[c].user = calls[c].user
            /\ calls'[c].role = calls[c].role /\ calls'[c].age = calls[c].age + 1
            /\ calls'[c].signed = calls[c].signed + 1
            /\ calls'[c] = [step |-> "save", user |-> calls[c].user, role |-> calls[c].role,
                            age |-> calls[c].age + 1, signed |-> calls[c].signed + 1]
        BY <4>1, <4>2
      <4>5. /\ calls[c].user \in Ids /\ calls[c].role \in Roles
            /\ calls[c].age + 1 \in 0..MaxCall /\ calls[c].signed + 1 \in 0..MaxCall
            /\ calls[c].signed + 1 <= calls[c].age + 1
        BY <2>1, <2>2, <4>2, <4>3, Constants
      <4>6. calls'[c] \in Call
        BY <4>4, <4>5, CallForms
      <4> QED
        BY <3>3, <4>4, <4>6
    <3>4. CASE calls[c].step = "issue"
      <4>1. calls'[c] = [calls[c] EXCEPT !.age = @ + 1]
        BY <2>1, <3>4 DEF Older
      <4>2. calls[c] \in [step : {"issue"}, session : Tokens, age : 0..MaxCall]
        BY <2>2, <3>4 DEF Call
      <4>3. calls'[c] \in [step : {"issue"}, session : Tokens, age : 0..MaxCall]
        BY <2>1, <2>2, <4>1, <4>2, Constants
      <4> QED
        BY <2>2, <3>4, <4>1, <4>2, <4>3 DEF Call
    <3> QED
      BY <1>6, <3>1, <3>2, <3>3, <3>4, CallTypes
  <2> QED
    BY <2>3, NoneIsNothing
<1>7. \A c \in Calls : ~Busy(c) => calls'[c] = None
  BY DEF Tick, Older, Busy
<1>8. TypeOK'
  <2>1. sessions' \in [Tokens -> Session \union {None}]
    BY <1>4, <1>5 DEF Tick
  <2>2. calls' \in [Calls -> Call \union {None}]
    BY <1>6, <1>7 DEF Tick
  <2>3. changed' \in [Ids -> 0..Horizon]
    BY <1>2 DEF Tick
  <2>4. access' \subseteq AccessToken
    BY <1>3
  <2> QED
    BY <1>1, <2>1, <2>2, <2>3, <2>4 DEF TypeOK
<1>9. OneUserPerEmail'
  <2>1. \A t \in access' : users'[t.user] # None
    BY <1>1, <1>3 DEF OneUserPerEmail, Known
  <2>2. \A s \in Tokens : sessions'[s] # None => users'[sessions'[s].user] # None
    BY <1>1, <1>4, <1>5 DEF OneUserPerEmail, Known
  <2>3. \A d \in Calls : Busy(d)' /\ calls'[d].step \in {"update", "save"} => users'[calls'[d].user] # None
    BY <1>1, <1>6, <1>7 DEF OneUserPerEmail, Known, Busy
  <2> QED
    BY <1>1, <2>1, <2>2, <2>3 DEF OneUserPerEmail, Known
<1>10. SessionsThere'
  <2>1. \A t \in access' : sessions'[t.session] # None
    <3> SUFFICES ASSUME NEW t \in access' PROVE sessions'[t.session] # None
      OBVIOUS
    <3>1. PICK u \in access : t.session = u.session
      BY <1>3
    <3> QED
      BY <3>1, <1>4, RowTypes DEF SessionsThere
  <2>2. ASSUME NEW d \in Calls, calls'[d] # None, calls'[d].step = "issue"
        PROVE  /\ sessions'[calls'[d].session] # None
               /\ -sessions'[calls'[d].session].left <= calls'[d].age
    <3> DEFINE s == calls[d].session
    <3>1. At(d, "issue") /\ calls'[d].session = s /\ calls'[d].age = calls[d].age + 1
      BY <2>2, <1>6, <1>7 DEF At
    <3>2. s \in Tokens /\ calls[d].age \in 0..MaxCall
      BY <3>1, CallTypes DEF At
    <3>3. sessions[s] # None /\ -sessions[s].left <= calls[d].age
      BY <3>1 DEF SessionsThere
    <3> HIDE DEF s
    <3>4. sessions'[s] # None /\ -sessions'[s].left <= -sessions[s].left + 1
      BY <3>2, <3>3, <1>4
    <3>5. sessions[s].left \in Int /\ sessions'[s].left \in Int
      BY <3>2, <3>3, <1>4, RowTypes, Constants DEF Session
    <3> QED
      BY <3>1, <3>2, <3>3, <3>4, <3>5
  <2> QED
    BY <2>1, <2>2 DEF SessionsThere, At, Busy
<1>11. RolesRead'
  <2> SUFFICES ASSUME NEW d \in Calls, calls'[d] # None, calls'[d].step \in {"update", "save"},
                      calls'[d].role # users[calls'[d].user].role
               PROVE  changed'[calls'[d].user] <= calls'[d].age
    BY <1>1 DEF RolesRead, At, Busy
  <2> DEFINE j == calls[d].user
  <2>1. /\ At(d, "update") \/ At(d, "save")
        /\ calls'[d].user = j /\ calls'[d].role = calls[d].role
        /\ calls'[d].age = calls[d].age + 1
    BY <1>6, <1>7 DEF At
  <2>2. j \in Ids /\ calls[d].age \in 0..MaxCall
    BY <2>1, CallTypes DEF At
  <2>3. changed[j] <= calls[d].age
    BY <2>1 DEF RolesRead
  <2> HIDE DEF j
  <2>4. changed'[j] <= changed[j] + 1 /\ changed[j] \in 0..Horizon /\ changed'[j] \in 0..Horizon
    BY <2>2, <1>2, RowTypes
  <2> QED
    BY <2>1, <2>2, <2>3, <2>4, Constants
<1>12. RolesHeld'
  BY <1>1, <1>6, <1>7 DEF RolesHeld, At, Busy
<1>13. RoleStalenessBounded' /\ SessionEnds'
  <2> SUFFICES ASSUME NEW t \in access'
               PROVE  /\ t.role # users[t.user].role => changed'[t.user] <= t.age + MaxCall
                      /\ -sessions'[t.session].left <= t.age + MaxCall
    BY <1>1 DEF RoleStalenessBounded, SessionEnds
  <2>1. PICK u \in access : /\ t.user = u.user /\ t.role = u.role /\ t.session = u.session
                            /\ t.age = u.age + 1
    BY <1>3
  <2>2. u.user \in Ids /\ u.session \in Tokens /\ u.age \in 0..AccessLife - 1
    BY RowTypes
  <2>3. u.role # users[u.user].role => changed[u.user] <= u.age + MaxCall
    BY DEF RoleStalenessBounded
  <2>4. -sessions[u.session].left <= u.age + MaxCall /\ sessions[u.session] # None
    BY DEF SessionEnds, SessionsThere
  <2>5. changed'[u.user] <= changed[u.user] + 1 /\ changed[u.user] \in 0..Horizon
          /\ changed'[u.user] \in 0..Horizon
    BY <2>2, <1>2, RowTypes
  <2>6. /\ -sessions'[u.session].left <= -sessions[u.session].left + 1
        /\ sessions[u.session].left \in Int /\ sessions'[u.session].left \in Int
    BY <2>2, <2>4, <1>4, RowTypes, Constants DEF Session
  <2>7. t.role # users[t.user].role => changed'[t.user] <= t.age + MaxCall
    BY <2>1, <2>2, <2>3, <2>5, Constants
  <2>8. -sessions'[t.session].left <= t.age + MaxCall
    BY <2>1, <2>2, <2>4, <2>6, Constants
  <2> QED
    BY <2>7, <2>8
<1>14. RoleIsGranted' /\ ProfileKept'
  BY <1>1 DEF RoleIsGranted, ProfileKept, Known
<1> QED
  BY <1>8, <1>9, <1>10, <1>11, <1>12, <1>13, <1>14

-----------------------------------------------------------------------------
(* Every step keeps the invariant.                                         *)
LEMMA StepKeeps == AccountsInv /\ [Next]_vars => AccountsInv'
<1> SUFFICES ASSUME AccountsInv, [Next]_vars PROVE AccountsInv'
  OBVIOUS
<1>1. CASE \E c \in Calls, e \in Emails : FindUser(c, e)
  BY <1>1, FindUserKeeps
<1>2. CASE \E c \in Calls, i \in Ids : CreateUser(c, i)
  BY <1>2, CreateUserKeeps
<1>3. CASE \E c \in Calls : UpdateUser(c)
  BY <1>3, UpdateUserKeeps
<1>4. CASE \E c \in Calls, s \in Tokens : SaveRefreshToken(c, s)
  BY <1>4, SaveRefreshTokenKeeps
<1>5. CASE \E c \in Calls, s \in Tokens : GetRefreshToken(c, s)
  BY <1>5, GetRefreshTokenKeeps
<1>6. CASE \E c \in Calls : RefreshAccessToken(c)
  BY <1>6, RefreshAccessTokenKeeps
<1>7. CASE \E c \in Calls : Fail(c)
  BY <1>7, FailKeeps
<1>8. CASE \E s \in Tokens : RevokeToken(s)
  BY <1>8, RevokeTokenKeeps
<1>9. CASE \E t \in access, p \in Phones : UpdateProfile(t, p)
  BY <1>9, UpdateProfileKeeps
<1>10. CASE \E i \in Ids, role \in Roles : GiveRole(i, role)
  BY <1>10, GiveRoleKeeps
<1>11. CASE Tick
  BY <1>11, TickKeeps
<1>12. CASE UNCHANGED vars
  <2>1. AccountsInv
    OBVIOUS
  <2>2. TypeOK' /\ OneUserPerEmail'
    BY <2>1, <1>12 DEF AccountsInv, vars, TypeOK, OneUserPerEmail, Known, Busy
  <2>3. SessionsThere' /\ RolesRead' /\ RolesHeld'
    BY <2>1, <1>12 DEF AccountsInv, vars, SessionsThere, RolesRead, RolesHeld, At, Busy
  <2>4. RoleStalenessBounded' /\ SessionEnds' /\ RoleIsGranted' /\ ProfileKept'
    BY <2>1, <1>12 DEF AccountsInv, vars, RoleStalenessBounded, SessionEnds, RoleIsGranted,
       ProfileKept, Known
  <2> QED
    BY <2>2, <2>3, <2>4 DEF AccountsInv
<1> QED
  BY <1>1, <1>2, <1>3, <1>4, <1>5, <1>6, <1>7, <1>8, <1>9, <1>10, <1>11, <1>12 DEF Next

(* Type correctness: no access token is older than its life, no request     *)
(* holds what it did not read.                                             *)
THEOREM AccountsInvariant == Spec => []TypeOK
<1>1. Spec => []AccountsInv
  BY InitAccounts, StepKeeps, PTL DEF Spec
<1>2. AccountsInv => TypeOK
  BY DEF AccountsInv
<1> QED
  BY <1>1, <1>2, PTL

(* However many first logins of an address race, one user comes of them,     *)
(* and every token names a user.                                           *)
THEOREM UsersAreUnique == Spec => []OneUserPerEmail
<1>1. Spec => []AccountsInv
  BY InitAccounts, StepKeeps, PTL DEF Spec
<1>2. AccountsInv => OneUserPerEmail
  BY DEF AccountsInv
<1> QED
  BY <1>1, <1>2, PTL

(* A role that was taken away is believed for at most the life of an access *)
(* token and the duration of one request.                                  *)
THEOREM RolesExpire == Spec => []RoleStalenessBounded
<1>1. Spec => []AccountsInv
  BY InitAccounts, StepKeeps, PTL DEF Spec
<1>2. AccountsInv => RoleStalenessBounded
  BY DEF AccountsInv
<1> QED
  BY <1>1, <1>2, PTL

(* So is a session that was revoked or has expired.                          *)
THEOREM SessionsExpire == Spec => []SessionEnds
<1>1. Spec => []AccountsInv
  BY InitAccounts, StepKeeps, PTL DEF Spec
<1>2. AccountsInv => SessionEnds
  BY DEF AccountsInv
<1> QED
  BY <1>1, <1>2, PTL

(* Only a login that had read the row can undo a role given by hand, and no *)
(* login undoes a phone.                                                   *)
THEOREM OnlyOvertakenLoginsUndo == Spec => [](RoleIsGranted /\ ProfileKept)
<1>1. Spec => []AccountsInv
  BY InitAccounts, StepKeeps, PTL DEF Spec
<1>2. AccountsInv => RoleIsGranted /\ ProfileKept
  BY DEF AccountsInv
<1> QED
  BY <1>1, <1>2, PTL

=============================================================================
