---------------------------- MODULE AccountsProofs ----------------------------
(***************************************************************************)
(* Proofs about Accounts: an address that is verified gives one wallet, an *)
(* administrator remains, a decision on a refund stays.                    *)
(***************************************************************************)
EXTENDS Accounts, TLAPS

\* Whoever has a token, or whose request is past its SELECT, has a row.
Known ==
  /\ \A a \in access : account[a[1]] # Nothing
  /\ \A e \in refresh : account[e] # Nothing
  /\ \A r \in Requests :
       pc[r] \in {"remail", "verify", "wallet", "enable"} => account[User(r)] # Nothing

\* A wallet that is about to be made is the first one, and no other handler is
\* about to make one for the same user.
WalletDue ==
  /\ \A r \in Requests :
       pc[r] = "wallet" => account[User(r)].verified /\ given[User(r)] = 0
  /\ \A q, r \in Requests :
       pc[q] = "wallet" /\ pc[r] = "wallet" /\ User(q) = User(r) => q = r
  /\ \A e \in Emails :
       /\ given[e] <= 1
       /\ given[e] = 1 => account[e] # Nothing /\ account[e].verified

AccountsInv == TypeOK /\ Known /\ WalletDue

\* New rows have the columns of their tables, and so have changed ones.
LEMMA NewUserType == \A role \in Roles, t \in Nat : NewUser(role, t) \in UserRows
BY DEF NewUser, UserRows

LEMMA NewRefundType == \A t \in Nat : NewRefund(t) \in RefundRows
BY DEF NewRefund, RefundRows

LEMMA NoRequestType == NoRequest \in [user : Emails, token : Nat, role : Roles]
BY AccountConstants DEF NoRequest, Roles

LEMMA TokenUserType ==
  ASSUME NEW row \in UserRows, NEW t \in Nat, NEW b \in BOOLEAN
  PROVE  /\ [row EXCEPT !.token = t, !.live = b] \in UserRows
         /\ [row EXCEPT !.live = b] \in UserRows
         /\ [row EXCEPT !.verified = TRUE, !.token = t, !.live = b] \in UserRows
BY DEF UserRows

LEMMA FactorUserType ==
  ASSUME NEW row \in UserRows, NEW role \in Roles
  PROVE  /\ [row EXCEPT !.secret = TRUE] \in UserRows
         /\ [row EXCEPT !.enabled = TRUE] \in UserRows
         /\ [row EXCEPT !.role = role, !.enabled = FALSE, !.secret = FALSE] \in UserRows
BY DEF UserRows

LEMMA RefundType ==
  ASSUME NEW row \in RefundRows, NEW s \in Reviewed
  PROVE  /\ [row EXCEPT !.verified = TRUE, !.status = "pending", !.token = 0] \in RefundRows
         /\ [row EXCEPT !.status = s] \in RefundRows
BY DEF RefundRows

\* Every row that is read and written has the columns of its table.
LEMMA TypeStep == AccountsInv /\ [Next]_vars => TypeOK'
<1>. SUFFICES ASSUME AccountsInv, [Next]_vars PROVE TypeOK'
  OBVIOUS
<1>. USE DEF AccountsInv, TypeOK
<1>1. CASE Start
  <2>1. NewToken => tokens' \in Nat
    BY AccountConstants DEF NewToken
  <2>2. account' \in [Emails -> UserRows \cup {Nothing}] /\ tokens' \in Nat
    BY <1>1, <2>1, NewUserType, AccountConstants DEF Start, Roles
  <2>. QED
    BY <1>1, <2>2 DEF Start, grants, requestVars
<1>2. CASE Stop
  <2>1. faults' \in Nat
    BY <1>2 DEF Stop, Fault
  <2>2. req' \in [Requests -> [user : Emails, token : Nat, role : Roles]]
    BY <1>2, NoRequestType DEF Stop
  <2>. QED
    BY <1>2, <2>1, <2>2 DEF Stop, userVars, grants
<1>3. CASE EngineRefund
  <2>1. refund' \in [RefundIds -> RefundRows \cup {Nothing}]
    BY <1>3, NewRefundType DEF EngineRefund
  <2>. QED
    BY <1>3, <2>1 DEF EngineRefund, userVars, grants, requestVars, countVars
<1>4. CASE UNCHANGED vars
  BY <1>4 DEF vars, userVars, grants, requestVars, countVars
<1>5. ASSUME NEW r \in Requests, NEW label \in {"idle", "insert", "remail", "verify", "wallet", "enable", "refund"},
             NEW request \in [user : Emails, token : Nat, role : Roles],
             Serve(r, label, request)
      PROVE  /\ pc' \in [Requests -> {"idle", "insert", "remail", "verify", "wallet", "enable", "refund"}]
             /\ req' \in [Requests -> [user : Emails, token : Nat, role : Roles]]
  BY <1>5 DEF Serve
<1>6. ASSUME NEW r \in Requests, NEW label \in {"insert", "remail", "verify", "enable", "refund"},
             NEW request \in [user : Emails, token : Nat, role : Roles],
             Begin(r, label, request)
      PROVE  TypeOK'
  BY <1>5, <1>6 DEF Begin, userVars, grants, countVars
<1>7. ASSUME NEW r \in Requests, NEW e \in Emails,
             Signup(r, e) \/ AskForMail(r, e) \/ CheckCode(r, e) \/ RequestRefund(r, e)
      PROVE  TypeOK'
  <2>1. For(e) \in [user : Emails, token : Nat, role : Roles]
    BY NoRequestType DEF For
  <2>. QED
    BY <1>6, <1>7, <2>1 DEF Signup, AskForMail, CheckCode, RequestRefund
<1>8. ASSUME NEW r \in Requests, NEW t \in 1..MaxTokens, FindToken(r, t)
      PROVE  TypeOK'
  <2>1. PICK e \in Emails :
          /\ Awaits(e, t)
          /\ Begin(r, "verify",
                   [NoRequest EXCEPT !.user = e, !.token = t, !.role = account[e].role])
    BY <1>8 DEF FindToken
  <2>2. account[e] \in UserRows /\ t \in Nat
    BY <2>1, AccountConstants DEF Awaits
  <2>3. [NoRequest EXCEPT !.user = e, !.token = t, !.role = account[e].role]
          \in [user : Emails, token : Nat, role : Roles]
    BY <2>2, NoRequestType DEF UserRows
  <2>. QED
    BY <1>6, <2>1, <2>3
<1>9. ASSUME NEW r \in Requests, InsertUser(r)
      PROVE  TypeOK'
  <2>1. NewToken => tokens' \in Nat
    BY AccountConstants DEF NewToken
  <2>2. account' \in [Emails -> UserRows \cup {Nothing}] /\ tokens' \in Nat
    BY <1>9, <2>1, NewUserType DEF InsertUser, User, Roles
  <2>. QED
    BY <1>5, <1>9, <2>2, NoRequestType DEF InsertUser, grants
<1>10. ASSUME NEW r \in Requests, Remail(r)
       PROVE  TypeOK'
  <2>1. NewToken => tokens' \in Nat
    BY AccountConstants DEF NewToken
  <2>2. account[User(r)] \in UserRows /\ User(r) \in Emails
    BY <1>10 DEF Remail, Known, User
  <2>3. account' \in [Emails -> UserRows \cup {Nothing}] /\ tokens' \in Nat
    BY <1>10, <2>1, <2>2, TokenUserType DEF Remail
  <2>. QED
    BY <1>5, <1>10, <2>3, NoRequestType DEF Remail, grants
<1>11. ASSUME NEW r \in Requests, VerifyEmail(r)
       PROVE  TypeOK'
  <2>1. account' \in [Emails -> UserRows \cup {Nothing}]
    <3>1. CASE Awaits(User(r), req[r].token)
      <4>1. account[User(r)] \in UserRows
        BY <3>1 DEF Awaits, User
      <4>2. [account[User(r)] EXCEPT !.verified = TRUE, !.token = 0, !.live = FALSE]
              \in UserRows
        BY <4>1, TokenUserType
      <4>3. account' = [account EXCEPT ![User(r)] =
              [account[User(r)] EXCEPT !.verified = TRUE, !.token = 0, !.live = FALSE]]
        BY <1>11, <3>1, <4>1 DEF VerifyEmail, User
      <4>. QED
        BY <4>2, <4>3
    <3>2. CASE ~Awaits(User(r), req[r].token)
      BY <1>11, <3>2 DEF VerifyEmail
    <3>. QED
      BY <3>1, <3>2
  <2>2. /\ pc' \in [Requests -> {"idle", "insert", "remail", "verify", "wallet", "enable", "refund"}]
        /\ req' \in [Requests -> [user : Emails, token : Nat, role : Roles]]
    BY <1>5, <1>11, NoRequestType DEF VerifyEmail
  <2>. QED
    BY <1>11, <2>1, <2>2 DEF VerifyEmail, grants, countVars
<1>12. ASSUME NEW r \in Requests, FirstWallet(r)
       PROVE  TypeOK'
  BY <1>5, <1>12, NoRequestType DEF FirstWallet, User, grants, countVars
<1>13. ASSUME NEW r \in Requests, Enable2fa(r)
       PROVE  TypeOK'
  <2>1. account[User(r)] \in UserRows /\ User(r) \in Emails
    BY <1>13 DEF Enable2fa, Known, User
  <2>2. account' \in [Emails -> UserRows \cup {Nothing}]
    BY <1>13, <2>1, FactorUserType DEF Enable2fa
  <2>. QED
    BY <1>5, <1>13, <2>2, NoRequestType DEF Enable2fa, grants, countVars
<1>14. ASSUME NEW r \in Requests, InsertRefund(r)
       PROVE  TypeOK'
  <2>1. NewToken => tokens' \in Nat
    BY AccountConstants DEF NewToken
  <2>2. refund' \in [RefundIds -> RefundRows \cup {Nothing}] /\ tokens' \in Nat
    BY <1>14, <2>1, NewRefundType DEF InsertRefund
  <2>. QED
    BY <1>5, <1>14, <2>2, NoRequestType DEF InsertRefund, userVars, grants
<1>15. ASSUME NEW r \in Requests, CallFails(r)
       PROVE  TypeOK'
  BY <1>5, <1>15, NoRequestType DEF CallFails, Fault, userVars, grants
<1>16. ASSUME NEW e \in Emails, NEW role \in Roles, NEW kinds, Issue(e, role, kinds)
       PROVE  TypeOK'
  <2>1. access' \subseteq Emails \X Roles /\ refresh' \subseteq Emails
    BY <1>16 DEF Issue
  <2>. QED
    BY <1>16, <2>1 DEF Issue, userVars, requestVars, countVars
<1>17. ASSUME NEW e \in Emails, SignupAgain(e) \/ Login(e) \/ Refresh(e)
       PROVE  TypeOK'
  <2>1. CASE SignupAgain(e) \/ Login(e)
    BY <1>16, <2>1 DEF SignupAgain, Login, Roles
  <2>2. CASE Refresh(e)
    <3>1. account[e] \in UserRows
      BY <2>2 DEF Refresh, Known
    <3>. QED
      BY <1>16, <2>2, <3>1 DEF Refresh, UserRows
  <2>. QED
    BY <1>17, <2>1, <2>2
<1>18. ASSUME NEW e \in Emails, ActsAtAll(e)
       PROVE  account[e] \in UserRows
  BY <1>18 DEF ActsAtAll, Acts, Known
<1>19. ASSUME NEW e \in Emails, ResendVerification(e)
       PROVE  TypeOK'
  <2>1. NewToken => tokens' \in Nat
    BY AccountConstants DEF NewToken
  <2>2. account' \in [Emails -> UserRows \cup {Nothing}] /\ tokens' \in Nat
    BY <1>18, <1>19, <2>1, TokenUserType DEF ResendVerification
  <2>. QED
    BY <1>19, <2>2 DEF ResendVerification, grants, requestVars
<1>20. ASSUME NEW e \in Emails, TokenExpires(e)
       PROVE  TypeOK'
  <2>1. account' \in [Emails -> UserRows \cup {Nothing}]
    BY <1>20, TokenUserType DEF TokenExpires
  <2>. QED
    BY <1>20, <2>1 DEF TokenExpires, Fault, grants, requestVars
<1>21. ASSUME NEW e \in Emails, CreateWallet(e)
       PROVE  TypeOK'
  BY <1>21 DEF CreateWallet, grants, requestVars, countVars
<1>22. ASSUME NEW e \in Emails, Setup2fa(e)
       PROVE  TypeOK'
  <2>1. account' \in [Emails -> UserRows \cup {Nothing}]
    <3>1. account[e] \in UserRows
      BY <1>18, <1>22 DEF Setup2fa
    <3>2. [account[e] EXCEPT !.secret = TRUE] \in UserRows
      BY <3>1, FactorUserType DEF Roles
    <3>. QED
      BY <1>22, <3>2 DEF Setup2fa
  <2>. QED
    BY <1>22, <2>1 DEF Setup2fa, grants, requestVars, countVars
<1>23. ASSUME NEW e \in Emails, NEW f \in Emails, NEW role \in Roles, UpdateRole(e, f, role)
       PROVE  TypeOK'
  <2>1. account' \in [Emails -> UserRows \cup {Nothing}]
    BY <1>23, FactorUserType DEF UpdateRole, NewRole
  <2>. QED
    BY <1>23, <2>1 DEF UpdateRole, NewRole, grants, requestVars, countVars
<1>24. ASSUME NEW e \in Emails, NEW i \in RefundIds, NEW s \in Reviewed, ReviewRefund(e, i, s)
       PROVE  TypeOK'
  <2>1. refund[i] \in RefundRows
    BY <1>24 DEF ReviewRefund
  <2>2. refund' \in [RefundIds -> RefundRows \cup {Nothing}]
    BY <1>24, <2>1, RefundType DEF ReviewRefund
  <2>. QED
    BY <1>24, <2>2 DEF ReviewRefund, userVars, grants, requestVars, countVars
<1>25. ASSUME NEW i \in RefundIds, VerifyRefund(i)
       PROVE  TypeOK'
  <2>1. refund' \in [RefundIds -> RefundRows \cup {Nothing}]
    <3>1. refund[i] \in RefundRows
      BY <1>25 DEF VerifyRefund, Confirm
    <3>2. [refund[i] EXCEPT !.verified = TRUE, !.status = "pending", !.token = 0]
            \in RefundRows
      BY <3>1, RefundType DEF Reviewed
    <3>. QED
      BY <1>25, <3>2 DEF VerifyRefund, Confirm
  <2>. QED
    BY <1>25, <2>1 DEF VerifyRefund, Confirm, userVars, grants, requestVars, countVars
<1>. QED
  BY <1>1, <1>2, <1>3, <1>4, <1>7, <1>8, <1>9, <1>10, <1>11, <1>12, <1>13, <1>14, <1>15,
     <1>17, <1>19, <1>20, <1>21, <1>22, <1>23, <1>24, <1>25
     DEF Next, Handle

\* The actions that write table users.
LEMMA UserWriters ==
  [Next]_vars =>
    \/ account' = account
    \/ Start
    \/ \E r \in Requests : InsertUser(r) \/ Remail(r) \/ VerifyEmail(r) \/ Enable2fa(r)
    \/ \E e \in Emails : ResendVerification(e) \/ TokenExpires(e) \/ Setup2fa(e)
    \/ \E e, f \in Emails, role \in Roles : UpdateRole(e, f, role)
<1>1. \A r \in Requests, e \in Emails :
        Signup(r, e) \/ AskForMail(r, e) \/ CheckCode(r, e) \/ RequestRefund(r, e)
          => account' = account
  BY DEF Signup, AskForMail, CheckCode, RequestRefund, Begin, userVars
<1>2. \A r \in Requests, t \in 1..MaxTokens : FindToken(r, t) => account' = account
  BY DEF FindToken, Begin, userVars
<1>3. \A r \in Requests :
        FirstWallet(r) \/ InsertRefund(r) \/ CallFails(r) => account' = account
  BY DEF FirstWallet, InsertRefund, CallFails, userVars
<1>4. \A e \in Emails :
        SignupAgain(e) \/ Login(e) \/ Refresh(e) \/ CreateWallet(e)
          => account' = account
  BY DEF SignupAgain, Login, Refresh, CreateWallet, Issue, userVars
<1>5. \A e \in Emails, i \in RefundIds, s \in Reviewed :
        ReviewRefund(e, i, s) => account' = account
  BY DEF ReviewRefund, userVars
<1>6. \A i \in RefundIds : VerifyRefund(i) => account' = account
  BY DEF VerifyRefund, Confirm, userVars
<1>7. Stop \/ EngineRefund \/ UNCHANGED vars => account' = account
  BY DEF Stop, EngineRefund, vars, userVars
<1>. QED
  BY <1>1, <1>2, <1>3, <1>4, <1>5, <1>6, <1>7 DEF Next, Handle

\* Nobody is removed from table users, no address loses its verification, and
\* only an administrator's call changes a role.
UserStays(e) ==
  account[e] # Nothing =>
    /\ account'[e] # Nothing
    /\ account[e].verified => account'[e].verified
    /\ \/ account'[e].role = account[e].role
       \/ \E a \in Emails, role \in Roles : UpdateRole(a, e, role)

LEMMA UsersStay == AccountsInv /\ [Next]_vars => \A e \in Emails : UserStays(e)
<1>. SUFFICES ASSUME AccountsInv, [Next]_vars, NEW e \in Emails PROVE UserStays(e)
  OBVIOUS
<1>. USE DEF AccountsInv, TypeOK, UserStays
<1>1. ASSUME NEW u \in Emails, account[u] = Nothing, NEW row,
             account' = [account EXCEPT ![u] = row]
      PROVE  UserStays(e)
  BY <1>1
<1>2. ASSUME NEW u \in Emails, NEW row \in UserRows,
             account[u].verified => row.verified, row.role = account[u].role,
             account' = [account EXCEPT ![u] = row]
      PROVE  UserStays(e)
  BY <1>2, AccountConstants
<1>3. CASE account' = account
  BY <1>3
<1>4. CASE Start
  BY <1>1, <1>3, <1>4, AccountConstants DEF Start
<1>5. ASSUME NEW r \in Requests, InsertUser(r)
      PROVE  UserStays(e)
  <2>1. User(r) \in Emails
    BY DEF User
  <2>. QED
    BY <1>1, <1>3, <1>5, <2>1 DEF InsertUser
<1>6. ASSUME NEW r \in Requests, Remail(r)
      PROVE  UserStays(e)
  <2>1. User(r) \in Emails /\ account[User(r)] \in UserRows
    BY <1>6 DEF User, Known, Remail
  <2>2. tokens' \in Nat
    BY <1>6 DEF Remail, NewToken
  <2>3. LET row == [account[User(r)] EXCEPT !.token = tokens', !.live = TRUE]
        IN /\ row \in UserRows /\ row.verified = account[User(r)].verified
           /\ row.role = account[User(r)].role
    BY <2>1, <2>2 DEF UserRows
  <2>4. account' = [account EXCEPT ![User(r)] =
                      [account[User(r)] EXCEPT !.token = tokens', !.live = TRUE]]
    BY <1>6 DEF Remail
  <2>. QED
    BY <1>2, <2>1, <2>3, <2>4
<1>7. ASSUME NEW r \in Requests, VerifyEmail(r)
      PROVE  UserStays(e)
  <2>1. CASE Awaits(User(r), req[r].token)
    <3>1. User(r) \in Emails /\ account[User(r)] \in UserRows
      BY <2>1 DEF User, Awaits
    <3>2. LET row == [account[User(r)] EXCEPT !.verified = TRUE, !.token = 0, !.live = FALSE]
          IN row \in UserRows /\ row.verified /\ row.role = account[User(r)].role
      BY <3>1 DEF UserRows
    <3>3. account' = [account EXCEPT ![User(r)] =
            [account[User(r)] EXCEPT !.verified = TRUE, !.token = 0, !.live = FALSE]]
      BY <1>7, <2>1 DEF VerifyEmail
    <3>. QED
      BY <1>2, <3>1, <3>2, <3>3
  <2>2. CASE ~Awaits(User(r), req[r].token)
    BY <1>3, <1>7, <2>2 DEF VerifyEmail
  <2>. QED
    BY <2>1, <2>2
<1>8. ASSUME NEW r \in Requests, Enable2fa(r)
      PROVE  UserStays(e)
  <2>1. User(r) \in Emails /\ account[User(r)] \in UserRows
    BY <1>8 DEF User, Known, Enable2fa
  <2>2. LET row == [account[User(r)] EXCEPT !.enabled = TRUE]
        IN /\ row \in UserRows /\ row.verified = account[User(r)].verified
           /\ row.role = account[User(r)].role
    BY <2>1 DEF UserRows
  <2>3. account' = [account EXCEPT ![User(r)] = [account[User(r)] EXCEPT !.enabled = TRUE]]
    BY <1>8 DEF Enable2fa
  <2>. QED
    BY <1>2, <2>1, <2>2, <2>3
<1>9. ASSUME NEW u \in Emails, ResendVerification(u) \/ Setup2fa(u) \/ TokenExpires(u)
      PROVE  UserStays(e)
  <2>1. account[u] \in UserRows
    BY <1>9 DEF ResendVerification, Setup2fa, TokenExpires, ActsAtAll, Acts, Known
  <2>2. CASE ResendVerification(u)
    <3>1. tokens' \in Nat
      BY <2>2 DEF ResendVerification, NewToken
    <3>2. LET row == [account[u] EXCEPT !.token = tokens', !.live = TRUE]
          IN /\ row \in UserRows /\ row.verified = account[u].verified
             /\ row.role = account[u].role
      BY <2>1, <3>1 DEF UserRows
    <3>3. account' = [account EXCEPT ![u] =
                        [account[u] EXCEPT !.token = tokens', !.live = TRUE]]
      BY <2>2 DEF ResendVerification
    <3>. QED
      BY <1>2, <3>2, <3>3
  <2>3. CASE Setup2fa(u)
    <3>1. LET row == [account[u] EXCEPT !.secret = TRUE]
          IN /\ row \in UserRows /\ row.verified = account[u].verified
             /\ row.role = account[u].role
      BY <2>1 DEF UserRows
    <3>2. account' = [account EXCEPT ![u] = [account[u] EXCEPT !.secret = TRUE]]
      BY <2>3 DEF Setup2fa
    <3>. QED
      BY <1>2, <3>1, <3>2
  <2>4. CASE TokenExpires(u)
    <3>1. LET row == [account[u] EXCEPT !.live = FALSE]
          IN /\ row \in UserRows /\ row.verified = account[u].verified
             /\ row.role = account[u].role
      BY <2>1 DEF UserRows
    <3>2. account' = [account EXCEPT ![u] = [account[u] EXCEPT !.live = FALSE]]
      BY <2>4 DEF TokenExpires
    <3>. QED
      BY <1>2, <3>1, <3>2
  <2>. QED
    BY <1>9, <2>2, <2>3, <2>4
<1>10. ASSUME NEW a \in Emails, NEW u \in Emails, NEW role \in Roles, UpdateRole(a, u, role)
       PROVE  UserStays(e)
  <2>1. account[u] \in UserRows
    BY <1>10 DEF UpdateRole
  <2>2. LET row == [account[u] EXCEPT !.role = role, !.enabled = FALSE, !.secret = FALSE]
        IN row \in UserRows /\ row.verified = account[u].verified
    BY <2>1 DEF UserRows
  <2>3. account' = [account EXCEPT ![u] =
          [account[u] EXCEPT !.role = role, !.enabled = FALSE, !.secret = FALSE]]
    BY <1>10 DEF UpdateRole, NewRole
  <2>4. CASE u = e
    BY <1>10, <2>2, <2>3, <2>4, AccountConstants
  <2>5. CASE u # e
    BY <2>3, <2>5
  <2>. QED
    BY <2>4, <2>5
<1>. QED
  BY <1>3, <1>4, <1>5, <1>6, <1>7, <1>8, <1>9, <1>10, UserWriters

\* The actions that write a slot, each for its own.
SlotStep(r) ==
  \/ \E e \in Emails :
       Signup(r, e) \/ AskForMail(r, e) \/ CheckCode(r, e) \/ RequestRefund(r, e)
  \/ \E t \in 1..MaxTokens : FindToken(r, t)
  \/ InsertUser(r) \/ Remail(r) \/ VerifyEmail(r) \/ FirstWallet(r)
  \/ Enable2fa(r) \/ InsertRefund(r) \/ CallFails(r)

LEMMA SlotWriters ==
  [Next]_vars => requestVars' = requestVars \/ Stop \/ \E r \in Requests : SlotStep(r)
<1>1. \A e \in Emails :
        SignupAgain(e) \/ Login(e) \/ Refresh(e) \/ ResendVerification(e) \/ TokenExpires(e)
          \/ CreateWallet(e) \/ Setup2fa(e)
          => requestVars' = requestVars
  BY DEF SignupAgain, Login, Refresh, Issue, ResendVerification, TokenExpires, CreateWallet,
         Setup2fa, requestVars
<1>2. \A e, f \in Emails, role \in Roles : UpdateRole(e, f, role) => requestVars' = requestVars
  BY DEF UpdateRole, NewRole, requestVars
<1>3. \A e \in Emails, i \in RefundIds, s \in Reviewed :
        ReviewRefund(e, i, s) => requestVars' = requestVars
  BY DEF ReviewRefund, requestVars
<1>4. \A i \in RefundIds : VerifyRefund(i) => requestVars' = requestVars
  BY DEF VerifyRefund, Confirm, requestVars
<1>5. Start \/ EngineRefund \/ UNCHANGED vars => requestVars' = requestVars
  BY DEF Start, EngineRefund, vars, requestVars
<1>6. \A r \in Requests : Handle(r) \/ CallFails(r) => SlotStep(r)
  BY DEF Handle, SlotStep
<1>. QED
  BY <1>1, <1>2, <1>3, <1>4, <1>5, <1>6 DEF Next

\* Where a slot's step takes it: to a statement for a user there is, to its
\* wallet only by the verification of the address, or back.
SlotMoves(r) ==
  \/ pc'[r] \notin {"remail", "verify", "wallet", "enable"}
  \/ /\ pc'[r] \in {"remail", "verify", "enable"}
     /\ account[req'[r].user] # Nothing
  \/ /\ pc'[r] = "wallet" /\ req'[r] = req[r]
     /\ VerifyEmail(r) /\ Awaits(User(r), req[r].token)

LEMMA SlotsMove ==
  ASSUME AccountsInv, NEW r \in Requests, SlotStep(r)
  PROVE  /\ SlotMoves(r)
         /\ \A q \in Requests \ {r} : pc'[q] = pc[q] /\ req'[q] = req[q]
<1>. USE DEF AccountsInv, TypeOK
<1>1. ASSUME NEW label, NEW request, Serve(r, label, request)
      PROVE  /\ pc'[r] = label /\ req'[r] = request
             /\ \A q \in Requests \ {r} : pc'[q] = pc[q] /\ req'[q] = req[q]
  BY <1>1 DEF Serve
<1>2. ASSUME NEW e \in Emails,
             Signup(r, e) \/ AskForMail(r, e) \/ CheckCode(r, e) \/ RequestRefund(r, e)
      PROVE  /\ SlotMoves(r)
             /\ \A q \in Requests \ {r} : pc'[q] = pc[q] /\ req'[q] = req[q]
  <2>1. For(e).user = e
    BY DEF For, NoRequest
  <2>2. ActsAtAll(e) => account[e] # Nothing
    BY DEF ActsAtAll, Acts, Known
  <2>. QED
    BY <1>1, <1>2, <2>1, <2>2
       DEF Signup, AskForMail, CheckCode, RequestRefund, Begin, SlotMoves
<1>3. ASSUME NEW t \in 1..MaxTokens, FindToken(r, t)
      PROVE  /\ SlotMoves(r)
             /\ \A q \in Requests \ {r} : pc'[q] = pc[q] /\ req'[q] = req[q]
  <2>1. PICK e \in Emails :
          /\ Awaits(e, t)
          /\ Begin(r, "verify",
                   [NoRequest EXCEPT !.user = e, !.token = t, !.role = account[e].role])
    BY <1>3 DEF FindToken
  <2>. DEFINE found == [NoRequest EXCEPT !.user = e, !.token = t, !.role = account[e].role]
  <2>2. found.user = e
    BY DEF NoRequest
  <2>3. Serve(r, "verify", found) /\ account[e] # Nothing
    BY <2>1 DEF Begin, Awaits
  <2>. HIDE DEF found
  <2>4. /\ pc'[r] = "verify" /\ req'[r] = found
        /\ \A q \in Requests \ {r} : pc'[q] = pc[q] /\ req'[q] = req[q]
    BY <1>1, <2>3
  <2>. QED
    BY <2>2, <2>3, <2>4 DEF SlotMoves
<1>4. CASE VerifyEmail(r)
  <2>1. CASE Awaits(User(r), req[r].token) /\ Serve(r, "wallet", req[r])
    BY <1>1, <1>4, <2>1 DEF SlotMoves
  <2>2. CASE Serve(r, "idle", NoRequest)
    BY <1>1, <2>2 DEF SlotMoves
  <2>. QED
    BY <1>4, <2>1, <2>2 DEF VerifyEmail
<1>5. CASE InsertUser(r) \/ Remail(r) \/ FirstWallet(r) \/ Enable2fa(r) \/ InsertRefund(r)
           \/ CallFails(r)
  BY <1>1, <1>5
     DEF InsertUser, Remail, FirstWallet, Enable2fa, InsertRefund, CallFails, SlotMoves
<1>. QED
  BY <1>2, <1>3, <1>4, <1>5 DEF SlotStep

\* The actions that hand out tokens.
LEMMA GrantWriters ==
  [Next]_vars =>
    \/ grants' = grants
    \/ \E e \in Emails : SignupAgain(e) \/ Login(e) \/ Refresh(e)
<1>1. \A r \in Requests : SlotStep(r) => grants' = grants
  BY DEF SlotStep, Signup, AskForMail, CheckCode, RequestRefund, FindToken, Begin, InsertUser,
         Remail, VerifyEmail, FirstWallet, Enable2fa, InsertRefund, CallFails, grants
<1>2. \A e \in Emails :
        ResendVerification(e) \/ TokenExpires(e) \/ CreateWallet(e) \/ Setup2fa(e)
         
          => grants' = grants
  BY DEF ResendVerification, TokenExpires, CreateWallet, Setup2fa, grants
<1>3. \A e, f \in Emails, role \in Roles : UpdateRole(e, f, role) => grants' = grants
  BY DEF UpdateRole, NewRole, grants
<1>4. \A e \in Emails, i \in RefundIds, s \in Reviewed : ReviewRefund(e, i, s) => grants' = grants
  BY DEF ReviewRefund, grants
<1>5. \A i \in RefundIds : VerifyRefund(i) => grants' = grants
  BY DEF VerifyRefund, Confirm, grants
<1>6. Start \/ Stop \/ EngineRefund \/ UNCHANGED vars => grants' = grants
  BY DEF Start, Stop, EngineRefund, vars, grants
<1>. QED
  BY <1>1, <1>2, <1>3, <1>4, <1>5, <1>6 DEF Next, Handle, SlotStep

LEMMA KnownStep == AccountsInv /\ [Next]_vars => Known'
<1>. SUFFICES ASSUME AccountsInv, [Next]_vars PROVE Known'
  OBVIOUS
<1>. USE DEF AccountsInv
<1>1. \A e \in Emails : account[e] # Nothing => account'[e] # Nothing
  BY UsersStay DEF UserStays
<1>2. /\ \A a \in access' : account[a[1]] # Nothing
      /\ \A e \in refresh' : account[e] # Nothing
  <2>1. CASE grants' = grants
    BY <2>1 DEF grants, Known
  <2>2. ASSUME NEW e \in Emails, SignupAgain(e) \/ Login(e) \/ Refresh(e)
        PROVE  /\ \A a \in access' : account[a[1]] # Nothing
               /\ \A f \in refresh' : account[f] # Nothing
    <3>1. account[e] # Nothing
      BY <2>2 DEF SignupAgain, Login, Refresh, Known
    <3>2. /\ access' \subseteq access \cup {<<e, role>> : role \in Roles}
          /\ refresh' \subseteq refresh \cup {e}
      <4>1. ASSUME NEW role \in Roles, NEW kinds, Issue(e, role, kinds)
            PROVE  /\ access' \subseteq access \cup {<<e, role_1>> : role_1 \in Roles}
                   /\ refresh' \subseteq refresh \cup {e}
        BY <4>1 DEF Issue
      <4>2. account[e].role \in Roles
        BY <3>1 DEF TypeOK, UserRows
      <4>. QED
        BY <2>2, <4>1, <4>2 DEF SignupAgain, Login, Refresh, Roles
    <3>. QED
      BY <3>1, <3>2 DEF Known
  <2>. QED
    BY <2>1, <2>2, GrantWriters
<1>3. access' \subseteq Emails \X Roles /\ refresh' \subseteq Emails
  BY TypeStep DEF TypeOK
<1>4. ASSUME NEW r \in Requests, pc'[r] \in {"remail", "verify", "wallet", "enable"}
      PROVE  account'[req'[r].user] # Nothing
  <2>1. CASE requestVars' = requestVars
    BY <1>1, <1>4, <2>1 DEF requestVars, Known, User, TypeOK
  <2>2. CASE Stop
    BY <1>4, <2>2 DEF Stop
  <2>3. ASSUME NEW q \in Requests, SlotStep(q)
        PROVE  account'[req'[r].user] # Nothing
    <3>1. req'[r].user \in Emails
      BY TypeStep DEF TypeOK
    <3>2. CASE q = r
      BY <1>1, <1>4, <2>3, <3>1, <3>2, SlotsMove DEF SlotMoves, Awaits, User
    <3>3. CASE q # r
      BY <1>1, <1>4, <2>3, <3>1, <3>3, SlotsMove DEF Known, User
    <3>. QED
      BY <3>2, <3>3
  <2>. QED
    BY <2>1, <2>2, <2>3, SlotWriters
<1>. QED
  BY <1>1, <1>2, <1>3, <1>4 DEF Known, User

\* Only the first wallet of a verified address counts as given.
LEMMA GivenWriters == [Next]_vars => given' = given \/ \E r \in Requests : FirstWallet(r)
<1>1. \A r \in Requests : SlotStep(r) => given' = given \/ FirstWallet(r)
  BY DEF SlotStep, Signup, AskForMail, CheckCode, RequestRefund, FindToken, Begin, InsertUser,
         Remail, VerifyEmail, Enable2fa, InsertRefund, CallFails
<1>2. \A e \in Emails :
        SignupAgain(e) \/ Login(e) \/ Refresh(e) \/ ResendVerification(e) \/ TokenExpires(e)
          \/ CreateWallet(e) \/ Setup2fa(e)
          => given' = given
  BY DEF SignupAgain, Login, Refresh, Issue, ResendVerification, TokenExpires, CreateWallet,
         Setup2fa
<1>3. \A e, f \in Emails, role \in Roles : UpdateRole(e, f, role) => given' = given
  BY DEF UpdateRole, NewRole
<1>4. \A e \in Emails, i \in RefundIds, s \in Reviewed : ReviewRefund(e, i, s) => given' = given
  BY DEF ReviewRefund
<1>5. \A i \in RefundIds : VerifyRefund(i) => given' = given
  BY DEF VerifyRefund, Confirm
<1>6. Start \/ Stop \/ EngineRefund \/ UNCHANGED vars => given' = given
  BY DEF Start, Stop, EngineRefund, vars
<1>7. \A r \in Requests : Handle(r) \/ CallFails(r) => SlotStep(r)
  BY DEF Handle, SlotStep
<1>. QED
  BY <1>1, <1>2, <1>3, <1>4, <1>5, <1>6, <1>7 DEF Next

\* The UPDATE of verify_email has one winner, which makes the one wallet.
LEMMA WalletStep == AccountsInv /\ [Next]_vars => WalletDue'
<1>. SUFFICES ASSUME AccountsInv, [Next]_vars PROVE WalletDue'
  OBVIOUS
<1>. USE DEF AccountsInv
<1>1. \A e \in Emails :
        account[e] # Nothing /\ account[e].verified
          => account'[e] # Nothing /\ account'[e].verified
  BY UsersStay DEF UserStays
<1>2. ASSUME NEW r \in Requests
      PROVE  req[r].user \in Emails /\ req'[r].user \in Emails
  BY TypeStep DEF TypeOK
<1>3. given \in [Emails -> Nat]
  BY DEF TypeOK
<1>4. ASSUME NEW r \in Requests, FirstWallet(r)
      PROVE  WalletDue'
  <2>1. /\ account' = account /\ pc[r] = "wallet"
        /\ given' = [given EXCEPT ![User(r)] = @ + 1]
        /\ Serve(r, "idle", NoRequest)
    BY <1>4 DEF FirstWallet
  <2>2. /\ pc'[r] = "idle"
        /\ \A q \in Requests \ {r} : pc'[q] = pc[q] /\ req'[q] = req[q]
    BY <2>1 DEF Serve, TypeOK
  <2>3. /\ account[User(r)] # Nothing /\ account[User(r)].verified /\ given[User(r)] = 0
        /\ User(r) \in Emails
    BY <1>2, <2>1 DEF WalletDue, Known, User
  <2>4. /\ given'[User(r)] = 1
        /\ \A e \in Emails \ {User(r)} : given'[e] = given[e]
    BY <1>3, <2>1, <2>3
  <2>5. \A q \in Requests :
          pc'[q] = "wallet" => pc[q] = "wallet" /\ req'[q] = req[q] /\ User(q) # User(r)
    BY <2>1, <2>2 DEF WalletDue
  <2>6. \A q \in Requests :
          pc'[q] = "wallet" => account'[req'[q].user].verified /\ given'[req'[q].user] = 0
    BY <1>2, <2>1, <2>4, <2>5 DEF WalletDue, User
  <2>7. \A p, q \in Requests :
          pc'[p] = "wallet" /\ pc'[q] = "wallet" /\ req'[p].user = req'[q].user => p = q
    BY <2>5 DEF WalletDue, User
  <2>8. \A e \in Emails :
          given'[e] <= 1 /\ (given'[e] = 1 => account'[e] # Nothing /\ account'[e].verified)
    BY <2>1, <2>3, <2>4 DEF WalletDue
  <2>. QED
    BY <2>6, <2>7, <2>8 DEF WalletDue, User
<1>5. CASE given' = given
  <2>1. \A e \in Emails :
          given'[e] <= 1 /\ (given'[e] = 1 => account'[e] # Nothing /\ account'[e].verified)
    BY <1>1, <1>5 DEF WalletDue
  <2>2. ASSUME NEW q \in Requests, pc'[q] = "wallet", pc[q] = "wallet", req'[q] = req[q]
        PROVE  account'[req'[q].user].verified /\ given'[req'[q].user] = 0
    BY <1>1, <1>2, <1>5, <2>2 DEF WalletDue, Known, User
  <2>3. CASE requestVars' = requestVars \/ Stop
    <3>1. \A q \in Requests : pc'[q] = "wallet" => pc[q] = "wallet" /\ req'[q] = req[q]
      BY <2>3 DEF requestVars, Stop
    <3>. QED
      BY <2>1, <2>2, <3>1 DEF WalletDue, User
  <2>4. ASSUME NEW r \in Requests, SlotStep(r)
        PROVE  WalletDue'
    <3>1. \A q \in Requests \ {r} : pc'[q] = pc[q] /\ req'[q] = req[q]
      BY <2>4, SlotsMove
    <3>2. CASE pc'[r] # "wallet"
      BY <2>1, <2>2, <3>1, <3>2 DEF WalletDue, User
    <3>3. CASE pc'[r] = "wallet"
      <4>1. req'[r] = req[r] /\ VerifyEmail(r) /\ Awaits(User(r), req[r].token)
        BY <2>4, <3>3, SlotsMove DEF SlotMoves
      <4>2. /\ account[User(r)] \in UserRows /\ ~account[User(r)].verified
            /\ User(r) \in Emails
        BY <1>2, <4>1 DEF Awaits, TypeOK, User
      <4>3. account'[User(r)].verified
        BY <4>1, <4>2 DEF VerifyEmail, TypeOK, UserRows
      <4>4. given[User(r)] = 0
        BY <1>3, <4>2 DEF WalletDue
      <4>5. \A q \in Requests \ {r} : pc'[q] = "wallet" => req'[q].user # req'[r].user
        BY <3>1, <4>1, <4>2 DEF WalletDue, User
      <4>6. \A q \in Requests :
              pc'[q] = "wallet" => account'[req'[q].user].verified /\ given'[req'[q].user] = 0
        BY <1>5, <2>2, <3>1, <4>1, <4>3, <4>4 DEF User
      <4>7. \A p, q \in Requests :
              pc'[p] = "wallet" /\ pc'[q] = "wallet" /\ req'[p].user = req'[q].user => p = q
        BY <3>1, <4>5 DEF WalletDue, User
      <4>. QED
        BY <2>1, <4>6, <4>7 DEF WalletDue, User
    <3>. QED
      BY <3>2, <3>3
  <2>. QED
    BY <2>3, <2>4, SlotWriters
<1>. QED
  BY <1>4, <1>5, GivenWriters

\* What a step does to a request for a refund.
RefundMoves(i) ==
  \/ refund'[i] = refund[i]
  \/ refund[i] = Nothing
  \/ refund[i] # Nothing /\ ~refund[i].verified /\ refund'[i].verified
  \/ /\ refund[i] # Nothing
     /\ refund'[i].verified = refund[i].verified /\ refund'[i].status \in Reviewed

LEMMA RefundsMove == AccountsInv /\ [Next]_vars => \A i \in RefundIds : RefundMoves(i)
<1>. SUFFICES ASSUME AccountsInv, [Next]_vars, NEW i \in RefundIds PROVE RefundMoves(i)
  OBVIOUS
<1>. USE DEF AccountsInv
<1>1. \A r \in Requests : SlotStep(r) => refund' = refund \/ InsertRefund(r)
  BY DEF SlotStep, Signup, AskForMail, CheckCode, RequestRefund, FindToken, Begin, InsertUser,
         Remail, VerifyEmail, FirstWallet, Enable2fa, CallFails
<1>2. \A e \in Emails :
        SignupAgain(e) \/ Login(e) \/ Refresh(e) \/ ResendVerification(e) \/ TokenExpires(e)
          \/ CreateWallet(e) \/ Setup2fa(e)
          => refund' = refund
  BY DEF SignupAgain, Login, Refresh, Issue, ResendVerification, TokenExpires, CreateWallet,
         Setup2fa
<1>3. \A e, f \in Emails, role \in Roles : UpdateRole(e, f, role) => refund' = refund
  BY DEF UpdateRole, NewRole
<1>4. Start \/ Stop \/ UNCHANGED vars => refund' = refund
  BY DEF Start, Stop, vars
<1>5. CASE refund' = refund
  BY <1>5 DEF RefundMoves
<1>6. ASSUME NEW j \in RefundIds, NEW row, refund[j] = Nothing,
             refund' = [refund EXCEPT ![j] = row]
      PROVE  RefundMoves(i)
  BY <1>6 DEF RefundMoves, TypeOK
<1>7. ASSUME NEW r \in Requests, InsertRefund(r)
      PROVE  RefundMoves(i)
  BY <1>6, <1>7 DEF InsertRefund
<1>8. CASE EngineRefund
  BY <1>6, <1>8 DEF EngineRefund
<1>9. ASSUME NEW j \in RefundIds, VerifyRefund(j)
      PROVE  RefundMoves(i)
  <2>1. refund[j] \in RefundRows /\ refund[j] # Nothing /\ ~refund[j].verified
    BY <1>9 DEF VerifyRefund, TypeOK
  <2>. DEFINE row == [refund[j] EXCEPT !.verified = TRUE, !.status = "pending", !.token = 0]
  <2>2. row.verified
    BY <2>1 DEF RefundRows
  <2>3. refund' = [refund EXCEPT ![j] = row]
    BY <1>9 DEF VerifyRefund, Confirm
  <2>. HIDE DEF row
  <2>. QED
    BY <2>1, <2>2, <2>3 DEF RefundMoves, TypeOK
<1>10. ASSUME NEW e \in Emails, NEW j \in RefundIds, NEW s \in Reviewed, ReviewRefund(e, j, s)
       PROVE  RefundMoves(i)
  <2>1. refund[j] \in RefundRows /\ refund[j] # Nothing
    BY <1>10 DEF ReviewRefund, TypeOK
  <2>. DEFINE row == [refund[j] EXCEPT !.status = s]
  <2>2. row.status = s /\ row.verified = refund[j].verified
    BY <2>1 DEF RefundRows
  <2>3. refund' = [refund EXCEPT ![j] = row]
    BY <1>10 DEF ReviewRefund
  <2>. HIDE DEF row
  <2>. QED
    BY <2>1, <2>2, <2>3 DEF RefundMoves, TypeOK
<1>11. \A r \in Requests : Handle(r) \/ CallFails(r) => SlotStep(r)
  BY DEF Handle, SlotStep
<1>. QED
  BY <1>1, <1>2, <1>3, <1>4, <1>5, <1>7, <1>8, <1>9, <1>10, <1>11 DEF Next

LEMMA AccountsStart == Init => AccountsInv
<1>. SUFFICES ASSUME Init PROVE AccountsInv
  OBVIOUS
<1>1. TypeOK
  BY NoRequestType, AccountConstants DEF Init, TypeOK, Roles
<1>2. Known /\ WalletDue
  BY DEF Init, Known, WalletDue
<1>. QED
  BY <1>1, <1>2 DEF AccountsInv

\* What the handlers rely on and do not check: whoever acts has a row, and the
\* wallet that verify_email makes for an address is the first it makes for it.
THEOREM AccountsInvariant == Spec => []AccountsInv
<1>1. AccountsInv /\ [Next]_vars => AccountsInv'
  BY TypeStep, KnownStep, WalletStep DEF AccountsInv
<1>. QED
  BY <1>1, AccountsStart, PTL DEF Spec

\* Every row that signup, the roles, the second factors and the refunds write
\* has the columns of its table.
THEOREM AccountsType == Spec => []TypeOK
BY AccountsInvariant, PTL DEF AccountsInv

\* verify_email: the UPDATE repeats the conditions of the SELECT, so the link
\* of a mail gives one wallet, whoever follows it and however often.
THEOREM WalletsOncePerMail == Spec => []OneWalletPerMail
<1>1. AccountsInv => OneWalletPerMail
  BY DEF AccountsInv, WalletDue, OneWalletPerMail
<1>. QED
  BY <1>1, AccountsInvariant, PTL

\* verify_refund and admin_update_refund_status: a decision on a refund is taken
\* back by nothing but the one confirmation of its owner.
THEOREM DecisionsStay == Spec => ReviewsAreFinal
<1>. DEFINE Final ==
       \A i \in RefundIds :
         refund[i] # Nothing =>
           /\ refund[i].verified => refund'[i].verified
           /\ refund[i].status \in Reviewed /\ refund'[i].status \notin Reviewed
                => ~refund[i].verified /\ refund'[i].verified
<1>1. AccountsInv /\ [Next]_vars => Final
  BY RefundsMove DEF RefundMoves
<1>. QED
  BY <1>1, AccountsInvariant, PTL DEF Spec, ReviewsAreFinal

\* An administrator who is there stays, unless another one changes the role.
LEMMA AdminStays ==
  ASSUME AccountsInv, [Next]_vars, HasAdmin, \A a \in Emails : Current(a)
  PROVE  HasAdmin'
<1>. USE DEF AccountsInv
<1>1. PICK e \in Emails : account[e] # Nothing /\ account[e].role = "admin"
  BY DEF HasAdmin
<1>2. CASE account'[e] # Nothing /\ account'[e].role = account[e].role
  BY <1>1, <1>2 DEF HasAdmin
<1>3. ASSUME NEW a \in Emails, NEW role \in Roles, UpdateRole(a, e, role)
      PROVE  HasAdmin'
  <2>1. account[a] # Nothing /\ a # e /\ account[a].role = "admin"
    BY <1>3 DEF UpdateRole, Acts, Current, Known
  <2>2. account'[a] = account[a]
    BY <1>3, <2>1 DEF UpdateRole, NewRole, TypeOK
  <2>. QED
    BY <2>1, <2>2 DEF HasAdmin
<1>. QED
  BY <1>1, <1>2, <1>3, UsersStay DEF UserStays

\* admin_update_user_role: the caller of a change keeps the role, so one
\* administrator is left, whoever is demoted in which order, as long as no
\* former administrator has a token left.
THEOREM LastAdminRemains == Spec => LastAdminStays
<1>1. AccountsInv /\ [Next]_vars
        => (HasAdmin /\ (\A a \in Emails : Current(a)) => HasAdmin')
  BY AdminStays
<1>. QED
  BY <1>1, AccountsInvariant, PTL DEF Spec, LastAdminStays
=============================================================================
