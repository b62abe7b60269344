------------------------------- MODULE Accounts -------------------------------
(***************************************************************************)
(* Users, their roles and second factors, and the refund requests that     *)
(* need a mail to be answered (crates/api-gateway/src/routes.rs, auth.rs,  *)
(* jwt_middleware.rs and seed_admin_user in main.rs; the wallet itself is  *)
(* made by crates/kms/src/main.rs).                                        *)
(*                                                                         *)
(* A handler of one statement is one action.  One that reads first and     *)
(* writes later is a slot of Requests between the two.  An account is      *)
(* named by its address, which table users keeps unique.  The token of a   *)
(* mail is a number, a new one each time; 0 is NULL.  Of a second factor   *)
(* it only matters whether there is one: the user's authenticator holds    *)
(* the last one that was set up.  A wrong password or code changes nothing *)
(* and is left out, and so are the amounts of refunds, which one call      *)
(* compares with one balance.                                              *)
(***************************************************************************)
EXTENDS Naturals, FiniteSets

CONSTANTS
  Emails,       \* addresses
  AdminEmail,   \* auth.admin_email
  Requests,     \* handlers under way
  Seeds,        \* what there is at the start: [users, wallets, tokens]
  RefundIds,    \* rows table refund_requests may get
  MaxTokens,    \* bound: tokens sent by mail
  MaxWallets,   \* bound: a user who has as many makes no other one
  MaxFaults,    \* bound: calls that fail, tokens that expire, restarts
  Nothing       \* no row

Roles == {"admin", "common"}
Reviewed == {"approved", "rejected", "completed"}

UserRows ==
  [role : Roles, verified : BOOLEAN, token : Nat, live : BOOLEAN,
   secret : BOOLEAN, enabled : BOOLEAN]
RefundRows == [status : Reviewed \cup {"pending"}, verified : BOOLEAN, token : Nat]

ASSUME AccountConstants ==
  /\ AdminEmail \in Emails
  /\ {MaxTokens, MaxWallets, MaxFaults} \subseteq Nat
  /\ Nothing \notin UserRows /\ Nothing \notin RefundRows
  /\ \A s \in Seeds :
       /\ s.users \in [Emails -> UserRows \cup {Nothing}]
       /\ s.wallets \in [Emails -> Nat] /\ s.tokens \in Nat

VARIABLES
  up,        \* does the gateway run?
  account,   \* account[e]: the row of table users, or Nothing
  wallets,   \* wallets[e]: rows of table wallets
  refund,    \* refund[i]: the row of table refund_requests, or Nothing
  access,    \* access tokens that have been issued, and their roles
  refresh,   \* users with a refresh token; nobody reads the role in it
  pc, req,   \* pc[r]: the statement that comes next; req[r]: what was read
  tokens, faults,
  given      \* history: given[e]: wallets made because the address was verified

userVars == <<account, wallets>>
grants == <<access, refresh>>
requestVars == <<pc, req>>
countVars == <<tokens, faults>>
vars == <<up, userVars, refund, grants, requestVars, countVars, given>>

NoRequest == [user |-> AdminEmail, token |-> 0, role |-> "common"]

TypeOK ==
  /\ up \in BOOLEAN
  /\ account \in [Emails -> UserRows \cup {Nothing}]
  /\ wallets \in [Emails -> Nat] /\ given \in [Emails -> Nat]
  /\ refund \in [RefundIds -> RefundRows \cup {Nothing}]
  /\ access \subseteq Emails \X Roles /\ refresh \subseteq Emails
  /\ pc \in [Requests -> {"idle", "insert", "remail", "verify", "wallet", "enable", "refund"}]
  /\ req \in [Requests -> [user : Emails, token : Nat, role : Roles]]
  /\ tokens \in Nat /\ faults \in Nat

Init ==
  /\ up = FALSE
  /\ \E s \in Seeds :
       account = s.users /\ wallets = s.wallets /\ tokens = s.tokens
  /\ refund = [i \in RefundIds |-> Nothing]
  /\ access = {} /\ refresh = {}
  /\ pc = [r \in Requests |-> "idle"] /\ req = [r \in Requests |-> NoRequest]
  /\ faults = 0
  /\ given = [e \in Emails |-> 0]

Fault == faults < MaxFaults /\ faults' = faults + 1

-----------------------------------------------------------------------------
(* Grants.                                                                 *)

NewUser(role, t) ==
  [role |-> role, verified |-> FALSE, token |-> t, live |-> TRUE,
   secret |-> FALSE, enabled |-> FALSE]

\* require_auth, and the role the handler asks for: the token's, not the row's.
Acts(e, role) == up /\ <<e, role>> \in access
ActsAtAll(e) == \E role \in Roles : Acts(e, role)

\* An access token, and for who is fully signed in a refresh token with it.
Issue(e, role, kinds) ==
  /\ up
  /\ access' = access \cup {<<e, role>>}
  /\ refresh' = IF "refresh" \in kinds THEN refresh \cup {e} ELSE refresh
  /\ UNCHANGED <<up, userVars, refund, requestVars, countVars, given>>

Both == {"access", "refresh"}

\* The slot takes up a request, or goes on with it.
Serve(r, label, request) ==
  /\ pc' = [pc EXCEPT ![r] = label]
  /\ req' = [req EXCEPT ![r] = request]

Begin(r, label, request) ==
  /\ up /\ pc[r] = "idle"
  /\ Serve(r, label, request)
  /\ UNCHANGED <<up, userVars, refund, grants, countVars, given>>

For(e) == [NoRequest EXCEPT !.user = e]
User(r) == req[r].user

NewToken == tokens < MaxTokens /\ tokens' = tokens + 1

-----------------------------------------------------------------------------
(* signup, login, refresh_token, resend_verification.                      *)

\* The SELECT of signup finds nobody with the address ...
Signup(r, e) == account[e] = Nothing /\ Begin(r, "insert", For(e))

\* ... or an owner who has not verified it, as the SELECT of login may ...
AskForMail(r, e) ==
  /\ account[e] # Nothing /\ ~account[e].verified
  /\ Begin(r, "remail", For(e))

\* ... or an administrator who has no second factor.
SignupAgain(e) ==
  /\ account[e] # Nothing
  /\ account[e].verified /\ account[e].role = "admin" /\ ~account[e].enabled
  /\ Issue(e, "admin", {"access"})

\* The INSERT fails when the address was taken in the meantime.
InsertUser(r) ==
  /\ pc[r] = "insert"
  /\ IF account[User(r)] = Nothing
       THEN /\ NewToken
            /\ account' = [account EXCEPT ![User(r)] = NewUser("common", tokens')]
       ELSE UNCHANGED <<account, tokens>>
  /\ Serve(r, "idle", NoRequest)
  /\ UNCHANGED <<up, wallets, refund, grants, faults, given>>

\* UPDATE users SET verification_token, and a mail with it: in the end of the
\* signup or login that found the address unverified.
Remail(r) ==
  /\ pc[r] = "remail"
  /\ NewToken
  /\ account' = [account EXCEPT ![User(r)].token = tokens', ![User(r)].live = TRUE]
  /\ Serve(r, "idle", NoRequest)
  /\ UNCHANGED <<up, wallets, refund, grants, faults, given>>

ResendVerification(e) ==
  /\ ActsAtAll(e)
  /\ NewToken
  /\ account' = [account EXCEPT ![e].token = tokens', ![e].live = TRUE]
  /\ UNCHANGED <<up, wallets, refund, grants, requestVars, faults, given>>

\* check_current, with a code for the secret of the table.
CodeFits(e) == account[e].secret

\* Everything after the SELECT happens without another call.
Login(e) ==
  /\ account[e] # Nothing /\ account[e].verified
  /\ \/ account[e].role = "common" /\ Issue(e, "common", Both)
     \/ account[e].role = "admin" /\ ~account[e].enabled
                                  /\ Issue(e, "admin", {"access"})
     \/ account[e].role = "admin" /\ account[e].enabled /\ CodeFits(e)
                                  /\ Issue(e, "admin", Both)

\* The role comes from the table.
Refresh(e) ==
  /\ e \in refresh
  /\ Issue(e, account[e].role, Both)

-----------------------------------------------------------------------------
(* verify_email.                                                           *)

\* Tokens that the WHERE clause accepts.
Awaits(e, t) ==
  account[e] # Nothing /\ account[e].token = t /\ account[e].live /\ ~account[e].verified

FindToken(r, t) ==
  \E e \in Emails :
    /\ Awaits(e, t)
    /\ Begin(r, "verify",
             [NoRequest EXCEPT !.user = e, !.token = t, !.role = account[e].role])

\* Variant of VerifyEmail: rows_affected is not looked at.
VerifyEmailAnyway(r) ==
  /\ pc[r] = "verify"
  /\ LET e == User(r) IN
       IF Awaits(e, req[r].token)
         THEN account' = [account EXCEPT ![e].verified = TRUE, ![e].token = 0,
                                         ![e].live = FALSE]
         ELSE UNCHANGED account
  /\ IF req[r].role = "common" THEN Serve(r, "wallet", req[r])
     ELSE Serve(r, "idle", NoRequest)
  /\ UNCHANGED <<up, wallets, refund, grants, countVars, given>>

\* The UPDATE repeats the conditions of the SELECT: of two handlers with one
\* token it is the first that goes on.
VerifyEmail(r) ==
  /\ pc[r] = "verify"
  /\ LET e == User(r) IN
       IF Awaits(e, req[r].token)
         THEN /\ account' = [account EXCEPT ![e].verified = TRUE, ![e].token = 0,
                                            ![e].live = FALSE]
              /\ IF req[r].role = "common" THEN Serve(r, "wallet", req[r])
                 ELSE Serve(r, "idle", NoRequest)
         ELSE UNCHANGED account /\ Serve(r, "idle", NoRequest)
  /\ UNCHANGED <<up, wallets, refund, grants, countVars, given>>

\* A common user's wallet; a failing key service leaves the user without one.
FirstWallet(r) ==
  /\ pc[r] = "wallet"
  /\ wallets' = [wallets EXCEPT ![User(r)] = @ + 1]
  /\ given' = [given EXCEPT ![User(r)] = @ + 1]
  /\ Serve(r, "idle", NoRequest)
  /\ UNCHANGED <<up, account, refund, grants, countVars>>

\* create_wallet
CreateWallet(e) ==
  /\ ActsAtAll(e)
  /\ wallets[e] < MaxWallets
  /\ wallets' = [wallets EXCEPT ![e] = @ + 1]
  /\ UNCHANGED <<up, account, refund, grants, requestVars, countVars, given>>

TokenExpires(e) ==
  /\ account[e] # Nothing /\ account[e].live
  /\ Fault
  /\ account' = [account EXCEPT ![e].live = FALSE]
  /\ UNCHANGED <<up, wallets, refund, grants, requestVars, tokens, given>>

-----------------------------------------------------------------------------
(* setup_2fa, verify_2fa, admin_update_user_role.                          *)

\* The new secret takes the place of the old one at once.
Setup2fa(e) ==
  /\ ActsAtAll(e)
  /\ account' = [account EXCEPT ![e].secret = TRUE]
  /\ UNCHANGED <<up, wallets, refund, grants, requestVars, countVars, given>>

CheckCode(r, e) ==
  /\ ActsAtAll(e) /\ CodeFits(e)
  /\ Begin(r, "enable", For(e))

Enable2fa(r) ==
  /\ pc[r] = "enable"
  /\ account' = [account EXCEPT ![User(r)].enabled = TRUE]
  /\ Serve(r, "idle", NoRequest)
  /\ UNCHANGED <<up, wallets, refund, grants, countVars, given>>

NewRole(e, role) ==
  /\ account' = [account EXCEPT ![e].role = role, ![e].enabled = FALSE,
                                ![e].secret = FALSE]
  /\ UNCHANGED <<up, wallets, refund, grants, requestVars, countVars, given>>

\* Variant of UpdateRole: the caller's own role is no exception.
UpdateAnyRole(a, e, role) ==
  /\ Acts(a, "admin")
  /\ account[e] # Nothing
  /\ NewRole(e, role)

UpdateRole(a, e, role) ==
  /\ Acts(a, "admin") /\ e # a
  /\ account[e] # Nothing
  /\ NewRole(e, role)

-----------------------------------------------------------------------------
(* Refunds: create_refund_request, verify_refund, the administrators'      *)
(* decision, and the request the engine makes of what a session leaves.    *)

NewRefund(t) ==
  [status |-> "pending", verified |-> FALSE, token |-> t]

\* The user's wallet, its balance and the price are read before the INSERT.
RequestRefund(r, e) ==
  /\ Acts(e, "common") /\ wallets[e] > 0
  /\ Begin(r, "refund", For(e))

InsertRefund(r) ==
  /\ pc[r] = "refund"
  /\ NewToken
  /\ \E i \in RefundIds :
       /\ refund[i] = Nothing
       /\ refund' = [refund EXCEPT ![i] = NewRefund(tokens')]
  /\ Serve(r, "idle", NoRequest)
  /\ UNCHANGED <<up, userVars, grants, faults, given>>

\* check_and_create_excess_refund leaves verified at its default, FALSE.
EngineRefund ==
  /\ \E e \in Emails : wallets[e] > 0
  /\ \E i \in RefundIds :
       /\ refund[i] = Nothing
       /\ refund' = [refund EXCEPT ![i] = NewRefund(0)]
  /\ UNCHANGED <<up, userVars, grants, requestVars, countVars, given>>

Confirm(i, t) ==
  /\ up
  /\ refund' = [refund EXCEPT ![i].verified = TRUE, ![i].status = "pending", ![i].token = t]
  /\ UNCHANGED <<up, userVars, grants, requestVars, countVars, given>>

\* Variant of VerifyRefund: the token is neither used up nor looked at twice.
VerifyRefundAgain(i) ==
  /\ refund[i] # Nothing /\ refund[i].token # 0
  /\ Confirm(i, refund[i].token)

\* One statement: the token works once.  (It works for an hour; one that is
\* never used stands for one that is too old.)
VerifyRefund(i) ==
  /\ refund[i] # Nothing /\ refund[i].token # 0 /\ ~refund[i].verified
  /\ Confirm(i, 0)

\* admin_update_refund_status: any decision on any row, after any other and
\* whether or not the request has been confirmed.  The list that
\* administrators see has confirmed ones only; the statement does not ask.
ReviewRefund(a, i, status) ==
  /\ Acts(a, "admin")
  /\ refund[i] # Nothing
  /\ refund' = [refund EXCEPT ![i].status = status]
  /\ UNCHANGED <<up, userVars, grants, requestVars, countVars, given>>

-----------------------------------------------------------------------------
(* The gateway's process.                                                  *)

HasAdmin == \E e \in Emails : account[e] # Nothing /\ account[e].role = "admin"

\* seed_admin_user: where the configuration names an administrator (by default
\* it does not) and there is none, it inserts the one that is named, and main
\* ends when that address is taken.
Start ==
  /\ ~up
  /\ \E configured \in BOOLEAN :
       IF configured /\ ~HasAdmin
         THEN /\ account[AdminEmail] = Nothing
              /\ NewToken
              /\ account' = [account EXCEPT ![AdminEmail] = NewUser("admin", tokens')]
         ELSE UNCHANGED <<account, tokens>>
  /\ up' = TRUE
  /\ UNCHANGED <<wallets, refund, grants, requestVars, faults, given>>

Stop ==
  /\ up
  /\ Fault
  /\ up' = FALSE
  /\ pc' = [r \in Requests |-> "idle"] /\ req' = [r \in Requests |-> NoRequest]
  /\ UNCHANGED <<userVars, refund, grants, tokens, given>>

\* A statement or a call of the key service fails.
CallFails(r) ==
  /\ pc[r] # "idle"
  /\ Fault
  /\ Serve(r, "idle", NoRequest)
  /\ UNCHANGED <<up, userVars, refund, grants, tokens, given>>

Handle(r) ==
  \/ \E e \in Emails :
       Signup(r, e) \/ AskForMail(r, e) \/ CheckCode(r, e) \/ RequestRefund(r, e)
  \/ \E t \in 1..MaxTokens : FindToken(r, t)
  \/ InsertUser(r) \/ Remail(r) \/ VerifyEmail(r) \/ FirstWallet(r)
  \/ Enable2fa(r) \/ InsertRefund(r)

Next ==
  \/ Start \/ Stop
  \/ \E r \in Requests : Handle(r) \/ CallFails(r)
  \/ \E e \in Emails :
       \/ SignupAgain(e) \/ Login(e) \/ Refresh(e) \/ ResendVerification(e) \/ TokenExpires(e)
       \/ CreateWallet(e) \/ Setup2fa(e)
       \/ \E f \in Emails, role \in Roles : UpdateRole(e, f, role)
       \/ \E i \in RefundIds, s \in Reviewed : ReviewRefund(e, i, s)
  \/ EngineRefund
  \/ \E i \in RefundIds : VerifyRefund(i)

Spec == Init /\ [][Next]_vars
-----------------------------------------------------------------------------
(* Properties.                                                             *)

\* However often the link of a mail is followed, and by how many handlers at
\* once, verifying an address gives its owner one wallet at most, and only once
\* the address is verified.
OneWalletPerMail ==
  \A e \in Emails :
    /\ given[e] <= 1
    /\ given[e] = 1 => account[e].verified

\* A token says what role its owner had when it was issued.
Current(a) == Acts(a, "admin") => account[a].role = "admin"

\* No administrator can change their own role, so no order of calls by several
\* takes away the last one, as long as no former administrator still has a
\* token: one who has may demote the one who is left.
LastAdminStays ==
  [][HasAdmin /\ (\A a \in Emails : Current(a)) => HasAdmin']_vars

\* verify_refund makes a request pending whatever was decided on it before, and
\* admin_update_refund_status decides on requests that are not confirmed.  So a
\* decision is taken back by nothing but the one confirmation of its owner:
\* once at most, and not when the request was confirmed.
ReviewsAreFinal ==
  [][\A i \in RefundIds :
       refund[i] # Nothing =>
         /\ refund[i].verified => refund'[i].verified
         /\ refund[i].status \in Reviewed /\ refund'[i].status \notin Reviewed
              => ~refund[i].verified /\ refund'[i].verified]_vars
=============================================================================
