------------------------------ MODULE Accounts ------------------------------
(***************************************************************************)
(* One address: how it gets its account, and what it takes to sign in.     *)
(* Registering, logging in and answering the second factor each read the   *)
(* users row, then await argon2 or a signature, and only then insert the   *)
(* sessions row, while a signed-in user turns the second factor on or      *)
(* replaces its secret.  The count of failures is in LoginLockout, and     *)
(* what becomes of a session in Sessions.                                  *)
(***************************************************************************)
EXTENDS Naturals, FiniteSets

CONSTANTS
    SignIns,    \* requests of the address that may be in flight at once
    Secrets     \* TOTP secrets that generateSetup gave out

ASSUME AccountsAssumption == IsFiniteSet(SignIns) /\ "none" \notin Secrets

VARIABLES
    account,    \* the users row: whether it is there, and its mfaSecret
    challenged, \* whether an MFA challenge token is out that has not run out
    signIn,     \* the requests
    unaware     \* history: requests that had read the row before its secret last changed,
                \* less those signed in since

accountVars == <<account, challenged, signIn, unaware>>
-----------------------------------------------------------------------------
NotSigningIn == [pc |-> "idle"]

Factors == Secrets \union {"none"}

\* factor is what the request found the account to be protected by, or code
\* the secret that the code it was sent is of.
SignInRecords ==
    {NotSigningIn}
    \union [pc : {"create_user", "find_user"}]
    \union [pc : {"verify_password", "issue"}, factor : Factors]
    \union [pc : {"find_secret"}, code : Secrets]

AccountsTypeOK ==
    /\ account \in [exists : BOOLEAN, secret : Factors]
    /\ challenged \in BOOLEAN
    /\ signIn \in [SignIns -> SignInRecords]
    /\ unaware \in Nat

SignInAt(c, step) == signIn[c].pc = step

SignInGoto(c, new) == signIn' = [signIn EXCEPT ![c] = new]

\* The requests that will be signed in by another factor than this one, if their
\* password is right.
Outdated(factor) ==
    {c \in SignIns :
        \/ SignInAt(c, "issue") /\ signIn[c].factor # factor
        \/ SignInAt(c, "verify_password") /\ signIn[c].factor = "none" /\ factor # "none"}
-----------------------------------------------------------------------------
(* register *)

Register(c) ==
    /\ signIn[c] = NotSigningIn
    /\ ~ account.exists
    /\ SignInGoto(c, [pc |-> "create_user"])
    /\ UNCHANGED <<account, challenged, unaware>>

\* After the hash; the unique index refuses a second row of the address.
CreateUser(c) ==
    /\ SignInAt(c, "create_user")
    /\ ~ account.exists
    /\ account' = [exists |-> TRUE, secret |-> "none"]
    /\ SignInGoto(c, [pc |-> "issue", factor |-> "none"])
    /\ UNCHANGED <<challenged, unaware>>
-----------------------------------------------------------------------------
(* login, and the second factor *)

StartLogin(c) ==
    /\ signIn[c] = NotSigningIn
    /\ SignInGoto(c, [pc |-> "find_user"])
    /\ UNCHANGED <<account, challenged, unaware>>

FindUser(c) ==
    /\ SignInAt(c, "find_user")
    /\ account.exists
    /\ SignInGoto(c, [pc |-> "verify_password", factor |-> account.secret])
    /\ UNCHANGED <<account, challenged, unaware>>

\* Mutation: the second factor is not asked for.
VerifyPassword_NoMfa(c) ==
    /\ SignInAt(c, "verify_password")
    /\ SignInGoto(c, [pc |-> "issue", factor |-> "none"])
    /\ UNCHANGED <<account, challenged, unaware>>

\* The row may have changed while argon2 was at work: it is not read again.
VerifyPassword(c) ==
    /\ SignInAt(c, "verify_password")
    /\ \/ /\ signIn[c].factor = "none"
          /\ SignInGoto(c, [pc |-> "issue", factor |-> "none"])
          /\ UNCHANGED challenged
       \/ /\ signIn[c].factor # "none"
          /\ SignInGoto(c, NotSigningIn)
          /\ challenged' = TRUE
    /\ UNCHANGED <<account, unaware>>

\* The challenge is a signed token that is kept nowhere: it serves until it runs out.
CompleteMfaLogin(c, secret) ==
    /\ signIn[c] = NotSigningIn
    /\ challenged
    /\ SignInGoto(c, [pc |-> "find_secret", code |-> secret])
    /\ UNCHANGED <<account, challenged, unaware>>

VerifyCode(c) ==
    /\ SignInAt(c, "find_secret")
    /\ account.secret = signIn[c].code
    /\ SignInGoto(c, [pc |-> "issue", factor |-> account.secret])
    /\ UNCHANGED <<account, challenged, unaware>>

ChallengeRunsOut ==
    /\ challenged
    /\ challenged' = FALSE
    /\ UNCHANGED <<account, signIn, unaware>>

InsertSession(c) ==
    /\ SignInAt(c, "issue")
    /\ unaware' = IF c \in Outdated(account.secret) THEN unaware - 1 ELSE unaware
    /\ SignInGoto(c, NotSigningIn)
    /\ UNCHANGED <<account, challenged>>

\* An address without an account, a wrong password or code, a row that is there
\* already, a token that has run out, a rejected await, or the end of the process.
SignInFails(c) ==
    /\ signIn[c] # NotSigningIn
    /\ SignInGoto(c, NotSigningIn)
    /\ UNCHANGED <<account, challenged, unaware>>
-----------------------------------------------------------------------------
\* MfaService.enable: the request names the secret and shows a code of it; one
\* that is set is replaced.
EnableMfa(secret) ==
    /\ account.exists
    /\ account' = [account EXCEPT !.secret = secret]
    /\ unaware' = IF secret # account.secret THEN Cardinality(Outdated(secret)) ELSE unaware
    /\ UNCHANGED <<challenged, signIn>>

AccountsInit ==
    /\ account = [exists |-> FALSE, secret |-> "none"]
    /\ challenged = FALSE
    /\ signIn = [c \in SignIns |-> NotSigningIn]
    /\ unaware = 0

AccountsNext ==
    \/ \E c \in SignIns :
          \/ Register(c) \/ CreateUser(c)
          \/ StartLogin(c) \/ FindUser(c) \/ VerifyPassword(c)
          \/ (\E secret \in Secrets : CompleteMfaLogin(c, secret)) \/ VerifyCode(c)
          \/ InsertSession(c) \/ SignInFails(c)
    \/ \E secret \in Secrets : EnableMfa(secret)
    \/ ChallengeRunsOut

AccountsSpec == AccountsInit /\ [][AccountsNext]_accountVars
-----------------------------------------------------------------------------
(* Properties *)

\* Once the second factor is on nobody is signed in without it, nor once its
\* secret is replaced with a code of the old one, but for the requests that had
\* read the row by then; a challenge that is still good opens nothing by itself.
MfaHolds == Cardinality(Outdated(account.secret)) <= unaware
=============================================================================
