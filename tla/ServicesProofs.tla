---------------------------- MODULE ServicesProofs ---------------------------
(* The services beside the lifecycle of an intent, each for any number of      *)
(* requests at once: signing in, invitations, repeated requests, reminders,    *)
(* exports, organizations, and the pages of the audit log.                     *)
EXTENDS Accounts, LoginLockout, Invitations, IdempotentRequests, ApprovalReminders,
        AuditExports, Organizations, AuditLog,
        FiniteSetTheorems, SequenceTheorems, TLAPS

(***************************************************************************)
(* The second factor.  Only what reads the users row and then waits can be *)
(* out of date, and only a change of the secret makes it so.               *)
(***************************************************************************)
MfaInv ==
    /\ AccountsTypeOK
    /\ ~ account.exists => account.secret = "none"
    /\ MfaHolds

\* The sets that are counted are finite.
LEMMA OutdatedFinite ==
    ASSUME NEW factor
    PROVE  IsFiniteSet(Outdated(factor)) /\ Cardinality(Outdated(factor)) \in Nat
BY AccountsAssumption, FS_Subset, FS_CardinalityType DEF Outdated

\* A step of one request that leaves the secret, and does not make the request
\* outdated.
LEMMA RequestKeeps ==
    ASSUME MfaInv, NEW c \in SignIns, NEW f \in SignInRecords,
           signIn' = [signIn EXCEPT ![c] = f],
           account'.secret = account.secret, unaware' = unaware,
           c \in Outdated(account.secret)' => c \in Outdated(account.secret)
    PROVE  MfaHolds'
<1>1. Outdated(account.secret)' \subseteq Outdated(account.secret)
  <2>1. \A d \in SignIns \ {c} : signIn'[d] = signIn[d]
    BY DEF MfaInv, AccountsTypeOK
  <2> QED
    BY <2>1 DEF Outdated, SignInAt
<1>2. Cardinality(Outdated(account.secret)') <= Cardinality(Outdated(account.secret))
  BY <1>1, OutdatedFinite, FS_Subset
<1>3. /\ Cardinality(Outdated(account.secret)) \in Nat /\ unaware \in Nat
      /\ Cardinality(Outdated(account.secret)) <= unaware
  BY OutdatedFinite DEF MfaInv, MfaHolds, AccountsTypeOK
<1>4. IsFiniteSet(Outdated(account.secret)')
  BY <1>1, OutdatedFinite, FS_Subset
<1>5. Cardinality(Outdated(account.secret)') \in Nat
  BY <1>4, FS_CardinalityType
<1> QED
  BY <1>2, <1>3, <1>5 DEF MfaHolds

\* The records of a request are typed.
LEMMA SignInsTyped ==
    /\ NotSigningIn \in SignInRecords
    /\ [pc |-> "create_user"] \in SignInRecords /\ [pc |-> "find_user"] \in SignInRecords
    /\ \A f \in Factors : /\ [pc |-> "verify_password", factor |-> f] \in SignInRecords
                          /\ [pc |-> "issue", factor |-> f] \in SignInRecords
    /\ \A s \in Secrets : [pc |-> "find_secret", code |-> s] \in SignInRecords
BY DEF SignInRecords

\* Requests on their way, and the account they make.
LEMMA SignInKeeps ==
    ASSUME MfaInv, NEW c \in SignIns,
           \/ Register(c) \/ CreateUser(c) \/ StartLogin(c) \/ FindUser(c) \/ VerifyPassword(c)
           \/ (\E secret \in Secrets : CompleteMfaLogin(c, secret)) \/ VerifyCode(c)
           \/ SignInFails(c)
    PROVE  MfaInv'
<1>1. /\ AccountsTypeOK /\ account.secret \in Factors /\ "none" \in Factors
      /\ unaware' = unaware
  BY DEF MfaInv, AccountsTypeOK, Factors, Register, CreateUser, StartLogin, FindUser,
         VerifyPassword, CompleteMfaLogin, VerifyCode, SignInFails
<1>2. /\ account'.secret = account.secret
      /\ account' \in [exists : BOOLEAN, secret : Factors]
      /\ ~ account'.exists => account'.secret = "none"
  <2>1. CASE CreateUser(c)
    BY <1>1, <2>1 DEF CreateUser, MfaInv
  <2>2. CASE account' = account
    BY <2>2 DEF MfaInv, AccountsTypeOK
  <2> QED
    BY <2>1, <2>2 DEF Register, StartLogin, FindUser, VerifyPassword, CompleteMfaLogin,
                      VerifyCode, SignInFails
<1>3. challenged' \in BOOLEAN
  BY <1>1 DEF AccountsTypeOK, Register, CreateUser, StartLogin, FindUser, VerifyPassword,
              CompleteMfaLogin, VerifyCode, SignInFails
<1>4. PICK f \in SignInRecords :
        /\ signIn' = [signIn EXCEPT ![c] = f]
        /\ f.pc = "issue" /\ f.factor # account.secret
              => SignInAt(c, "verify_password") /\ signIn[c].factor = "none"
                 /\ account.secret # "none"
        /\ f.pc = "verify_password" => f.factor = account.secret
  <2>1. CASE Register(c)
    BY <2>1, SignInsTyped DEF Register, SignInGoto
  <2>2. CASE CreateUser(c)
    <3>1. account.secret = "none"
      BY <2>2 DEF CreateUser, MfaInv
    <3> DEFINE f == [pc |-> "issue", factor |-> "none"]
    <3>2. signIn' = [signIn EXCEPT ![c] = f] /\ f \in SignInRecords
      BY <1>1, <2>2, SignInsTyped DEF CreateUser, SignInGoto
    <3> QED
      BY <3>1, <3>2
  <2>3. CASE StartLogin(c)
    BY <2>3, SignInsTyped DEF StartLogin, SignInGoto
  <2>4. CASE FindUser(c)
    <3> DEFINE f == [pc |-> "verify_password", factor |-> account.secret]
    <3>1. signIn' = [signIn EXCEPT ![c] = f] /\ f \in SignInRecords
      BY <1>1, <2>4, SignInsTyped DEF FindUser, SignInGoto
    <3> QED
      BY <3>1
  <2>5. CASE VerifyPassword(c)
    <3> DEFINE f == [pc |-> "issue", factor |-> "none"]
    <3>1. f \in SignInRecords /\ NotSigningIn \in SignInRecords /\ NotSigningIn.pc = "idle"
      BY <1>1, SignInsTyped DEF NotSigningIn
    <3>2. CASE signIn' = [signIn EXCEPT ![c] = NotSigningIn]
      BY <3>1, <3>2
    <3>3. CASE signIn' = [signIn EXCEPT ![c] = f] /\ signIn[c].factor = "none"
      BY <2>5, <3>1, <3>3 DEF VerifyPassword
    <3> QED
      BY <2>5, <3>2, <3>3 DEF VerifyPassword, SignInGoto
  <2>6. ASSUME NEW secret \in Secrets, CompleteMfaLogin(c, secret)
        PROVE  \E f \in SignInRecords :
                  /\ signIn' = [signIn EXCEPT ![c] = f]
                  /\ f.pc \notin {"issue", "verify_password"}
    <3> DEFINE f == [pc |-> "find_secret", code |-> secret]
    <3>1. signIn' = [signIn EXCEPT ![c] = f] /\ f \in SignInRecords
      BY <2>6, SignInsTyped DEF CompleteMfaLogin, SignInGoto
    <3>2. f.pc = "find_secret"
      OBVIOUS
    <3> QED
      BY <3>1, <3>2
  <2>7. CASE VerifyCode(c)
    <3> DEFINE f == [pc |-> "issue", factor |-> account.secret]
    <3>1. signIn' = [signIn EXCEPT ![c] = f] /\ f \in SignInRecords
      BY <1>1, <2>7, SignInsTyped DEF VerifyCode, SignInGoto
    <3> QED
      BY <3>1
  <2>8. CASE SignInFails(c)
    <3>1. NotSigningIn \in SignInRecords /\ NotSigningIn.pc = "idle"
      BY SignInsTyped DEF NotSigningIn
    <3> QED
      BY <2>8, <3>1 DEF SignInFails, SignInGoto
  <2> QED
    BY <2>1, <2>2, <2>3, <2>4, <2>5, <2>6, <2>7, <2>8
<1>5. signIn'[c] = f /\ signIn' \in [SignIns -> SignInRecords]
  BY <1>1, <1>4 DEF AccountsTypeOK
<1>6. c \in Outdated(account.secret)' => c \in Outdated(account.secret)
  BY <1>2, <1>4, <1>5 DEF Outdated, SignInAt
<1>7. MfaHolds'
  BY <1>1, <1>2, <1>4, <1>6, RequestKeeps
<1>8. AccountsTypeOK'
  BY <1>1, <1>2, <1>3, <1>5 DEF AccountsTypeOK
<1> QED
  BY <1>2, <1>7, <1>8 DEF MfaInv

\* A session inserted by a request that knew no better is counted off.
LEMMA InsertKeeps ==
    ASSUME MfaInv, NEW c \in SignIns, InsertSession(c)
    PROVE  MfaInv'
<1> DEFINE O == Outdated(account.secret)
<1>1. /\ AccountsTypeOK /\ account' = account /\ challenged' = challenged
      /\ signIn' = [signIn EXCEPT ![c] = NotSigningIn]
      /\ unaware' = IF c \in O THEN unaware - 1 ELSE unaware
  BY DEF MfaInv, InsertSession, SignInGoto
<1>2. signIn' \in [SignIns -> SignInRecords] /\ signIn'[c] = NotSigningIn
      /\ \A d \in SignIns \ {c} : signIn'[d] = signIn[d]
  BY <1>1, SignInsTyped DEF AccountsTypeOK
<1>3. Outdated(account.secret)' = O \ {c}
  BY <1>1, <1>2 DEF Outdated, SignInAt, NotSigningIn
<1>4. IsFiniteSet(O) /\ Cardinality(O) \in Nat /\ unaware \in Nat /\ Cardinality(O) <= unaware
  BY <1>1, OutdatedFinite DEF MfaInv, MfaHolds, AccountsTypeOK
<1>5. c \in O => Cardinality(O \ {c}) = Cardinality(O) - 1
  BY <1>4, FS_RemoveElement
<1>6. c \notin O => O \ {c} = O
  OBVIOUS
<1>7. IsFiniteSet(O \ {c}) /\ Cardinality(O \ {c}) \in Nat
  BY <1>4, FS_Subset, FS_CardinalityType
<1> HIDE DEF O
<1>8. Cardinality(O \ {c}) <= unaware' /\ unaware' \in Nat
  BY <1>1, <1>4, <1>5, <1>6, <1>7
<1>9. MfaHolds'
  BY <1>3, <1>8 DEF MfaHolds
<1>10. AccountsTypeOK'
  BY <1>1, <1>2, <1>8 DEF AccountsTypeOK
<1> QED
  BY <1>1, <1>9, <1>10 DEF MfaInv

LEMMA MfaKept == MfaInv /\ [AccountsNext]_accountVars => MfaInv'
<1> SUFFICES ASSUME MfaInv, [AccountsNext]_accountVars
             PROVE  MfaInv'
  OBVIOUS
<1>1. ASSUME NEW c \in SignIns,
             \/ Register(c) \/ CreateUser(c) \/ StartLogin(c) \/ FindUser(c)
             \/ VerifyPassword(c) \/ (\E secret \in Secrets : CompleteMfaLogin(c, secret))
             \/ VerifyCode(c) \/ InsertSession(c) \/ SignInFails(c)
      PROVE  MfaInv'
  BY <1>1, SignInKeeps, InsertKeeps
<1>2. ASSUME NEW secret \in Secrets, EnableMfa(secret)
      PROVE  MfaInv'
  <2>1. /\ account.exists /\ account \in [exists : BOOLEAN, secret : Factors]
        /\ account' = [account EXCEPT !.secret = secret]
        /\ unaware' = IF secret # account.secret THEN Cardinality(Outdated(secret)) ELSE unaware
        /\ challenged' = challenged /\ signIn' = signIn
    BY <1>2 DEF EnableMfa, MfaInv, AccountsTypeOK
  <2>2. /\ account' \in [exists : BOOLEAN, secret : Factors]
        /\ account'.secret = secret /\ account'.exists
    BY <2>1 DEF Factors
  <2>3. Outdated(account.secret)' = Outdated(secret)
    BY <2>1, <2>2 DEF Outdated, SignInAt
  <2>4. unaware' \in Nat /\ Cardinality(Outdated(secret)) \in Nat
    BY <2>1, OutdatedFinite DEF MfaInv, AccountsTypeOK
  <2>5. MfaHolds'
    BY <2>1, <2>3, <2>4 DEF MfaHolds, MfaInv
  <2>6. AccountsTypeOK'
    BY <2>1, <2>2, <2>4 DEF MfaInv, AccountsTypeOK
  <2> QED
    BY <2>2, <2>5, <2>6 DEF MfaInv
<1>3. CASE ChallengeRunsOut \/ UNCHANGED accountVars
  <2>1. /\ account' = account /\ signIn' = signIn /\ unaware' = unaware
        /\ challenged' \in BOOLEAN
    BY <1>3 DEF ChallengeRunsOut, accountVars, MfaInv, AccountsTypeOK
  <2> QED
    BY <2>1 DEF MfaInv, AccountsTypeOK, MfaHolds, Outdated, SignInAt
<1> QED
  BY <1>1, <1>2, <1>3 DEF AccountsNext

\* What the second factor rests on, in every reachable state.
LEMMA MfaAlways == AccountsSpec => []MfaInv
<1>1. AccountsInit => MfaInv
  <2> SUFFICES ASSUME AccountsInit
               PROVE  MfaInv
    OBVIOUS
  <2>1. account.exists = FALSE /\ account.secret = "none" /\ unaware = 0
        /\ account \in [exists : BOOLEAN, secret : Factors]
    BY DEF AccountsInit, Factors
  <2>2. AccountsTypeOK
    <3>1. signIn \in [SignIns -> SignInRecords]
      BY SignInsTyped DEF AccountsInit
    <3>2. challenged \in BOOLEAN
      BY DEF AccountsInit
    <3> QED
      BY <2>1, <3>1, <3>2 DEF AccountsTypeOK
  <2>3. \A factor : Outdated(factor) = {}
    BY DEF AccountsInit, Outdated, SignInAt, NotSigningIn
  <2>4. MfaHolds
    BY <2>1, <2>3, FS_EmptySet DEF MfaHolds
  <2> QED
    BY <2>1, <2>2, <2>4 DEF MfaInv
<1> QED
  BY <1>1, MfaKept, PTL DEF AccountsSpec

(***************************************************************************)
(* Once the second factor is on, or its secret replaced, nobody signs in   *)
(* without it but the requests that had read the users row by then.        *)
(***************************************************************************)
THEOREM SecondFactor == AccountsSpec => []MfaHolds
<1>1. MfaInv => MfaHolds
  BY DEF MfaInv
<1> QED
  BY <1>1, MfaAlways, PTL
-----------------------------------------------------------------------------
(***************************************************************************)
(* The lock.  An account that is open has failed fewer times than it takes *)
(* to lock it, since it was last open after a lock or clear.               *)
(***************************************************************************)
LockoutInv ==
    /\ LockoutTypeOK
    /\ recent <= failed.count
    /\ ~ failed.locked => recent = 0 \/ failed.count < LOCKOUT_THRESHOLD
    /\ LockoutHolds

\* The logins in flight are finitely many, and one less once one is answered.
LEMMA VerifyingCount ==
    /\ IsFiniteSet(Verifying) /\ Cardinality(Verifying) \in Nat /\ Cardinality(Logins) \in Nat
    /\ Cardinality(Verifying) <= Cardinality(Logins)
    /\ \A c \in Verifying : Cardinality(Verifying \ {c}) = Cardinality(Verifying) - 1
BY LockoutAssumption, FS_Subset, FS_CardinalityType, FS_RemoveElement DEF Verifying

LEMMA LockoutKept == LockoutInv /\ [LockoutNext]_lockoutVars => LockoutInv'
<1> SUFFICES ASSUME LockoutInv, [LockoutNext]_lockoutVars
             PROVE  LockoutInv'
  OBVIOUS
<1> DEFINE n == Cardinality(Verifying)
           all == Cardinality(Logins)
<1>1. /\ failed \in [count : 0 .. MaxFailures, locked : BOOLEAN]
      /\ login \in [Logins -> {"idle", "verify", "verify_other_case"}]
      /\ recent \in 0 .. MaxFailures /\ recent <= failed.count
      /\ ~ failed.locked => recent = 0 \/ failed.count < LOCKOUT_THRESHOLD
      /\ failed.locked => recent + n < LOCKOUT_THRESHOLD + all
      /\ n \in Nat /\ all \in Nat /\ n <= all
      /\ failed.count \in Nat /\ recent \in Nat
      /\ MaxFailures \in Nat /\ LOCKOUT_THRESHOLD \in Nat \ {0}
  BY VerifyingCount, LockoutAssumption DEF LockoutInv, LockoutTypeOK, LockoutHolds
<1>2. CASE UNCHANGED lockoutVars
  <2>1. failed' = failed /\ login' = login /\ recent' = recent
    BY <1>2 DEF lockoutVars
  <2> QED
    BY <2>1 DEF LockoutInv, LockoutTypeOK, LockoutHolds, Verifying
<1>3. ASSUME NEW c \in Logins, BeginLogin(c)
      PROVE  LockoutInv'
  <2>1. /\ ~ failed.locked /\ failed' = failed /\ recent' = recent
        /\ login' \in [Logins -> {"idle", "verify", "verify_other_case"}]
    BY <1>1, <1>3 DEF BeginLogin
  <2>2. recent < LOCKOUT_THRESHOLD + all
    BY <1>1, <2>1
  <2> QED
    BY <1>1, <2>1, <2>2 DEF LockoutInv, LockoutTypeOK, LockoutHolds
<1>4. ASSUME NEW c \in Logins, c \in Verifying, login' = [login EXCEPT ![c] = "idle"]
      PROVE  /\ login' \in [Logins -> {"idle", "verify", "verify_other_case"}]
             /\ Verifying' = Verifying \ {c}
             /\ Cardinality(Verifying') = n - 1
  <2>1. Verifying' = Verifying \ {c}
    BY <1>1, <1>4 DEF Verifying
  <2>2. login' \in [Logins -> {"idle", "verify", "verify_other_case"}]
    BY <1>1, <1>4
  <2> QED
    BY <1>4, <2>1, <2>2, VerifyingCount
<1>5. ASSUME NEW c \in Logins, FailLogin(c)
      PROVE  LockoutInv'
  <2> DEFINE m == Cardinality(Verifying')
             locks == failed.locked \/ failed.count + 1 >= LOCKOUT_THRESHOLD
  <2>1. /\ failed.count < MaxFailures /\ recent' = recent + 1
        /\ failed' = [count |-> failed.count + 1, locked |-> locks]
        /\ login' \in [Logins -> {"idle", "verify", "verify_other_case"}]
        /\ m = n - 1
    BY <1>4, <1>5 DEF FailLogin
  <2>2. failed'.count = failed.count + 1 /\ (failed'.locked <=> locks)
    BY <2>1
  <2>3. failed' \in [count : 0 .. MaxFailures, locked : BOOLEAN]
    <3>1. failed.count + 1 \in 0 .. MaxFailures /\ locks \in BOOLEAN
      BY <1>1, <2>1
    <3> HIDE DEF locks
    <3> QED
      BY <2>1, <3>1
  <2> HIDE DEF m, n, all
  <2>4. recent' \in 0 .. MaxFailures /\ recent' <= failed'.count
    BY <1>1, <2>1, <2>2
  <2>5. ~ failed'.locked => failed'.count < LOCKOUT_THRESHOLD
    BY <1>1, <2>2
  <2>6. recent' + (IF failed'.locked THEN m ELSE 0) < LOCKOUT_THRESHOLD + all
    <3>1. CASE failed.locked
      BY <1>1, <2>1, <2>2, <3>1
    <3>2. CASE ~ failed.locked
      <4>1. recent < LOCKOUT_THRESHOLD
        BY <1>1, <3>2
      <4> QED
        BY <1>1, <2>1, <2>2, <2>4, <2>5, <4>1
    <3> QED
      BY <3>1, <3>2
  <2> QED
    BY <2>1, <2>3, <2>4, <2>5, <2>6 DEF LockoutInv, LockoutTypeOK, LockoutHolds, m, all
<1>6. ASSUME NEW c \in Logins, SucceedLogin(c)
      PROVE  LockoutInv'
  <2>1. /\ login' \in [Logins -> {"idle", "verify", "verify_other_case"}]
        /\ Cardinality(Verifying') = n - 1
    BY <1>4, <1>6 DEF SucceedLogin
  <2>2. CASE failed' = NoEntry /\ recent' = 0
    <3>1. failed' \in [count : 0 .. MaxFailures, locked : BOOLEAN] /\ ~ failed'.locked
          /\ failed'.count = 0
      BY <1>1, <2>2 DEF NoEntry
    <3>2. 0 < LOCKOUT_THRESHOLD + all
      BY <1>1
    <3> QED
      BY <1>1, <2>1, <2>2, <3>1, <3>2 DEF LockoutInv, LockoutTypeOK, LockoutHolds
  <2>3. CASE failed' = failed /\ recent' = recent
    <3> HIDE DEF n, all
    <3>1. recent + (IF failed.locked THEN n - 1 ELSE 0) < LOCKOUT_THRESHOLD + all
      BY <1>1
    <3> QED
      BY <1>1, <2>1, <2>3, <3>1 DEF LockoutInv, LockoutTypeOK, LockoutHolds, all
  <2> QED
    BY <1>6, <2>2, <2>3 DEF SucceedLogin
<1>7. CASE LockRunsOut
  <2>1. failed' \in [count : 0 .. MaxFailures, locked : BOOLEAN] /\ ~ failed'.locked
        /\ failed'.count = failed.count /\ recent' = 0 /\ login' = login
    BY <1>1, <1>7 DEF LockRunsOut
  <2>2. 0 < LOCKOUT_THRESHOLD + all
    BY <1>1
  <2> QED
    BY <1>1, <2>1, <2>2 DEF LockoutInv, LockoutTypeOK, LockoutHolds
<1>8. CASE ProcessRestarts
  <2>1. /\ failed' \in [count : 0 .. MaxFailures, locked : BOOLEAN] /\ ~ failed'.locked
        /\ failed'.count = 0 /\ recent' = 0
        /\ login' \in [Logins -> {"idle", "verify", "verify_other_case"}]
    BY <1>1, <1>8 DEF ProcessRestarts, NoEntry
  <2>2. 0 < LOCKOUT_THRESHOLD + all
    BY <1>1
  <2> QED
    BY <1>1, <2>1, <2>2 DEF LockoutInv, LockoutTypeOK, LockoutHolds
<1> QED
  BY <1>2, <1>3, <1>5, <1>6, <1>7, <1>8 DEF LockoutNext

\* What the lockout rests on, in every reachable state.
LEMMA LockoutAlways == LockoutSpec => []LockoutInv
<1>1. LockoutInit => LockoutInv
  <2> SUFFICES ASSUME LockoutInit
               PROVE  LockoutInv
    OBVIOUS
  <2>1. /\ failed.count = 0 /\ ~ failed.locked /\ recent = 0
        /\ failed \in [count : 0 .. MaxFailures, locked : BOOLEAN]
    BY LockoutAssumption DEF LockoutInit, NoEntry
  <2>2. LockoutTypeOK
    BY <2>1, LockoutAssumption DEF LockoutInit, LockoutTypeOK
  <2>3. LockoutHolds
    BY <2>1, VerifyingCount, LockoutAssumption DEF LockoutHolds
  <2> QED
    BY <2>1, <2>2, <2>3 DEF LockoutInv
<1> QED
  BY <1>1, LockoutKept, PTL DEF LockoutSpec

(***************************************************************************)
(* LOCKOUT_THRESHOLD failures lock an account: it takes no more between    *)
(* one unlocking and the next than that and those that were in flight.     *)
(***************************************************************************)
THEOREM LockedAfterFailures == LockoutSpec => []LockoutHolds
<1>1. LockoutInv => LockoutHolds
  BY DEF LockoutInv
<1> QED
  BY <1>1, LockoutAlways, PTL
-----------------------------------------------------------------------------
(***************************************************************************)
(* Repeated requests.  As long as no answer is stored, every work done is  *)
(* of a request still in flight, or of one whose answer was lost.          *)
(***************************************************************************)
InFlight == {c \in Clients : attempt[c] # "idle"}

RepeatsInv ==
    /\ IdempotencyTypeOK
    /\ ~ cached => effects + Cardinality(Inside)
                     <= Cardinality(Clients) * lapsed + lost + Cardinality(InFlight)
    /\ RepeatsBounded

LEMMA ClientsCount ==
    /\ IsFiniteSet(Clients) /\ Cardinality(Clients) \in Nat
    /\ IsFiniteSet(Inside) /\ Cardinality(Inside) \in Nat
    /\ IsFiniteSet(InFlight) /\ Cardinality(InFlight) \in Nat
    /\ Cardinality(InFlight) <= Cardinality(Clients)
BY IdempotencyAssumption, FS_Subset, FS_CardinalityType DEF Inside, InFlight

\* One request goes from a step to a step: what that does to both counts.
LEMMA OneMoves ==
    ASSUME IdempotencyTypeOK, NEW c \in Clients,
           NEW step \in {"idle", "handle", "answer", "store"},
           attempt' = [attempt EXCEPT ![c] = step]
    PROVE  /\ attempt' \in [Clients -> {"idle", "handle", "answer", "store"}]
           /\ Cardinality(Inside') = Cardinality(Inside)
                  + (IF step = "handle" THEN 1 ELSE 0) - (IF attempt[c] = "handle" THEN 1 ELSE 0)
           /\ Cardinality(InFlight') = Cardinality(InFlight)
                  + (IF step # "idle" THEN 1 ELSE 0) - (IF attempt[c] # "idle" THEN 1 ELSE 0)
<1>1. attempt' \in [Clients -> {"idle", "handle", "answer", "store"}]
  BY DEF IdempotencyTypeOK
<1>2. Inside' = IF step = "handle" THEN Inside \union {c} ELSE Inside \ {c}
  BY DEF IdempotencyTypeOK, Inside
<1>3. InFlight' = IF step # "idle" THEN InFlight \union {c} ELSE InFlight \ {c}
  BY DEF IdempotencyTypeOK, InFlight
<1>4. \A S \in {Inside, InFlight} :
         /\ c \in S => /\ S \union {c} = S
                       /\ Cardinality(S \ {c}) = Cardinality(S) - 1
         /\ c \notin S => /\ S \ {c} = S
                          /\ Cardinality(S \union {c}) = Cardinality(S) + 1
  <2> SUFFICES ASSUME NEW S, IsFiniteSet(S), Cardinality(S) \in Nat
               PROVE  /\ c \in S => /\ S \union {c} = S
                                   /\ Cardinality(S \ {c}) = Cardinality(S) - 1
                      /\ c \notin S => /\ S \ {c} = S
                                      /\ Cardinality(S \union {c}) = Cardinality(S) + 1
    BY ClientsCount
  <2>1. c \in S => S \union {c} = S
    OBVIOUS
  <2>2. c \notin S => S \ {c} = S
    OBVIOUS
  <2> QED
    BY <2>1, <2>2, FS_AddElement, FS_RemoveElement
<1>5. (c \in Inside <=> attempt[c] = "handle") /\ (c \in InFlight <=> attempt[c] # "idle")
  BY DEF Inside, InFlight
<1> QED
  <2>1. Cardinality(Inside) \in Nat /\ Cardinality(InFlight) \in Nat
    BY ClientsCount
  <2>2. Cardinality(Inside') = Cardinality(Inside)
            + (IF step = "handle" THEN 1 ELSE 0) - (IF attempt[c] = "handle" THEN 1 ELSE 0)
    <3>1. CASE step = "handle"
      <4>1. Inside' = Inside \union {c}
        BY <1>2, <3>1
      <4> QED
        <5>1. CASE attempt[c] = "handle"
          <6>1. Inside' = Inside
            BY <1>5, <4>1, <5>1
          <6> QED
            BY <2>1, <3>1, <5>1, <6>1
        <5>2. CASE attempt[c] # "handle"
          <6>1. Cardinality(Inside') = Cardinality(Inside) + 1
            BY <1>4, <1>5, <4>1, <5>2
          <6> QED
            BY <2>1, <3>1, <5>2, <6>1
        <5> QED
          BY <5>1, <5>2
    <3>2. CASE step # "handle"
      BY <1>2, <1>4, <1>5, <2>1, <3>2
    <3> QED
      BY <3>1, <3>2
  <2>3. Cardinality(InFlight') = Cardinality(InFlight)
            + (IF step # "idle" THEN 1 ELSE 0) - (IF attempt[c] # "idle" THEN 1 ELSE 0)
    BY <1>3, <1>4, <1>5, <2>1
  <2> QED
    BY <1>1, <2>2, <2>3

LEMMA RepeatsKept == RepeatsInv /\ [IdempotencyNext]_idempotencyVars => RepeatsInv'
<1> SUFFICES ASSUME RepeatsInv, [IdempotencyNext]_idempotencyVars
             PROVE  RepeatsInv'
  OBVIOUS
<1> DEFINE n == Cardinality(Clients)
           i == Cardinality(Inside)
           f == Cardinality(InFlight)
           past == n * lapsed
<1>1. /\ IdempotencyTypeOK /\ n \in Nat /\ i \in Nat /\ f \in Nat /\ f <= n
      /\ effects \in Nat /\ lost \in 0 .. MaxLost /\ lapsed \in 0 .. MaxLost
      /\ lost \in Nat /\ lapsed \in Nat /\ MaxLost \in Nat /\ cached \in BOOLEAN
  BY ClientsCount, IdempotencyAssumption DEF RepeatsInv, IdempotencyTypeOK
<1>2. n * (1 + lapsed) = past + n
  BY <1>1
<1>8. past \in Nat
  BY <1>1
<1>3. ~ cached => effects + i <= past + lost + f
  BY DEF RepeatsInv
<1>4. effects + i <= past + n + lost
  BY <1>2 DEF RepeatsInv, RepeatsBounded
<1>5. CASE UNCHANGED idempotencyVars
  <2>1. /\ cached' = cached /\ attempt' = attempt /\ effects' = effects
        /\ lost' = lost /\ lapsed' = lapsed
    BY <1>5 DEF idempotencyVars
  <2> QED
    BY <2>1 DEF RepeatsInv, IdempotencyTypeOK, RepeatsBounded, Inside, InFlight
<1>6. CASE Lapse
  <2>1. /\ cached /\ cached' = FALSE /\ lapsed' = lapsed + 1 /\ lapsed' \in 0 .. MaxLost
        /\ attempt' = attempt /\ effects' = effects /\ lost' = lost
    BY <1>1, <1>6 DEF Lapse
  <2>2. Inside' = Inside /\ InFlight' = InFlight
    BY <2>1 DEF Inside, InFlight
  <2>3. n * lapsed' = past + n /\ n * (1 + lapsed') = past + n + n
    BY <1>1, <2>1
  <2> HIDE DEF n, i, f, past
  <2>4. /\ effects + i <= n * lapsed' + lost + f
        /\ effects + i <= n * (1 + lapsed') + lost
    BY <1>1, <1>8, <1>4, <2>3
  <2>5. IdempotencyTypeOK'
    BY <1>1, <2>1 DEF IdempotencyTypeOK
  <2> QED
    BY <2>1, <2>2, <2>4, <2>5 DEF RepeatsInv, RepeatsBounded, n, i, f
<1>7. ASSUME NEW c \in Clients,
             Arrive(c) \/ Handle(c) \/ Answer(c) \/ SetEx(c) \/ NotStored(c)
      PROVE  RepeatsInv'
  <2> DEFINE j == Cardinality(Inside')
             g == Cardinality(InFlight')
  <2>1. PICK step \in {"idle", "handle", "answer", "store"} :
           /\ attempt' = [attempt EXCEPT ![c] = step]
           /\ lapsed' = lapsed /\ cached' \in BOOLEAN
           /\ \/ /\ attempt[c] = "idle" /\ step = "handle" /\ ~ cached
                 /\ cached' = cached /\ effects' = effects /\ lost' = lost
              \/ /\ attempt[c] = "handle" /\ step = "answer"
                 /\ cached' = cached /\ effects' \in {effects, effects + 1} /\ lost' = lost
              \/ /\ attempt[c] = "answer" /\ step = "store"
                 /\ cached' = cached /\ effects' = effects /\ lost' = lost
              \/ /\ attempt[c] = "store" /\ step = "idle"
                 /\ cached' = TRUE /\ effects' = effects /\ lost' = lost
              \/ /\ attempt[c] # "idle" /\ step = "idle" /\ lost < MaxLost
                 /\ cached' = cached /\ effects' = effects /\ lost' = lost + 1
    BY <1>1, <1>7 DEF Arrive, Handle, Answer, SetEx, NotStored, Continue
  <2>8. attempt[c] = "idle" => ~ cached'
    <3>1. attempt[c] = "idle" => (cached' <=> cached) /\ ~ cached
      BY <2>1
    <3> QED
      BY <3>1
  <2>2. /\ attempt' \in [Clients -> {"idle", "handle", "answer", "store"}]
        /\ j = i + (IF step = "handle" THEN 1 ELSE 0) - (IF attempt[c] = "handle" THEN 1 ELSE 0)
        /\ g = f + (IF step # "idle" THEN 1 ELSE 0) - (IF attempt[c] # "idle" THEN 1 ELSE 0)
    BY <1>1, <2>1, OneMoves
  <2>3. j \in Nat /\ g \in Nat /\ g <= n
    <3>1. IsFiniteSet(Inside') /\ IsFiniteSet(InFlight') /\ g <= n
      BY IdempotencyAssumption, FS_Subset DEF Inside, InFlight
    <3> QED
      BY <3>1, FS_CardinalityType
  <2> HIDE DEF n, i, f, j, g, past
  <2>4. effects' \in Nat /\ lost' \in 0 .. MaxLost /\ lost' \in Nat
    BY <1>1, <2>1
  <2>5. ~ cached' => effects' + j <= past + lost' + g
    BY <1>1, <1>8, <1>3, <2>1, <2>2, <2>3
  <2>6. effects' + j <= past + n + lost'
    <3>1. PICK e, l, y, z \in Nat : e = effects' /\ l = lost' /\ y = j /\ z = g
      BY <2>3, <2>4
    <3>2. n \in Nat /\ i \in Nat /\ effects \in Nat /\ lost \in Nat /\ past \in Nat
      BY <1>1, <1>8
    <3>3. CASE ~ cached'
      <4>1. e + y <= past + l + z /\ z <= n
        BY <2>3, <2>5, <3>1, <3>3
      <4>2. e + y <= past + n + l
        BY <3>2, <4>1
      <4> QED
        BY <3>1, <4>2
    <3>4. CASE cached'
      <4>1. \/ l = lost /\ e = effects /\ y <= i
            \/ l = lost /\ e <= effects + 1 /\ y + 1 <= i
            \/ l = lost + 1 /\ e = effects /\ y <= i
        <5>1. y = i + (IF step = "handle" THEN 1 ELSE 0)
                    - (IF attempt[c] = "handle" THEN 1 ELSE 0)
          BY <2>2, <3>1
        <5>2. CASE attempt[c] = "handle" /\ step = "answer"
          BY <2>1, <3>1, <3>2, <5>1, <5>2
        <5>3. CASE attempt[c] # "handle"
          <6>1. attempt[c] # "idle" /\ step # "handle"
            BY <2>1, <2>8, <3>4, <5>3
          <6>2. y = i
            BY <3>2, <5>1, <5>3, <6>1
          <6>3. e = effects /\ l \in {lost, lost + 1}
            BY <2>1, <3>1, <5>3, <6>1
          <6> QED
            BY <3>1, <3>2, <6>2, <6>3
        <5>4. CASE attempt[c] = "handle" /\ step # "answer"
          <6>1. step = "idle" /\ e = effects /\ l = lost + 1
            BY <2>1, <3>1, <5>4
          <6>2. y = i - 1
            BY <3>2, <5>1, <5>4, <6>1
          <6> QED
            BY <3>1, <3>2, <6>1, <6>2
        <5> QED
          BY <5>2, <5>3, <5>4
      <4>2. e + y <= past + n + l
        BY <1>4, <3>2, <4>1
      <4> QED
        BY <3>1, <4>2
    <3> QED
      BY <3>3, <3>4
  <2>7. IdempotencyTypeOK'
    BY <1>1, <2>1, <2>2, <2>4 DEF IdempotencyTypeOK
  <2> QED
    BY <1>2, <2>1, <2>5, <2>6, <2>7 DEF RepeatsInv, RepeatsBounded, past, n, j, g
<1> QED
  BY <1>5, <1>6, <1>7 DEF IdempotencyNext

\* What repeated requests rest on, in every reachable state.
LEMMA RepeatsAlways == IdempotencySpec => []RepeatsInv
<1>1. IdempotencyInit => RepeatsInv
  <2> SUFFICES ASSUME IdempotencyInit
               PROVE  RepeatsInv
    OBVIOUS
  <2>1. effects = 0 /\ lost = 0 /\ lapsed = 0 /\ 0 \in 0 .. MaxLost
    BY IdempotencyAssumption DEF IdempotencyInit
  <2>4. attempt \in [Clients -> {"idle", "handle", "answer", "store"}] /\ cached \in BOOLEAN
    BY DEF IdempotencyInit
  <2>5. IdempotencyTypeOK
    BY <2>1, <2>4 DEF IdempotencyTypeOK
  <2>2. Inside = {} /\ InFlight = {}
    BY DEF IdempotencyInit, Inside, InFlight
  <2>3. Cardinality(Inside) = 0 /\ Cardinality(InFlight) = 0
    BY <2>2, FS_EmptySet
  <2> QED
    BY <2>1, <2>3, <2>5, ClientsCount DEF RepeatsInv, RepeatsBounded
<1> QED
  BY <1>1, RepeatsKept, PTL DEF IdempotencySpec

(***************************************************************************)
(* The idempotency middleware looks up and stores without a lock: a key    *)
(* does its work once, and once more for each request that overlaps,       *)
(* each answer that ran out, and each that was lost.                       *)
(***************************************************************************)
THEOREM FewRepeats == IdempotencySpec => []RepeatsBounded
<1>1. RepeatsInv => RepeatsBounded
  BY DEF RepeatsInv
<1> QED
  BY <1>1, RepeatsAlways, PTL
-----------------------------------------------------------------------------
(***************************************************************************)
(* Invitations.  Members are made by accepting and stay members: so an     *)
(* invitation accepted for a user is the only one.                         *)
(***************************************************************************)
InvitationsInv ==
    /\ InvitationsTypeOK
    /\ IsMember(Founder)
    /\ \A c \in Requests : request[c].pc \in {"accept", "expire"} =>
          invite[request[c].invite].status # "absent"
    /\ \A u \in Users : Accepted(u) # {} => IsMember(u) /\ u # Founder
    /\ \A i, j \in Invites :
          /\ invite[i].status = "accepted" /\ invite[j].status = "accepted"
          /\ invite[i].user = invite[j].user
          => i = j

\* What a row and a request look like.
LEMMA InviteShape ==
    ASSUME InvitationsTypeOK
    PROVE  /\ \A i \in Invites : invite[i].status # "absent" =>
                invite[i] \in [status : {"pending", "accepted", "expired"},
                              user : Users, admin : BOOLEAN]
           /\ \A c \in Requests :
                /\ request[c].pc \in {"accept", "expire"} => request[c].invite \in Invites
                /\ request[c].pc \in {"find_pending", "create"} =>
                      request[c] \in [pc : {"find_pending", "create"}, user : Users, admin : BOOLEAN]
<1>1. \A i \in Invites : invite[i] \in InviteRows
  BY DEF InvitationsTypeOK
<1>2. \A r \in InviteRows : r.status # "absent" =>
         r \in [status : {"pending", "accepted", "expired"}, user : Users, admin : BOOLEAN]
  BY DEF InviteRows, NotInvited
<1>3. \A c \in Requests : request[c] \in {NoRequest}
          \union [pc : {"find_pending", "create"}, user : Users, admin : BOOLEAN]
          \union [pc : {"accept", "expire"}, invite : Invites]
  BY DEF InvitationsTypeOK
<1>4. \A c \in Requests :
         /\ request[c].pc \in {"accept", "expire"} => request[c].invite \in Invites
         /\ request[c].pc \in {"find_pending", "create"} =>
               request[c] \in [pc : {"find_pending", "create"}, user : Users, admin : BOOLEAN]
  BY <1>3 DEF NoRequest
<1> QED
  BY <1>1, <1>2, <1>4
\* A step that touches no member and no row, and one request at most.
LEMMA RequestMoves ==
    ASSUME InvitationsInv, NEW c \in Requests, NEW f,
           f \in {NoRequest}
              \union [pc : {"find_pending", "create"}, user : Users, admin : BOOLEAN]
              \union [pc : {"accept", "expire"}, invite : Invites],
           f.pc \in {"accept", "expire"} => invite[f.invite].status # "absent",
           request' = [request EXCEPT ![c] = f],
           member' = member, invite' = invite, late' = late
    PROVE  InvitationsInv'
<1>1. InvitationsTypeOK'
  BY DEF InvitationsInv, InvitationsTypeOK
<1>2. \A d \in Requests : request'[d].pc \in {"accept", "expire"} =>
         invite'[request'[d].invite].status # "absent"
  BY DEF InvitationsInv, InvitationsTypeOK
<1> QED
  BY <1>1, <1>2 DEF InvitationsInv, IsMember, Accepted

\* The steps of a request up to its write, and the end of a call.
LEMMA AskingKeeps ==
    ASSUME InvitationsInv, NEW c \in Requests,
           \/ \E u \in Users, admin \in BOOLEAN : BeginInvite(c, u, admin)
           \/ FindPending(c) \/ RequestFails(c) \/ \E i \in Invites : BeginAccept(c, i)
    PROVE  InvitationsInv'
<1>1. InvitationsTypeOK /\ NoRequest.pc = "idle"
  BY DEF InvitationsInv, NoRequest
<1>2. CASE request' = [request EXCEPT ![c] = NoRequest]
              /\ member' = member /\ invite' = invite /\ late' = late
  BY <1>1, <1>2, RequestMoves
<1>3. ASSUME NEW u \in Users, NEW admin \in BOOLEAN, BeginInvite(c, u, admin)
      PROVE  InvitationsInv'
  <2> DEFINE f == [pc |-> "find_pending", user |-> u, admin |-> admin]
  <2>1. f \in [pc : {"find_pending", "create"}, user : Users, admin : BOOLEAN]
        /\ f.pc = "find_pending"
    OBVIOUS
  <2>2. /\ request' = [request EXCEPT ![c] = f]
        /\ member' = member /\ invite' = invite /\ late' = late
    BY <1>3 DEF BeginInvite, Do
  <2> HIDE DEF f
  <2> QED
    BY <2>1, <2>2, RequestMoves
<1>4. CASE FindPending(c)
  <2> DEFINE f == [request[c] EXCEPT !.pc = "create"]
  <2>1. request[c] \in [pc : {"find_pending", "create"}, user : Users, admin : BOOLEAN]
    BY <1>1, <1>4, InviteShape DEF FindPending
  <2>2. f \in [pc : {"find_pending", "create"}, user : Users, admin : BOOLEAN] /\ f.pc = "create"
    BY <2>1
  <2>3. /\ request' = [request EXCEPT ![c] = f] \/ request' = [request EXCEPT ![c] = NoRequest]
        /\ member' = member /\ invite' = invite /\ late' = late
    BY <1>4 DEF FindPending, Do
  <2> HIDE DEF f
  <2> QED
    BY <1>2, <2>2, <2>3, RequestMoves
<1>5. ASSUME NEW i \in Invites, BeginAccept(c, i)
      PROVE  InvitationsInv'
  <2> DEFINE step == IF i \in late THEN "expire" ELSE "accept"
             f == [pc |-> step, invite |-> i]
  <2>1. step \in {"accept", "expire"}
    OBVIOUS
  <2>2. /\ request' = [request EXCEPT ![c] = f] /\ invite[i].status = "pending"
        /\ member' = member /\ invite' = invite /\ late' = late
    BY <1>5 DEF BeginAccept, Do
  <2> HIDE DEF step
  <2>3. f \in [pc : {"accept", "expire"}, invite : Invites] /\ f.invite = i
    BY <2>1
  <2> HIDE DEF f
  <2> QED
    BY <2>2, <2>3, RequestMoves
<1> QED
  BY <1>2, <1>3, <1>4, <1>5 DEF RequestFails, Do

\* The three that write a row.
LEMMA RowsKept ==
    ASSUME InvitationsInv, NEW c \in Requests,
           CreateInvite(c) \/ ExpireInvite(c) \/ AcceptInvite(c)
    PROVE  InvitationsInv'
<1> DEFINE Made == [status : {"pending", "accepted", "expired"}, user : Users, admin : BOOLEAN]
<1>1. /\ InvitationsTypeOK /\ IsMember(Founder) /\ Founder \in Users
      /\ invite \in [Invites -> InviteRows] /\ late' = late
  BY InvitationsAssumption DEF InvitationsInv, InvitationsTypeOK, CreateInvite, ExpireInvite, AcceptInvite
<1>2. request' = [request EXCEPT ![c] = NoRequest]
  BY DEF CreateInvite, ExpireInvite, AcceptInvite, Do
<1>3. /\ request' \in [Requests ->
            {NoRequest}
            \union [pc : {"find_pending", "create"}, user : Users, admin : BOOLEAN]
            \union [pc : {"accept", "expire"}, invite : Invites]]
      /\ \A d \in Requests : request'[d].pc \in {"accept", "expire"} =>
            request[d].pc \in {"accept", "expire"} /\ request'[d] = request[d]
  BY <1>1, <1>2 DEF InvitationsTypeOK, NoRequest
<1>4. Made \subseteq InviteRows
  BY DEF InviteRows
<1>5. ASSUME NEW i \in Invites, NEW row \in Made, invite' = [invite EXCEPT ![i] = row],
             member' \in [Users -> {NoMember} \union [status : {"active", "deactivated"}, admin : BOOLEAN]],
             \A u \in Users : IsMember(u) => IsMember(u)',
             row.status = "accepted" => /\ member[row.user] = NoMember
                                        /\ member'[row.user] # NoMember
                                        /\ invite[i].user = row.user
      PROVE  InvitationsInv'
  <2>1. InvitationsTypeOK'
    <3>1. invite' \in [Invites -> InviteRows]
      BY <1>1, <1>4, <1>5
    <3>2. late' \subseteq Invites
      BY <1>1 DEF InvitationsTypeOK
    <3> QED
      BY <1>3, <1>5, <3>1, <3>2 DEF InvitationsTypeOK
  <2>2. \A d \in Requests : request'[d].pc \in {"accept", "expire"} =>
           invite'[request'[d].invite].status # "absent"
    <3>1. \A j \in Invites : invite[j].status # "absent" => invite'[j].status # "absent"
      BY <1>1, <1>5
    <3> QED
      BY <1>1, <1>3, <3>1, InviteShape DEF InvitationsInv
  <2>3. \A j \in Invites : invite'[j].status = "accepted" /\ j # i => invite'[j] = invite[j]
    BY <1>1, <1>5
  <2>4. invite'[i] = row /\ row.user \in Users
    BY <1>1, <1>5
  <2>5. \A j \in Invites : invite[j].status = "accepted" =>
           invite[j].user \in Users /\ IsMember(invite[j].user)
    <3> SUFFICES ASSUME NEW j \in Invites, invite[j].status = "accepted"
                 PROVE  invite[j].user \in Users /\ IsMember(invite[j].user)
      OBVIOUS
    <3>1. invite[j].user \in Users
      BY <1>1, InviteShape
    <3>2. j \in Accepted(invite[j].user)
      BY DEF Accepted
    <3> QED
      BY <3>1, <3>2 DEF InvitationsInv
  <2>6. \A u \in Users : Accepted(u)' # {} => IsMember(u)' /\ u # Founder
    <3> SUFFICES ASSUME NEW u \in Users, NEW j \in Accepted(u)'
                 PROVE  IsMember(u)' /\ u # Founder
      OBVIOUS
    <3>1. j \in Invites /\ invite'[j].status = "accepted" /\ invite'[j].user = u
      BY DEF Accepted
    <3>2. CASE j = i
      BY <1>1, <1>5, <2>4, <3>1, <3>2 DEF IsMember
    <3>3. CASE j # i
      <4>1. j \in Accepted(u)
        BY <2>3, <3>1, <3>3 DEF Accepted
      <4> QED
        BY <1>5, <4>1 DEF InvitationsInv
    <3> QED
      BY <3>2, <3>3
  <2>7. ASSUME NEW j \in Invites, NEW k \in Invites,
               invite'[j].status = "accepted", invite'[k].status = "accepted",
               invite'[j].user = invite'[k].user
        PROVE  j = k
    <3>1. CASE j # i /\ k # i
      BY <2>3, <2>7, <3>1 DEF InvitationsInv
    <3>2. CASE j = i /\ k # i
      BY <1>5, <2>3, <2>4, <2>5, <2>7, <3>2 DEF IsMember
    <3>3. CASE j # i /\ k = i
      BY <1>5, <2>3, <2>4, <2>5, <2>7, <3>3 DEF IsMember
    <3> QED
      BY <3>1, <3>2, <3>3
  <2>8. IsMember(Founder)'
    BY <1>1, <1>5
  <2> QED
    BY <2>1, <2>2, <2>6, <2>7, <2>8 DEF InvitationsInv
<1>6. CASE CreateInvite(c)
  <2> DEFINE row == [status |-> "pending", user |-> request[c].user, admin |-> request[c].admin]
  <2>1. request[c] \in [pc : {"find_pending", "create"}, user : Users, admin : BOOLEAN]
    BY <1>1, <1>6, InviteShape DEF CreateInvite
  <2>2. row \in Made /\ row.status = "pending"
    BY <2>1
  <2>3. PICK i \in Invites : invite' = [invite EXCEPT ![i] = row]
    BY <1>6 DEF CreateInvite
  <2>4. member' = member
    BY <1>6 DEF CreateInvite
  <2> HIDE DEF row, Made
  <2> QED
    BY <1>1, <1>5, <2>2, <2>3, <2>4 DEF IsMember, InvitationsTypeOK
<1>7. CASE ExpireInvite(c)
  <2> DEFINE i == request[c].invite
             row == [invite[i] EXCEPT !.status = "expired"]
  <2>1. i \in Invites /\ invite[i] \in Made
    BY <1>1, <1>7, InviteShape DEF ExpireInvite, InvitationsInv
  <2>2. row \in Made /\ row.status = "expired"
    BY <2>1
  <2>3. invite' = [invite EXCEPT ![i] = row] /\ member' = member
    BY <1>1, <1>7, <2>1 DEF ExpireInvite
  <2> HIDE DEF row, Made
  <2> QED
    BY <1>1, <1>5, <2>1, <2>2, <2>3 DEF IsMember, InvitationsTypeOK
<1>8. CASE AcceptInvite(c)
  <2> DEFINE i == request[c].invite
             u == invite[i].user
             row == [invite[i] EXCEPT !.status = "accepted"]
             new == [status |-> "active", admin |-> invite[i].admin]
  <2>1. i \in Invites /\ invite[i] \in Made
    BY <1>1, <1>8, InviteShape DEF AcceptInvite, InvitationsInv
  <2>2. row \in Made /\ row.user = u /\ u \in Users
    BY <2>1
  <2>3. new \in [status : {"active", "deactivated"}, admin : BOOLEAN] /\ new # NoMember
    <3>1. new \in [status : {"active", "deactivated"}, admin : BOOLEAN]
      BY <2>1
    <3>2. new.status = "active" /\ NoMember.status = "none"
      BY DEF NoMember
    <3> QED
      BY <3>1, <3>2
  <2>4. CASE UNCHANGED <<member, invite>>
    <3>1. NoRequest.pc = "idle"
      BY DEF NoRequest
    <3> QED
      BY <1>1, <1>2, <2>4, <3>1, RequestMoves
  <2>5. CASE /\ ~ IsMember(u)
             /\ member' = [member EXCEPT ![u] = new]
             /\ invite' = [invite EXCEPT ![i].status = "accepted"]
    <3>1. invite' = [invite EXCEPT ![i] = row]
      BY <1>1, <2>1, <2>5
    <3> HIDE DEF new
    <3>2. member' \in [Users -> {NoMember} \union [status : {"active", "deactivated"}, admin : BOOLEAN]]
      BY <1>1, <2>2, <2>3, <2>5 DEF InvitationsTypeOK
    <3>3. \A v \in Users : IsMember(v) \/ v = u => member'[v] # NoMember
      BY <1>1, <2>2, <2>3, <2>5 DEF InvitationsTypeOK, IsMember
    <3>4. /\ member[row.user] = NoMember /\ member'[row.user] # NoMember
          /\ invite[i].user = row.user
      BY <2>2, <2>5, <3>3 DEF IsMember
    <3> HIDE DEF row, Made
    <3>6. \A v \in Users : IsMember(v) => IsMember(v)'
      BY <3>3 DEF IsMember
    <3> QED
      BY <1>5, <2>1, <2>2, <3>1, <3>2, <3>4, <3>6
  <2> QED
    BY <1>8, <2>4, <2>5 DEF AcceptInvite
<1> QED
  BY <1>6, <1>7, <1>8

LEMMA InvitationsKept == InvitationsInv /\ [InvitationsNext]_inviteVars => InvitationsInv'
<1> SUFFICES ASSUME InvitationsInv, [InvitationsNext]_inviteVars
             PROVE  InvitationsInv'
  OBVIOUS
<1>1. ASSUME NEW c \in Requests,
             \/ \E u \in Users, admin \in BOOLEAN : BeginInvite(c, u, admin)
             \/ FindPending(c) \/ CreateInvite(c)
             \/ \E i \in Invites : BeginAccept(c, i)
             \/ ExpireInvite(c) \/ AcceptInvite(c) \/ RequestFails(c)
      PROVE  InvitationsInv'
  BY <1>1, AskingKeeps, RowsKept
<1>2. CASE UNCHANGED inviteVars \/ \E i \in Invites : InviteLapses(i)
  <2>1. member' = member /\ invite' = invite /\ request' = request /\ late' \subseteq Invites
    BY <1>2 DEF inviteVars, InviteLapses, InvitationsInv, InvitationsTypeOK
  <2> QED
    BY <2>1 DEF InvitationsInv, InvitationsTypeOK, IsMember, Accepted
<1>3. ASSUME NEW u \in Users, Deactivate(u)
      PROVE  InvitationsInv'
  <2> DEFINE Rows2 == [status : {"active", "deactivated"}, admin : BOOLEAN]
             row == [member[u] EXCEPT !.status = "deactivated"]
  <2>1. /\ member \in [Users -> {NoMember} \union Rows2] /\ member[u] # NoMember
        /\ member' = [member EXCEPT ![u] = row]
        /\ invite' = invite /\ late' = late /\ request' = request
    BY <1>3 DEF Deactivate, IsMember, InvitationsInv, InvitationsTypeOK
  <2>2. member[u] \in Rows2
    BY <2>1
  <2>3. row \in Rows2 /\ row.status = "deactivated" /\ NoMember.status = "none"
    BY <2>2 DEF NoMember
  <2>4. row # NoMember
    BY <2>3
  <2> HIDE DEF row, Rows2
  <2>5. /\ member' \in [Users -> {NoMember} \union Rows2]
        /\ \A v \in Users : IsMember(v) => IsMember(v)'
    BY <2>1, <2>3, <2>4 DEF IsMember
  <2>6. InvitationsTypeOK'
    BY <2>1, <2>5 DEF InvitationsInv, InvitationsTypeOK, Rows2
  <2> QED
    BY <2>1, <2>5, <2>6, InvitationsAssumption DEF InvitationsInv, Accepted
<1> QED
  BY <1>1, <1>2, <1>3 DEF InvitationsNext

\* What invitations rest on, in every reachable state.
LEMMA InvitationsAlways == InvitationsSpec => []InvitationsInv
<1>1. InvitationsInit => InvitationsInv
  <2> SUFFICES ASSUME InvitationsInit
               PROVE  InvitationsInv
    OBVIOUS
  <2> DEFINE Rows2 == [status : {"active", "deactivated"}, admin : BOOLEAN]
             first == [status |-> "active", admin |-> TRUE]
  <2>1. first \in Rows2 /\ first.status = "active" /\ NoMember.status = "none"
    BY DEF NoMember
  <2>2. first # NoMember
    BY <2>1
  <2>3. member = [u \in Users |-> IF u = Founder THEN first ELSE NoMember]
    BY DEF InvitationsInit
  <2> HIDE DEF first, Rows2
  <2>4. member \in [Users -> {NoMember} \union Rows2] /\ IsMember(Founder)
    BY <2>1, <2>2, <2>3, InvitationsAssumption DEF IsMember
  <2>5. InvitationsTypeOK
    BY <2>4 DEF InvitationsInit, InvitationsTypeOK, InviteRows, Rows2
  <2>6. /\ \A i \in Invites : invite[i].status = "absent"
        /\ \A c \in Requests : request[c].pc = "idle"
    BY DEF InvitationsInit, NotInvited, NoRequest
  <2> QED
    BY <2>4, <2>5, <2>6 DEF InvitationsInv, Accepted
<1> QED
  BY <1>1, InvitationsKept, PTL DEF InvitationsSpec

(***************************************************************************)
(* Accepting makes the member and closes the invitation in one transaction *)
(* under the unique index: a user accepts one invitation, and only as a    *)
(* new member.                                                             *)
(***************************************************************************)
THEOREM OneAcceptance == InvitationsSpec => []AcceptedOnce
<1>1. InvitationsInv => AcceptedOnce
  <2> SUFFICES ASSUME InvitationsInv, NEW u \in Users
               PROVE  /\ Accepted(u) # {} => IsMember(u) /\ u # Founder
                      /\ Cardinality(Accepted(u)) <= 1
    BY DEF AcceptedOnce
  <2>1. \A i, j \in Accepted(u) : i = j
    BY DEF InvitationsInv, Accepted
  <2>2. CASE Accepted(u) = {}
    BY <2>2, FS_EmptySet
  <2>3. ASSUME NEW i \in Accepted(u)
        PROVE  Cardinality(Accepted(u)) <= 1
    <3>1. Accepted(u) = {i}
      BY <2>1
    <3> QED
      <4>1. Cardinality({i}) = 1
        BY FS_Singleton
      <4> QED
        BY <3>1, <4>1
  <2> QED
    BY <2>2, <2>3 DEF InvitationsInv
<1> QED
  BY <1>1, InvitationsAlways, PTL
-----------------------------------------------------------------------------
(***************************************************************************)
(* Reminders.  While a reminder is not noted, every mail of it is of a     *)
(* sweep about to note it or of a failure, and those are other sweeps than *)
(* the ones that have still to send it.                                    *)
(***************************************************************************)
Reminders == Pendings \X Kinds

Owes(r) == {s \in Sweeps : sweep[s].pc # "idle" /\ r \in sweep[s].todo}

Noting(r) == {s \in Sweeps : sweep[s].pc = "note" /\ sweep[s].of = r}

\* m mails, O sweeps to send and N to note, u failures, the kinds noted.
Tallied(kind, m, O, N, u, noted) ==
    /\ m \in Nat /\ u \in Nat
    /\ O \subseteq Sweeps /\ N \subseteq Sweeps /\ O \intersect N = {}
    /\ m + Cardinality(O) <= Cardinality(Sweeps) + u
    /\ kind \in noted \/ m <= u + Cardinality(N)

RemindersInv ==
    /\ RemindersTypeOK
    /\ \A p \in Pendings : "72h" \in ask[p].age => "24h" \in ask[p].age
    /\ \A r \in Reminders :
          Tallied(r[2], mails[r], Owes(r), Noting(r), unnoted, ask[r[1]].noted)
    /\ \A p \in Pendings :
          mails[<<p, "72h">>] > 0 \/ Owes(<<p, "72h">>) # {} => "24h" \in ask[p].noted

LEMMA SweepsCount ==
    /\ IsFiniteSet(Sweeps) /\ Cardinality(Sweeps) \in Nat
    /\ \A S \in SUBSET Sweeps : IsFiniteSet(S) /\ Cardinality(S) \in Nat
    /\ \A S, T \in SUBSET Sweeps : S \subseteq T => Cardinality(S) <= Cardinality(T)
    /\ \A S \in SUBSET Sweeps : \A s \in S : Cardinality(S \ {s}) = Cardinality(S) - 1
    /\ \A S \in SUBSET Sweeps : \A s : s \notin S => Cardinality(S \union {s}) = Cardinality(S) + 1
<1>1. IsFiniteSet(Sweeps) /\ Cardinality(Sweeps) \in Nat
  BY RemindersAssumption, FS_CardinalityType
<1>2. \A S \in SUBSET Sweeps : IsFiniteSet(S) /\ Cardinality(S) \in Nat
  BY <1>1, FS_Subset, FS_CardinalityType
<1>3. \A S, T \in SUBSET Sweeps : S \subseteq T => Cardinality(S) <= Cardinality(T)
  BY <1>2, FS_Subset
<1>4. \A S \in SUBSET Sweeps : \A s \in S : Cardinality(S \ {s}) = Cardinality(S) - 1
  BY <1>2, FS_RemoveElement
<1>5. \A S \in SUBSET Sweeps : \A s : s \notin S => Cardinality(S \union {s}) = Cardinality(S) + 1
  BY <1>2, FS_AddElement
<1> QED
  BY <1>1, <1>2, <1>3, <1>4, <1>5

\* Fewer to send, no fewer failures, nothing struck off what is noted.
LEMMA TallyShrinks ==
    ASSUME NEW kind, NEW m, NEW O, NEW N, NEW u, NEW noted, Tallied(kind, m, O, N, u, noted),
           NEW P \in SUBSET O, NEW v \in Nat, u <= v, NEW more, noted \subseteq more
    PROVE  Tallied(kind, m, P, N, v, more)
<1>1. /\ Cardinality(P) <= Cardinality(O) /\ Cardinality(P) \in Nat
      /\ Cardinality(O) \in Nat /\ Cardinality(N) \in Nat /\ Cardinality(Sweeps) \in Nat
  BY SweepsCount DEF Tallied
<1> QED
  BY <1>1 DEF Tallied

\* A sweep that is not about to note it finds it due.
LEMMA TallyLists ==
    ASSUME NEW kind, NEW m, NEW O, NEW N, NEW u, NEW noted, Tallied(kind, m, O, N, u, noted),
           kind \notin noted, NEW s \in Sweeps, s \notin N
    PROVE  Tallied(kind, m, O \union {s}, N, u, noted)
<1> DEFINE P == O \union {s}
<1>1. /\ P \in SUBSET Sweeps /\ N \in SUBSET Sweeps /\ P \intersect N = {}
      /\ m \in Nat /\ u \in Nat /\ m <= u + Cardinality(N)
  BY DEF Tallied
<1> HIDE DEF P
<1>2. Cardinality(P) + Cardinality(N) <= Cardinality(Sweeps)
  <2>1. /\ IsFiniteSet(P) /\ IsFiniteSet(N)
        /\ Cardinality(P) \in Nat /\ Cardinality(N) \in Nat /\ Cardinality({}) = 0
    BY <1>1, SweepsCount, FS_EmptySet
  <2>2. Cardinality(P \union N) = Cardinality(P) + Cardinality(N)
    BY <1>1, <2>1, FS_Union
  <2>3. P \union N \in SUBSET Sweeps
    BY <1>1
  <2> QED
    BY <2>2, <2>3, SweepsCount
<1>3. /\ Cardinality(P) \in Nat /\ Cardinality(N) \in Nat /\ Cardinality(Sweeps) \in Nat
  BY <1>1, SweepsCount
<1>4. Tallied(kind, m, P, N, u, noted)
  BY <1>1, <1>2, <1>3 DEF Tallied
<1> QED
  BY <1>4 DEF P

\* A mail goes out, and its sweep has still to note it.
LEMMA TallySends ==
    ASSUME NEW kind, NEW m, NEW O, NEW N, NEW u, NEW noted, Tallied(kind, m, O, N, u, noted),
           NEW s \in O
    PROVE  Tallied(kind, m + 1, O \ {s}, N \union {s}, u, noted)
<1>1. /\ O \in SUBSET Sweeps /\ N \in SUBSET Sweeps /\ s \notin N
      /\ (O \ {s}) \intersect (N \union {s}) = {} /\ N \union {s} \in SUBSET Sweeps
  BY DEF Tallied
<1>2. /\ Cardinality(O \ {s}) = Cardinality(O) - 1
      /\ Cardinality(N \union {s}) = Cardinality(N) + 1
      /\ Cardinality(O) \in Nat /\ Cardinality(N) \in Nat /\ Cardinality(Sweeps) \in Nat
  BY <1>1, SweepsCount
<1> QED
  BY <1>1, <1>2 DEF Tallied

\* It is noted, or its sweep fails before that.
LEMMA TallyNotes ==
    ASSUME NEW kind, NEW m, NEW O, NEW N, NEW u, NEW noted, Tallied(kind, m, O, N, u, noted),
           NEW s \in N
    PROVE  /\ \A more : kind \in more => Tallied(kind, m, O, N \ {s}, u, more)
           /\ Tallied(kind, m, O, N \ {s}, u + 1, noted)
<1>1. N \in SUBSET Sweeps /\ O \intersect (N \ {s}) = {} /\ N \ {s} \subseteq Sweeps
  BY DEF Tallied
<1>2. /\ Cardinality(N \ {s}) = Cardinality(N) - 1
      /\ Cardinality(O) \in Nat /\ Cardinality(N) \in Nat /\ Cardinality(Sweeps) \in Nat
  BY <1>1, SweepsCount DEF Tallied
<1> QED
  BY <1>1, <1>2 DEF Tallied

\* What a sweep looks like.
LEMMA SweepShape ==
    ASSUME RemindersTypeOK
    PROVE  \A s \in Sweeps :
              /\ sweep[s].pc \in {"idle", "next", "note"}
              /\ sweep[s].pc # "idle" => sweep[s].todo \in SUBSET Reminders
              /\ sweep[s].pc = "note" => sweep[s].of \in Reminders
              /\ sweep[s] = NoSweep <=> sweep[s].pc = "idle"
<1>1. \A s \in Sweeps : sweep[s] \in {NoSweep}
          \union [pc : {"next"}, todo : SUBSET (Pendings \X Kinds)]
          \union [pc : {"note"}, todo : SUBSET (Pendings \X Kinds), of : Pendings \X Kinds]
  BY DEF RemindersTypeOK
<1> QED
  BY <1>1 DEF NoSweep, Reminders

SweepRecords ==
    {NoSweep}
    \union [pc : {"next"}, todo : SUBSET Reminders]
    \union [pc : {"note"}, todo : SUBSET Reminders, of : Reminders]

\* What is due is not noted, and the later one only once the earlier is.
LEMMA DueInOrder ==
    ASSUME NEW a, "72h" \in a.age => "24h" \in a.age, NEW kind \in DueReminder(a)
    PROVE  kind \notin a.noted /\ (kind = "72h" => "24h" \in a.noted)
BY DEF DueReminder

LEMMA BeginSweepKeeps ==
    ASSUME RemindersInv, NEW s \in Sweeps, BeginSweep(s)
    PROVE  RemindersInv'
<1> DEFINE due == {r \in Reminders : ask[r[1]].open /\ r[2] \in DueReminder(ask[r[1]])}
           f == [pc |-> "next", todo |-> due]
<1>1. /\ RemindersTypeOK /\ sweep[s].pc = "idle"
      /\ ask' = ask /\ mails' = mails /\ unnoted' = unnoted
  BY DEF RemindersInv, BeginSweep, NoSweep
<1>2. sweep' = [sweep EXCEPT ![s] = f]
  BY DEF BeginSweep, Reminders
<1>3. due \in SUBSET Reminders /\ \A r \in due : r[1] \in Pendings /\ r[2] \in DueReminder(ask[r[1]])
  BY DEF Reminders
<1> HIDE DEF due
<1>4. f \in SweepRecords
  BY <1>3 DEF SweepRecords
<1>5. RemindersTypeOK'
  BY <1>1, <1>2, <1>4 DEF RemindersTypeOK, SweepRecords, Reminders
<1>6. ASSUME NEW r \in Reminders
      PROVE  /\ Noting(r)' = Noting(r) /\ s \notin Noting(r)
             /\ Owes(r)' = IF r \in due THEN Owes(r) \union {s} ELSE Owes(r)
  <2>1. sweep'[s] = f /\ \A d \in Sweeps \ {s} : sweep'[d] = sweep[d]
    BY <1>1, <1>2 DEF RemindersTypeOK
  <2> QED
    BY <1>1, <2>1 DEF Noting, Owes
<1>7. \A r \in due : r[2] \notin ask[r[1]].noted
                    /\ (r[2] = "72h" => "24h" \in ask[r[1]].noted)
  BY <1>3, DueInOrder DEF RemindersInv
<1>8. \A r \in Reminders :
         Tallied(r[2], mails'[r], Owes(r)', Noting(r)', unnoted', ask'[r[1]].noted)
  BY <1>1, <1>6, <1>7, TallyLists DEF RemindersInv
<1>9. ASSUME NEW p \in Pendings, mails'[<<p, "72h">>] > 0 \/ Owes(<<p, "72h">>)' # {}
      PROVE  "24h" \in ask'[p].noted
  <2>1. <<p, "72h">> \in Reminders /\ <<p, "72h">>[1] = p /\ <<p, "72h">>[2] = "72h"
    BY DEF Reminders, Kinds
  <2>2. CASE <<p, "72h">> \in due
    BY <1>1, <1>7, <2>1, <2>2
  <2>3. CASE <<p, "72h">> \notin due
    BY <1>1, <1>6, <1>9, <2>1, <2>3 DEF RemindersInv
  <2> QED
    BY <2>2, <2>3
<1> QED
  BY <1>1, <1>5, <1>8, <1>9 DEF RemindersInv

LEMMA SendKeeps ==
    ASSUME RemindersInv, NEW s \in Sweeps, SendReminders(s)
    PROVE  RemindersInv'
<1>1. RemindersTypeOK /\ ask' = ask /\ unnoted' = unnoted /\ sweep[s].pc = "next"
      /\ sweep[s].todo \in SUBSET Reminders
  BY SweepShape DEF RemindersInv, SendReminders
<1>2. PICK q \in sweep[s].todo :
        /\ mails' = [mails EXCEPT ![q] = @ + 1]
        /\ sweep' = [sweep EXCEPT ![s] = [pc |-> "note", todo |-> sweep[s].todo \ {q}, of |-> q]]
  BY DEF SendReminders
<1> DEFINE f == [pc |-> "note", todo |-> sweep[s].todo \ {q}, of |-> q]
<1>3. q \in Reminders /\ f \in SweepRecords
  BY <1>1, <1>2 DEF SweepRecords
<1>4. RemindersTypeOK'
  BY <1>1, <1>2, <1>3 DEF RemindersTypeOK, SweepRecords, Reminders
<1>5. ASSUME NEW r \in Reminders
      PROVE  /\ r # q => Noting(r)' = Noting(r) /\ Owes(r)' = Owes(r) /\ mails'[r] = mails[r]
             /\ Noting(q)' = Noting(q) \union {s} /\ Owes(q)' = Owes(q) \ {s}
             /\ s \in Owes(q) /\ mails'[q] = mails[q] + 1
  <2>1. sweep'[s] = f /\ \A d \in Sweeps \ {s} : sweep'[d] = sweep[d]
    BY <1>1, <1>2 DEF RemindersTypeOK
  <2>2. mails'[q] = mails[q] + 1 /\ (r # q => mails'[r] = mails[r])
    BY <1>1, <1>2, <1>3 DEF RemindersTypeOK, Reminders
  <2> QED
    BY <1>1, <1>2, <2>1, <2>2 DEF Noting, Owes
<1>6. ASSUME NEW r \in Reminders
      PROVE  Tallied(r[2], mails'[r], Owes(r)', Noting(r)', unnoted', ask'[r[1]].noted)
  <2>1. CASE r = q
    BY <1>1, <1>5, <2>1, TallySends DEF RemindersInv
  <2>2. CASE r # q
    BY <1>1, <1>5, <2>2 DEF RemindersInv
  <2> QED
    BY <2>1, <2>2
<1>7. ASSUME NEW p \in Pendings, mails'[<<p, "72h">>] > 0 \/ Owes(<<p, "72h">>)' # {}
      PROVE  "24h" \in ask'[p].noted
  <2>1. <<p, "72h">> \in Reminders
    BY DEF Reminders, Kinds
  <2>2. CASE <<p, "72h">> = q
    BY <1>1, <1>5, <2>1, <2>2 DEF RemindersInv
  <2>3. CASE <<p, "72h">> # q
    BY <1>1, <1>5, <1>7, <2>1, <2>3 DEF RemindersInv
  <2> QED
    BY <2>2, <2>3
<1> QED
  BY <1>1, <1>4, <1>6, <1>7 DEF RemindersInv

LEMMA NoteKeeps ==
    ASSUME RemindersInv, NEW s \in Sweeps, NoteSent(s)
    PROVE  RemindersInv'
<1> DEFINE q == sweep[s].of
           f == [pc |-> "next", todo |-> sweep[s].todo]
           a == [ask[q[1]] EXCEPT !.noted = @ \union {q[2]}]
<1>1. /\ RemindersTypeOK /\ mails' = mails /\ unnoted' = unnoted /\ sweep[s].pc = "note"
      /\ q \in Reminders /\ sweep[s].todo \in SUBSET Reminders
      /\ q[1] \in Pendings /\ q[2] \in Kinds
  BY SweepShape DEF RemindersInv, NoteSent, Reminders
<1>2. sweep' = [sweep EXCEPT ![s] = f] /\ ask' = [ask EXCEPT ![q[1]] = a]
  BY <1>1 DEF NoteSent, RemindersTypeOK
<1>3. ask[q[1]] \in [open : BOOLEAN, age : SUBSET Kinds, noted : SUBSET Kinds]
  BY <1>1 DEF RemindersTypeOK
<1>4. /\ a \in [open : BOOLEAN, age : SUBSET Kinds, noted : SUBSET Kinds]
      /\ a.age = ask[q[1]].age /\ a.noted = ask[q[1]].noted \union {q[2]}
  BY <1>1, <1>3
<1>5. f \in SweepRecords
  BY <1>1 DEF SweepRecords
<1> HIDE DEF a
<1>6. RemindersTypeOK'
  BY <1>1, <1>2, <1>4, <1>5 DEF RemindersTypeOK, SweepRecords, Reminders
<1>7. \A p \in Pendings : /\ ask'[p].age = ask[p].age
                          /\ ask[p].noted \subseteq ask'[p].noted
                          /\ p = q[1] => q[2] \in ask'[p].noted
  BY <1>1, <1>2, <1>4 DEF RemindersTypeOK
<1>8. ASSUME NEW r \in Reminders
      PROVE  /\ Owes(r)' = Owes(r)
             /\ r # q => Noting(r)' = Noting(r)
             /\ r = q => Noting(r)' = Noting(r) \ {s} /\ s \in Noting(r)
  <2>1. sweep'[s] = f /\ \A d \in Sweeps \ {s} : sweep'[d] = sweep[d]
    BY <1>1, <1>2 DEF RemindersTypeOK
  <2> QED
    BY <1>1, <2>1 DEF Noting, Owes
<1>9. ASSUME NEW r \in Reminders
      PROVE  Tallied(r[2], mails'[r], Owes(r)', Noting(r)', unnoted', ask'[r[1]].noted)
  <2>1. r[1] \in Pendings /\ ask[r[1]].noted \subseteq ask'[r[1]].noted
    BY <1>7 DEF Reminders
  <2>2. Tallied(r[2], mails[r], Owes(r), Noting(r), unnoted, ask[r[1]].noted)
    BY DEF RemindersInv
  <2>3. CASE r = q
    <3>1. s \in Noting(r) /\ Noting(r)' = Noting(r) \ {s} /\ Owes(r)' = Owes(r)
      BY <1>8, <2>3
    <3>2. r[2] \in ask'[r[1]].noted
      BY <1>7, <2>1, <2>3
    <3>3. Tallied(r[2], mails[r], Owes(r), Noting(r) \ {s}, unnoted, ask'[r[1]].noted)
      BY <2>2, <3>1, <3>2, TallyNotes
    <3> QED
      BY <1>1, <3>1, <3>3
  <2>4. CASE r # q
    <3>1. unnoted \in Nat /\ unnoted <= unnoted
      BY <2>2 DEF Tallied
    <3> QED
      BY <1>1, <1>8, <2>1, <2>2, <2>4, <3>1, TallyShrinks
  <2> QED
    BY <2>3, <2>4
<1>10. ASSUME NEW p \in Pendings, mails'[<<p, "72h">>] > 0 \/ Owes(<<p, "72h">>)' # {}
       PROVE  "24h" \in ask'[p].noted
  <2>1. <<p, "72h">> \in Reminders
    BY DEF Reminders, Kinds
  <2> QED
    BY <1>1, <1>7, <1>8, <1>10, <2>1 DEF RemindersInv
<1> QED
  BY <1>6, <1>7, <1>9, <1>10 DEF RemindersInv

\* A sweep that is done, or that fails.
LEMMA EndKeeps ==
    ASSUME RemindersInv, NEW s \in Sweeps, EndSweep(s) \/ SweepFails(s)
    PROVE  RemindersInv'
<1>1. /\ RemindersTypeOK /\ ask' = ask /\ mails' = mails
      /\ sweep' = [sweep EXCEPT ![s] = NoSweep]
      /\ \/ sweep[s].pc # "note" /\ unnoted' = unnoted
         \/ sweep[s].pc = "note" /\ unnoted' = unnoted + 1 /\ unnoted < MaxUnnoted
  BY DEF RemindersInv, EndSweep, SweepFails
<1>2. unnoted' \in 0 .. MaxUnnoted /\ unnoted' \in Nat /\ unnoted \in Nat /\ unnoted <= unnoted'
  BY <1>1, RemindersAssumption DEF RemindersTypeOK
<1>3. RemindersTypeOK'
  BY <1>1, <1>2 DEF RemindersTypeOK
<1>4. ASSUME NEW r \in Reminders
      PROVE  Owes(r)' \subseteq Owes(r) /\ Noting(r)' = Noting(r) \ {s}
  <2>1. sweep'[s] = NoSweep /\ \A d \in Sweeps \ {s} : sweep'[d] = sweep[d]
    BY <1>1 DEF RemindersTypeOK
  <2>2. NoSweep.pc = "idle"
    BY DEF NoSweep
  <2> QED
    BY <2>1, <2>2 DEF Noting, Owes
<1>5. ASSUME NEW r \in Reminders
      PROVE  Tallied(r[2], mails'[r], Owes(r)', Noting(r)', unnoted', ask'[r[1]].noted)
  <2>1. Tallied(r[2], mails[r], Owes(r), Noting(r), unnoted, ask[r[1]].noted)
    BY DEF RemindersInv
  <2>2. CASE s \in Noting(r)
    <3>1. unnoted' = unnoted + 1
      BY <1>1, <2>2 DEF Noting
    <3>2. Tallied(r[2], mails[r], Owes(r), Noting(r) \ {s}, unnoted', ask[r[1]].noted)
      BY <2>1, <2>2, <3>1, TallyNotes
    <3>3. Tallied(r[2], mails[r], Owes(r)', Noting(r) \ {s}, unnoted', ask[r[1]].noted)
      BY <1>2, <1>4, <3>2, TallyShrinks
    <3> QED
      BY <1>1, <1>4, <3>3
  <2>3. CASE s \notin Noting(r)
    <3>1. Noting(r)' = Noting(r)
      BY <1>4, <2>3
    <3>2. Tallied(r[2], mails[r], Owes(r)', Noting(r), unnoted', ask[r[1]].noted)
      BY <1>2, <1>4, <2>1, TallyShrinks
    <3> QED
      BY <1>1, <3>1, <3>2
  <2> QED
    BY <2>2, <2>3
<1>6. ASSUME NEW p \in Pendings, mails'[<<p, "72h">>] > 0 \/ Owes(<<p, "72h">>)' # {}
      PROVE  "24h" \in ask'[p].noted
  <2>1. <<p, "72h">> \in Reminders
    BY DEF Reminders, Kinds
  <2> QED
    BY <1>1, <1>4, <1>6, <2>1 DEF RemindersInv
<1> QED
  BY <1>1, <1>3, <1>5, <1>6 DEF RemindersInv

\* The request grows older, or is closed: nothing the sweeps count on changes.
LEMMA AskKeeps ==
    ASSUME RemindersInv, NEW p \in Pendings, Ages(p) \/ Closes(p)
    PROVE  RemindersInv'
<1> DEFINE Asks == [open : BOOLEAN, age : SUBSET Kinds, noted : SUBSET Kinds]
<1>1. /\ RemindersTypeOK /\ sweep' = sweep /\ mails' = mails /\ unnoted' = unnoted
      /\ ask \in [Pendings -> Asks]
      /\ "72h" \in ask[p].age => "24h" \in ask[p].age
  BY DEF RemindersInv, Ages, Closes, RemindersTypeOK
<1>2. PICK a \in Asks : /\ ask' = [ask EXCEPT ![p] = a] /\ a.noted = ask[p].noted
                        /\ "72h" \in a.age => "24h" \in a.age
  <2>1. CASE Closes(p)
    <3> DEFINE a == [ask[p] EXCEPT !.open = FALSE]
    <3>1. a \in Asks /\ a.noted = ask[p].noted /\ a.age = ask[p].age
      BY <1>1
    <3>2. ask' = [ask EXCEPT ![p] = a]
      BY <1>1, <2>1 DEF Closes
    <3> QED
      BY <1>1, <3>1, <3>2
  <2>2. CASE Ages(p)
    <3> DEFINE older == IF ask[p].age = {} THEN {"24h"} ELSE Kinds
               a == [ask[p] EXCEPT !.age = older]
    <3>1. older \in SUBSET Kinds /\ "24h" \in older
      BY DEF Kinds
    <3>2. ask' = [ask EXCEPT ![p] = a]
      BY <1>1, <2>2 DEF Ages
    <3> HIDE DEF older
    <3>3. a \in Asks /\ a.noted = ask[p].noted /\ a.age = older
      BY <1>1, <3>1
    <3> QED
      BY <3>1, <3>2, <3>3
  <2> QED
    BY <2>1, <2>2
<1>3. ask' \in [Pendings -> Asks]
  BY <1>1, <1>2
<1>4. RemindersTypeOK'
  BY <1>1, <1>3 DEF RemindersTypeOK
<1>5. \A r : Owes(r)' = Owes(r) /\ Noting(r)' = Noting(r)
  BY <1>1 DEF Owes, Noting
<1>6. \A d \in Pendings : /\ ask'[d].noted = ask[d].noted
                          /\ "72h" \in ask'[d].age => "24h" \in ask'[d].age
  BY <1>1, <1>2 DEF RemindersInv
<1>7. \A r \in Reminders : r[1] \in Pendings
  BY DEF Reminders
<1> QED
  BY <1>1, <1>4, <1>5, <1>6, <1>7 DEF RemindersInv

\* What reminders rest on, in every reachable state.
LEMMA RemindersAlways == RemindersSpec => []RemindersInv
<1>1. RemindersInit => RemindersInv
  <2> SUFFICES ASSUME RemindersInit
               PROVE  RemindersInv
    OBVIOUS
  <2>1. /\ ask = [p \in Pendings |-> [open |-> TRUE, age |-> {}, noted |-> {}]]
        /\ sweep = [s \in Sweeps |-> NoSweep] /\ NoSweep.pc = "idle"
        /\ mails = [r \in Reminders |-> 0] /\ unnoted = 0 /\ 0 \in 0 .. MaxUnnoted
    BY RemindersAssumption DEF RemindersInit, NoSweep, Reminders
  <2>2. \A p \in Pendings : ask[p].age = {}
    BY <2>1
  <2>3. ask \in [Pendings -> [open : BOOLEAN, age : SUBSET Kinds, noted : SUBSET Kinds]]
    BY <2>1
  <2>4. RemindersTypeOK
    BY <2>1, <2>3 DEF RemindersTypeOK, Reminders
  <2>5. \A r : Owes(r) = {} /\ Noting(r) = {}
    BY <2>1 DEF Owes, Noting
  <2>6. ASSUME NEW kind, NEW noted
        PROVE  Tallied(kind, 0, {}, {}, 0, noted)
    BY FS_EmptySet, SweepsCount DEF Tallied
  <2>7. \A r \in Reminders :
           Tallied(r[2], mails[r], Owes(r), Noting(r), unnoted, ask[r[1]].noted)
    BY <2>1, <2>5, <2>6
  <2>8. \A p \in Pendings : mails[<<p, "72h">>] = 0
    BY <2>1 DEF Reminders, Kinds
  <2> QED
    BY <2>2, <2>4, <2>5, <2>7, <2>8 DEF RemindersInv
<1>2. RemindersInv /\ [RemindersNext]_reminderVars => RemindersInv'
  <2> SUFFICES ASSUME RemindersInv, [RemindersNext]_reminderVars
               PROVE  RemindersInv'
    OBVIOUS
  <2>1. CASE UNCHANGED reminderVars
    <3>1. ask' = ask /\ sweep' = sweep /\ mails' = mails /\ unnoted' = unnoted
      BY <2>1 DEF reminderVars
    <3> QED
      BY <3>1 DEF RemindersInv, RemindersTypeOK, Owes, Noting
  <2> QED
    BY <2>1, BeginSweepKeeps, SendKeeps, NoteKeeps, EndKeeps, AskKeeps DEF RemindersNext
<1> QED
  BY <1>1, <1>2, PTL DEF RemindersSpec

(***************************************************************************)
(* The reminder sweep sends and then notes: a reminder goes out once, and  *)
(* again only from sweeps that overlapped or after a failure in between,   *)
(* and the later one never before the earlier is noted.                    *)
(***************************************************************************)
THEOREM RemindersInOrder == RemindersSpec => []RemindedOnceInOrder
<1>1. RemindersInv => RemindedOnceInOrder
  <2> SUFFICES ASSUME RemindersInv, NEW p \in Pendings
               PROVE  /\ \A kind \in Kinds : mails[<<p, kind>>] + Cardinality(Owing(p, kind))
                                              <= Cardinality(Sweeps) + unnoted
                      /\ mails[<<p, "72h">>] > 0 => "24h" \in ask[p].noted
    BY DEF RemindedOnceInOrder
  <2>1. ASSUME NEW kind \in Kinds
        PROVE  mails[<<p, kind>>] + Cardinality(Owing(p, kind)) <= Cardinality(Sweeps) + unnoted
    <3>1. <<p, kind>> \in Reminders /\ Owing(p, kind) = Owes(<<p, kind>>)
      BY DEF Reminders, Owing, Owes
    <3> QED
      BY <3>1 DEF RemindersInv, Tallied
  <2> QED
    BY <2>1 DEF RemindersInv
<1> QED
  BY <1>1, RemindersAlways, PTL
-----------------------------------------------------------------------------
(***************************************************************************)
(* Exports.  As long as no two deliveries were running at once, the one    *)
(* that runs has a whole file behind it from its upload on, no longer than *)
(* the events it counts after, and none runs once an export is completed.  *)
(***************************************************************************)
\* What a delivery has behind it.
FileBehind ==
    \A d \in Deliveries :
        /\ delivery[d].pc = "count" => file.state = "whole" /\ file.rows <= events
        /\ delivery[d].pc = "complete" => file.state = "whole" /\ file.rows <= delivery[d].rowCount

CompletedInv ==
    /\ export.status = "completed" =>
          Running = {} /\ file.state = "whole" /\ file.rows <= export.rowCount
    /\ download \in {"presign", "offered"} => export.status = "completed"

\* Nothing is delivered before the row is there and its job is queued.
BeforeQueued ==
    /\ requesting = "idle" => export.status = "absent"
    /\ ~ jobQueued => Running = {} /\ export.status \in {"absent", "pending"}
    /\ requesting \in {"idle", "enqueue"} => ~ jobQueued

DirectInv ==
    /\ direct.pc = "stream" => direct.rowCount <= events
    /\ direct.pc = "streamed" => direct.rowCount <= direct.rows

ExportsInv ==
    /\ AuditExportsTypeOK
    /\ BeforeQueued
    /\ DirectInv
    /\ ~ overlapped => /\ \A d, e \in Running : d = e
                       /\ FileBehind
                       /\ CompletedInv

\* What a step of one delivery leaves to be shown.
LEMMA DeliveryTyped ==
    ASSUME AuditExportsTypeOK, NEW d \in Deliveries,
           NEW f \in DeliveryRecords, delivery' = [delivery EXCEPT ![d] = f]
    PROVE  /\ delivery' \in [Deliveries -> DeliveryRecords] /\ delivery'[d] = f
           /\ \A e \in Deliveries : e # d => delivery'[e] = delivery[e]
BY DEF AuditExportsTypeOK

LEMMA StepTyped ==
    ASSUME NEW pc \in {"idle", "start", "open_file", "upload", "count", "write_failed"}
    PROVE  [pc |-> pc] \in DeliveryRecords
BY DEF DeliveryRecords

\* Idle is what has no other step.
LEMMA RunningSteps ==
    ASSUME AuditExportsTypeOK, NEW d \in Deliveries
    PROVE  d \in Running <=> delivery[d].pc # "idle"
<1>1. delivery[d] \in DeliveryRecords
  BY DEF AuditExportsTypeOK
<1> QED
  BY <1>1 DEF Running, NoDelivery, DeliveryRecords

ExportRecords ==
    [status : {"absent", "pending", "processing", "completed", "failed"}, rowCount : 0 .. MaxEvents]

FileRecords == [state : {"none", "partial", "whole"}, rows : 0 .. MaxEvents]

\* A running delivery takes a step: if it has run alone, nothing else runs and
\* nothing was reported yet.
LEMMA DeliveryMoves ==
    ASSUME ExportsInv, NEW d \in Deliveries, d \in Running,
           NEW f \in DeliveryRecords, delivery' = [delivery EXCEPT ![d] = f],
           UNCHANGED <<events, overlapped, requesting, jobQueued, download, direct>>,
           export' \in ExportRecords, file' \in FileRecords,
           ~ overlapped => /\ f.pc = "count" => file'.state = "whole" /\ file'.rows <= events
                           /\ f.pc = "complete" => file'.state = "whole" /\ file'.rows <= f.rowCount
                           /\ export'.status = "completed" =>
                                 /\ f.pc = "idle" /\ file'.state = "whole"
                                 /\ file'.rows <= export'.rowCount
    PROVE  ExportsInv'
<1>1. /\ AuditExportsTypeOK
      /\ delivery' \in [Deliveries -> DeliveryRecords] /\ delivery'[d] = f
      /\ \A e \in Deliveries : e # d => delivery'[e] = delivery[e]
  BY DeliveryTyped DEF ExportsInv
<1>2. AuditExportsTypeOK'
  BY <1>1 DEF AuditExportsTypeOK, ExportRecords, FileRecords
<1>3. jobQueued /\ requesting \notin {"idle", "enqueue"}
  BY DEF ExportsInv, BeforeQueued
<1>4. BeforeQueued' /\ DirectInv'
  BY <1>3 DEF ExportsInv, BeforeQueued, DirectInv
<1>5. ASSUME ~ overlapped
      PROVE  /\ \A e \in Deliveries : e # d => delivery'[e].pc = "idle"
             /\ download \notin {"presign", "offered"}
  <2>1. \A e \in Deliveries : e # d => e \notin Running
    BY <1>5 DEF ExportsInv
  <2>2. export.status # "completed"
    BY <1>5 DEF ExportsInv, CompletedInv
  <2> QED
    BY <1>1, <1>5, <2>1, <2>2, RunningSteps DEF ExportsInv, CompletedInv
<1>6. ASSUME ~ overlapped
      PROVE  FileBehind'
  BY <1>1, <1>5, <1>6 DEF FileBehind
<1>7. \A e \in Deliveries : e \in Running' => delivery'[e].pc # "idle"
  <2> SUFFICES ASSUME NEW e \in Deliveries, delivery'[e].pc = "idle"
               PROVE  e \notin Running'
    OBVIOUS
  <2>1. delivery'[e] \in DeliveryRecords
    BY <1>1
  <2>2. delivery'[e] = NoDelivery
    BY <2>1 DEF DeliveryRecords, NoDelivery
  <2> QED
    BY <2>2 DEF Running, NoDelivery
<1>8. ASSUME ~ overlapped
      PROVE  \A e, g \in Running' : e = g
  BY <1>5, <1>7, <1>8 DEF Running
<1>9. ASSUME ~ overlapped
      PROVE  CompletedInv'
  <2>1. ASSUME export'.status = "completed"
        PROVE  Running' = {}
    <3>1. \A e \in Deliveries : delivery'[e].pc = "idle"
      BY <1>1, <1>5, <1>9, <2>1
    <3> QED
      BY <1>7, <3>1 DEF Running
  <2> QED
    BY <1>5, <1>9, <2>1 DEF CompletedInv
<1> QED
  BY <1>2, <1>4, <1>6, <1>8, <1>9 DEF ExportsInv

LEMMA DeliverySteps ==
    ASSUME ExportsInv, NEW d \in Deliveries,
           \/ MarkProcessing(d) \/ OpenFile(d) \/ Upload(d) \/ CountInRange(d)
           \/ Complete(d) \/ WriteFailed(d) \/ DeliveryDies(d)
    PROVE  ExportsInv'
<1>1. /\ AuditExportsTypeOK /\ export \in ExportRecords /\ file \in FileRecords
      /\ events \in 0 .. MaxEvents /\ MaxEvents \in Nat /\ delivery[d] \in DeliveryRecords
  BY AuditExportsAssumption DEF ExportsInv, AuditExportsTypeOK, ExportRecords, FileRecords
<1>2. delivery[d].pc # "idle" => d \in Running
  BY <1>1, RunningSteps
<1>3. /\ UNCHANGED <<events, overlapped, requesting, jobQueued, download, direct>>
      /\ d \in Running
  BY <1>2 DEF MarkProcessing, OpenFile, Upload, CountInRange, Complete, WriteFailed,
              DeliveryDies, requestVars
<1>4. ~ overlapped => export.status # "completed"
  BY <1>3 DEF ExportsInv, CompletedInv
<1>5. CASE MarkProcessing(d)
  <2> DEFINE f == [pc |-> "open_file"]
  <2>1. export' \in ExportRecords /\ export'.status = "processing"
    BY <1>1, <1>5 DEF MarkProcessing, ExportRecords
  <2>2. f \in DeliveryRecords /\ file' = file /\ delivery' = [delivery EXCEPT ![d] = f]
    BY <1>5, StepTyped DEF MarkProcessing, Proceed
  <2> QED
    BY <1>1, <1>3, <2>1, <2>2, DeliveryMoves
<1>6. CASE OpenFile(d)
  <2>1. PICK pc \in {"upload", "write_failed"} : delivery' = [delivery EXCEPT ![d] = [pc |-> pc]]
    BY <1>6 DEF OpenFile, ProceedOrFail, Proceed
  <2>2. export' = export /\ file' \in FileRecords
    <3>1. [state |-> "partial", rows |-> 0] \in FileRecords
      BY <1>1 DEF FileRecords
    <3> QED
      BY <1>1, <1>6, <3>1 DEF OpenFile
  <2>3. [pc |-> pc] \in DeliveryRecords
    BY StepTyped
  <2> QED
    BY <1>1, <1>3, <1>4, <2>1, <2>2, <2>3, DeliveryMoves
<1>7. CASE Upload(d)
  <2>1. PICK pc \in {"count", "write_failed"} : delivery' = [delivery EXCEPT ![d] = [pc |-> pc]]
    BY <1>7 DEF Upload, ProceedOrFail, Proceed
  <2> DEFINE g == [state |-> "whole", rows |-> events]
  <2>2. export' = export /\ file' = g
    BY <1>7 DEF Upload
  <2>3. g \in FileRecords /\ g.state = "whole" /\ g.rows = events
    BY <1>1 DEF FileRecords
  <2>4. [pc |-> pc] \in DeliveryRecords
    BY StepTyped
  <2> HIDE DEF g
  <2>5. file' \in FileRecords /\ file'.state = "whole" /\ file'.rows <= events
    BY <1>1, <2>2, <2>3
  <2>6. [pc |-> pc].pc \notin {"complete", "idle"}
    OBVIOUS
  <2> QED
    BY <1>1, <1>3, <1>4, <2>1, <2>2, <2>4, <2>5, <2>6, DeliveryMoves
<1>8. CASE CountInRange(d)
  <2>1. export' = export /\ file' = file /\ delivery[d].pc = "count"
    BY <1>8 DEF CountInRange
  <2>2. CASE Proceed(d, "write_failed")
    <3>1. [pc |-> "write_failed"] \in DeliveryRecords
      BY StepTyped
    <3> QED
      BY <1>1, <1>3, <1>4, <2>1, <2>2, <3>1, DeliveryMoves DEF Proceed
  <2>3. CASE delivery' = [delivery EXCEPT ![d] = [pc |-> "complete", rowCount |-> events]]
    <3> DEFINE f == [pc |-> "complete", rowCount |-> events]
    <3>1. f \in DeliveryRecords /\ f.pc = "complete" /\ f.rowCount = events
      BY <1>1 DEF DeliveryRecords
    <3>2. delivery' = [delivery EXCEPT ![d] = f]
      BY <2>3
    <3> HIDE DEF f
    <3>3. ~ overlapped => file.state = "whole" /\ file.rows <= f.rowCount
      BY <2>1, <3>1 DEF ExportsInv, FileBehind
    <3> QED
      BY <1>1, <1>3, <1>4, <2>1, <3>1, <3>2, <3>3, DeliveryMoves
  <2> QED
    BY <1>8, <2>2, <2>3 DEF CountInRange
<1>9. CASE Complete(d)
  <2>1. file' = file /\ delivery[d].pc = "complete" /\ delivery[d].rowCount \in 0 .. MaxEvents
    BY <1>1, <1>9 DEF Complete, DeliveryRecords
  <2>2. CASE UNCHANGED export /\ Proceed(d, "write_failed")
    <3>1. [pc |-> "write_failed"] \in DeliveryRecords
      BY StepTyped
    <3> QED
      BY <1>1, <1>3, <1>4, <2>1, <2>2, <3>1, DeliveryMoves DEF Proceed
  <2>3. CASE /\ export' = [status |-> "completed", rowCount |-> delivery[d].rowCount]
             /\ Proceed(d, "idle")
    <3>1. export' \in ExportRecords /\ export'.rowCount = delivery[d].rowCount
      BY <2>1, <2>3 DEF ExportRecords
    <3>2. ~ overlapped => file.state = "whole" /\ file.rows <= export'.rowCount
      BY <2>1, <3>1 DEF ExportsInv, FileBehind
    <3>3. [pc |-> "idle"] \in DeliveryRecords
      BY StepTyped
    <3> QED
      BY <1>1, <1>3, <2>1, <2>3, <3>1, <3>2, <3>3, DeliveryMoves DEF Proceed
  <2> QED
    BY <1>9, <2>2, <2>3 DEF Complete
<1>10. CASE WriteFailed(d)
  <2>1. export' \in ExportRecords /\ export'.status = "failed"
    BY <1>1, <1>10 DEF WriteFailed, ExportRecords
  <2>2. [pc |-> "idle"] \in DeliveryRecords
    BY StepTyped
  <2> QED
    BY <1>1, <1>3, <1>10, <2>1, <2>2, DeliveryMoves DEF WriteFailed, Proceed
<1>11. CASE DeliveryDies(d)
  <2>1. [pc |-> "idle"] \in DeliveryRecords
    BY StepTyped
  <2> QED
    BY <1>1, <1>3, <1>4, <1>11, <2>1, DeliveryMoves DEF DeliveryDies, Proceed
<1> QED
  BY <1>5, <1>6, <1>7, <1>8, <1>9, <1>10, <1>11

\* Another delivery begins: if one is running already, they overlap from now on.
LEMMA DeliverKeeps ==
    ASSUME ExportsInv, NEW d \in Deliveries, Deliver(d)
    PROVE  ExportsInv'
<1> DEFINE f == [pc |-> "start"]
<1>1. /\ AuditExportsTypeOK /\ delivery[d] = NoDelivery /\ jobQueued /\ export.status # "completed"
      /\ UNCHANGED <<events, export, file, requesting, jobQueued, download, direct>>
      /\ overlapped' = (overlapped \/ Running # {})
      /\ f \in DeliveryRecords /\ delivery' = [delivery EXCEPT ![d] = f]
  BY StepTyped DEF ExportsInv, Deliver, Proceed, requestVars
<1>2. /\ delivery' \in [Deliveries -> DeliveryRecords] /\ delivery'[d] = f
      /\ \A e \in Deliveries : e # d => delivery'[e] = delivery[e]
  BY <1>1, DeliveryTyped
<1>3. overlapped' \in BOOLEAN
  BY <1>1
<1>4. AuditExportsTypeOK'
  BY <1>1, <1>2, <1>3 DEF AuditExportsTypeOK
<1>5. BeforeQueued' /\ DirectInv'
  BY <1>1 DEF ExportsInv, BeforeQueued, DirectInv
<1>6. ASSUME ~ overlapped'
      PROVE  ~ overlapped /\ Running = {} /\ Running' \subseteq {d}
  <2>1. ~ overlapped /\ Running = {}
    BY <1>1, <1>6
  <2> QED
    BY <1>2, <2>1 DEF Running
<1>7. ASSUME ~ overlapped'
      PROVE  /\ \A e, g \in Running' : e = g
             /\ FileBehind' /\ CompletedInv'
  <2>1. \A e \in Deliveries : delivery'[e].pc \notin {"count", "complete"}
    BY <1>1, <1>2, <1>6, <1>7, RunningSteps
  <2> QED
    BY <1>1, <1>6, <1>7, <2>1 DEF FileBehind, CompletedInv, ExportsInv
<1> QED
  BY <1>4, <1>5, <1>7 DEF ExportsInv

\* The requests, and the events.
LEMMA RequestSteps ==
    ASSUME ExportsInv,
           \/ AppendEvent \/ CreateExport \/ Enqueue \/ GetExport \/ OfferDownload
           \/ CountForExport \/ StreamCsv
    PROVE  ExportsInv'
<1>1. /\ AuditExportsTypeOK /\ events \in 0 .. MaxEvents /\ MaxEvents \in Nat
      /\ SYNC_EXPORT_ROW_LIMIT \in Nat
      /\ direct \in [pc : {"idle", "stream", "too_large", "streamed"},
                     rowCount : 0 .. MaxEvents, rows : 0 .. MaxEvents]
      /\ file.rows \in Nat
      /\ \A d \in Deliveries : delivery[d] \in DeliveryRecords
  BY AuditExportsAssumption DEF ExportsInv, AuditExportsTypeOK
<1>2. UNCHANGED <<file, delivery, overlapped>> /\ Running' = Running
  BY DEF AppendEvent, CreateExport, Enqueue, GetExport, OfferDownload, CountForExport, StreamCsv,
         requestVars, Running
<1>3. CASE AppendEvent
  <2>1. /\ events' \in 0 .. MaxEvents /\ events <= events' /\ \A n \in Nat : n <= events => n <= events'
        /\ UNCHANGED <<export, requesting, jobQueued, download, direct>>
    BY <1>1, <1>3 DEF AppendEvent, requestVars
  <2>2. AuditExportsTypeOK'
    BY <1>1, <1>2, <2>1 DEF AuditExportsTypeOK
  <2>3. FileBehind => FileBehind'
    BY <1>1, <1>2, <2>1 DEF FileBehind
  <2>4. DirectInv'
    BY <1>1, <2>1 DEF ExportsInv, DirectInv
  <2> QED
    BY <1>2, <2>1, <2>2, <2>3, <2>4 DEF ExportsInv, BeforeQueued, CompletedInv
<1>4. CASE CreateExport
  <2>1. /\ requesting = "idle" /\ requesting' = "enqueue" /\ export' = PendingExport
        /\ UNCHANGED <<events, jobQueued, download, direct>>
    BY <1>4 DEF CreateExport
  <2>2. PendingExport \in ExportRecords /\ PendingExport.status = "pending"
    BY <1>1 DEF PendingExport, ExportRecords
  <2>3. AuditExportsTypeOK'
    BY <1>1, <1>2, <2>1, <2>2 DEF AuditExportsTypeOK, ExportRecords
  <2>4. ~ jobQueued /\ Running = {} /\ export.status = "absent"
    BY <2>1 DEF ExportsInv, BeforeQueued
  <2> QED
    BY <1>2, <2>1, <2>2, <2>3, <2>4 DEF ExportsInv, BeforeQueued, CompletedInv, FileBehind, DirectInv
<1>5. CASE Enqueue
  <2>1. /\ requesting = "enqueue" /\ requesting' \in {"created", "failed"} /\ jobQueued' \in BOOLEAN
        /\ UNCHANGED <<events, export, download, direct>>
    BY <1>5 DEF Enqueue
  <2>2. AuditExportsTypeOK'
    BY <1>1, <1>2, <2>1 DEF AuditExportsTypeOK
  <2>3. ~ jobQueued
    BY <2>1 DEF ExportsInv, BeforeQueued
  <2> QED
    BY <1>2, <2>1, <2>2, <2>3 DEF ExportsInv, BeforeQueued, CompletedInv, FileBehind, DirectInv
<1>6. CASE GetExport \/ OfferDownload
  <2>1. /\ download' \in {"not_found", "presign", "not_ready", "offered"}
        /\ download' \in {"presign", "offered"} =>
              export.status = "completed" \/ download \in {"presign", "offered"}
        /\ UNCHANGED <<events, export, requesting, jobQueued, direct>>
    BY <1>6 DEF GetExport, OfferDownload
  <2>2. AuditExportsTypeOK'
    BY <1>1, <1>2, <2>1 DEF AuditExportsTypeOK
  <2> QED
    BY <1>2, <2>1, <2>2 DEF ExportsInv, BeforeQueued, CompletedInv, FileBehind, DirectInv
<1>7. CASE CountForExport \/ StreamCsv
  <2>1. UNCHANGED <<events, export, requesting, jobQueued, download>>
    BY <1>7 DEF CountForExport, StreamCsv
  <2>2. /\ direct' \in [pc : {"idle", "stream", "too_large", "streamed"},
                         rowCount : 0 .. MaxEvents, rows : 0 .. MaxEvents]
        /\ direct'.pc = "stream" => direct'.rowCount <= events
        /\ direct'.pc = "streamed" => direct'.rowCount <= direct'.rows
    <3>1. CASE CountForExport
      <4> DEFINE pc == IF events > SYNC_EXPORT_ROW_LIMIT THEN "too_large" ELSE "stream"
      <4>1. pc \in {"too_large", "stream"}
        OBVIOUS
      <4>2. direct' = [direct EXCEPT !.rowCount = events, !.pc = pc]
        BY <3>1 DEF CountForExport
      <4> HIDE DEF pc
      <4>3. direct' \in [pc : {"idle", "stream", "too_large", "streamed"},
                         rowCount : 0 .. MaxEvents, rows : 0 .. MaxEvents]
        BY <1>1, <4>1, <4>2
      <4>4. direct'.pc = pc /\ direct'.rowCount = events
        BY <1>1, <4>2
      <4> QED
        BY <1>1, <4>1, <4>3, <4>4
    <3>2. CASE StreamCsv
      <4>1. direct.pc = "stream" /\ direct' = [direct EXCEPT !.pc = "streamed", !.rows = events]
        BY <3>2 DEF StreamCsv
      <4>2. direct.rowCount <= events
        BY <4>1 DEF ExportsInv, DirectInv
      <4> QED
        BY <1>1, <4>1, <4>2
    <3> QED
      BY <1>7, <3>1, <3>2
  <2>3. AuditExportsTypeOK'
    BY <1>1, <1>2, <2>1, <2>2 DEF AuditExportsTypeOK
  <2> QED
    BY <1>2, <2>1, <2>2, <2>3 DEF ExportsInv, BeforeQueued, CompletedInv, FileBehind, DirectInv
<1> QED
  BY <1>3, <1>4, <1>5, <1>6, <1>7

\* What exports rest on, in every reachable state.
LEMMA ExportsAlways == AuditExportsSpec => []ExportsInv
<1>1. AuditExportsInit => ExportsInv
  <2> SUFFICES ASSUME AuditExportsInit
               PROVE  ExportsInv
    OBVIOUS
  <2>1. NoDelivery \in DeliveryRecords /\ NoDelivery.pc = "idle" /\ MaxEvents \in Nat
    BY AuditExportsAssumption DEF DeliveryRecords, NoDelivery
  <2>2. export \in ExportRecords /\ export.status = "absent"
    BY <2>1 DEF AuditExportsInit, PendingExport, ExportRecords
  <2>3. delivery \in [Deliveries -> DeliveryRecords] /\ Running = {}
    BY <2>1 DEF AuditExportsInit, Running
  <2>4. AuditExportsTypeOK
    <3>1. 0 \in 0 .. MaxEvents
      BY <2>1
    <3>2. file \in FileRecords
      BY <3>1 DEF AuditExportsInit, NoFile, FileRecords
    <3>3. direct \in [pc : {"idle", "stream", "too_large", "streamed"},
                     rowCount : 0 .. MaxEvents, rows : 0 .. MaxEvents]
      BY <3>1 DEF AuditExportsInit
    <3> QED
      BY <2>2, <2>3, <3>1, <3>2, <3>3
      DEF AuditExportsInit, AuditExportsTypeOK, ExportRecords, FileRecords
  <2>5. FileBehind
    BY <2>1 DEF AuditExportsInit, FileBehind
  <2> QED
    BY <2>2, <2>3, <2>4, <2>5 DEF AuditExportsInit, ExportsInv, BeforeQueued, DirectInv, CompletedInv
<1>2. ExportsInv /\ [AuditExportsNext]_exportVars => ExportsInv'
  <2> SUFFICES ASSUME ExportsInv, [AuditExportsNext]_exportVars
               PROVE  ExportsInv'
    OBVIOUS
  <2>1. CASE UNCHANGED exportVars
    BY <2>1 DEF exportVars, requestVars, ExportsInv, AuditExportsTypeOK, BeforeQueued, DirectInv,
                Running, FileBehind, CompletedInv
  <2>2. CASE AuditExportsNext
    BY <2>2, DeliverySteps, DeliverKeeps, RequestSteps DEF AuditExportsNext
  <2> QED
    BY <2>1, <2>2
<1> QED
  BY <1>1, <1>2, PTL DEF AuditExportsSpec

(***************************************************************************)
(* An export that is reported completed has its whole file, and a download *)
(* that is offered finds it, however many deliveries failed before, unless *)
(* two of them were running at once.                                       *)
(***************************************************************************)
THEOREM CompletedExports == AuditExportsSpec => []CompletedCanBeDownloaded
<1>1. ExportsInv => CompletedCanBeDownloaded
  BY DEF ExportsInv, CompletedInv, DirectInv, CompletedCanBeDownloaded
<1> QED
  BY <1>1, ExportsAlways, PTL
-----------------------------------------------------------------------------
(***************************************************************************)
(* Organizations.  What a transaction has made is complete when it comes   *)
(* to commit; and while the user has an organization, the runs that can    *)
(* still add one are those that had found none before the first.           *)
(***************************************************************************)
Steps == {"seed_roles", "seed_policies", "audit", "commit"}

TransactionRecords == [pc : Steps, cancelled : BOOLEAN, id : Orgs, org : OrgRecords]

\* How much a run in its transaction has made, with the events there are.
Seeded(f, appended) ==
    /\ f.org.admin = TRUE
    /\ f.pc \in {"seed_policies", "audit", "commit"} => f.org.roles = Templates
    /\ f.pc \in {"audit", "commit"} => f.org.policies = Fixtures
    /\ f.pc = "commit" => f.id \in appended

Whole(o) == o.admin = TRUE /\ o.roles = Templates /\ o.policies = Fixtures

\* The runs that may have added one beside the first.
Late == {r \in behind : run[r].pc = "done"}

OrgsInv ==
    /\ run \in [Runs -> RunRecords]
    /\ IsFiniteSet(Committed) /\ Committed \subseteq Orgs
    /\ deactivated \subseteq Committed /\ behind \subseteq Runs
    /\ \A o \in Committed : org[o] \in OrgRecords /\ Whole(org[o]) /\ o \in orgCreated
    /\ \A r \in Runs : run[r].pc \in Steps =>
          run[r].id \notin Committed /\ Seeded(run[r], orgCreated)
    /\ \A r, q \in Runs : run[r].pc \in Steps /\ run[q].pc \in Steps /\ run[r].id = run[q].id => r = q
    /\ Mine # {} => \A r \in Runs : run[r].pc \in Steps \union {"post"} => r \in behind
    /\ Cardinality(Mine) <= 1 + Cardinality(Late)

LEMMA RunShape ==
    ASSUME NEW f \in RunRecords
    PROVE  /\ f.pc \in Steps => f \in TransactionRecords
           /\ f.pc \in {"list", "post", "failed"} =>
                 f \in [pc : {"list", "post", "failed"}, cancelled : BOOLEAN]
           /\ f.pc = "done" => f \in [pc : {"done"}, cancelled : BOOLEAN, shown : Orgs \union {"none"}]
           /\ f = NotRun <=> f.pc = "unmounted"
           /\ f.pc \in Steps \union {"list", "post", "failed", "done", "unmounted"}
BY DEF RunRecords, TransactionRecords, NotRun, Steps

LEMMA CountsFinite ==
    ASSUME OrgsInv
    PROVE  /\ IsFiniteSet(Mine) /\ Cardinality(Mine) \in Nat
           /\ IsFiniteSet(Late) /\ Cardinality(Late) \in Nat
<1>1. Mine \subseteq Committed /\ Late \subseteq Runs /\ IsFiniteSet(Runs) /\ IsFiniteSet(Committed)
  BY OrgsAssumption DEF OrgsInv, Mine, Late
<1> QED
  BY <1>1, FS_Subset, FS_CardinalityType

\* One run moves on, and nothing is committed.
LEMMA RunMoves ==
    ASSUME OrgsInv, NEW r \in Runs, NEW f \in RunRecords, run' = [run EXCEPT ![r] = f],
           UNCHANGED <<org, deactivated, behind>>, orgCreated \subseteq orgCreated',
           f.pc \in Steps =>
              /\ f.id \notin Committed /\ Seeded(f, orgCreated')
              /\ \A q \in Runs : q # r /\ run[q].pc \in Steps => run[q].id # f.id,
           f.pc \in Steps \union {"post"} => Mine = {} \/ r \in behind,
           run[r].pc = "done" => f.pc = "done"
    PROVE  OrgsInv'
<1>1. /\ run' \in [Runs -> RunRecords] /\ run'[r] = f
      /\ \A q \in Runs : q # r => run'[q] = run[q]
      /\ Committed' = Committed /\ Mine' = Mine
  BY DEF OrgsInv, Committed, Mine
<1>2. \A q \in Runs : run'[q].pc \in Steps =>
         run'[q].id \notin Committed /\ Seeded(run'[q], orgCreated')
  <2> SUFFICES ASSUME NEW q \in Runs, q # r, run[q].pc \in Steps
               PROVE  run[q].id \notin Committed /\ Seeded(run[q], orgCreated')
    BY <1>1
  <2> QED
    BY DEF OrgsInv, Seeded
<1>3. \A p, q \in Runs : run'[p].pc \in Steps /\ run'[q].pc \in Steps /\ run'[p].id = run'[q].id => p = q
  BY <1>1 DEF OrgsInv
<1>4. Mine # {} => \A q \in Runs : run'[q].pc \in Steps \union {"post"} => q \in behind
  BY <1>1 DEF OrgsInv
<1>5. Cardinality(Mine) <= 1 + Cardinality(Late')
  <2>1. Late \subseteq Late' /\ Late' \subseteq Runs
    BY <1>1 DEF Late, OrgsInv
  <2>2. IsFiniteSet(Late')
    BY <2>1, OrgsAssumption, FS_Subset
  <2>3. Cardinality(Late) <= Cardinality(Late') /\ Cardinality(Late') \in Nat
    BY <2>1, <2>2, FS_Subset, FS_CardinalityType
  <2> QED
    BY <2>3, CountsFinite DEF OrgsInv
<1>6. \A o \in Committed : org[o] \in OrgRecords /\ Whole(org[o]) /\ o \in orgCreated'
  BY DEF OrgsInv
<1>7. Cardinality(Mine)' <= 1 + Cardinality(Late)'
  BY <1>1, <1>5
<1> QED
  BY <1>1, <1>2, <1>3, <1>4, <1>6, <1>7 DEF OrgsInv, Committed

LEMMA HookSteps ==
    ASSUME OrgsInv, NEW r \in Runs,
           MountOrgHook(r) \/ CancelRun(r) \/ ListForUser(r) \/ RunFails(r)
    PROVE  OrgsInv'
<1>1. /\ run[r] \in RunRecords /\ UNCHANGED <<org, deactivated, orgCreated, behind>>
      /\ Mine \subseteq Orgs \union Committed
  BY DEF OrgsInv, MountOrgHook, CancelRun, ListForUser, RunFails, Mine
<1>2. CASE MountOrgHook(r)
  <2> DEFINE f == [pc |-> "list", cancelled |-> FALSE]
  <2>1. run' = [run EXCEPT ![r] = f] /\ run[r].pc = "unmounted"
    BY <1>2 DEF MountOrgHook, NotRun
  <2>2. f \in RunRecords /\ f.pc \notin Steps \union {"post"}
    BY DEF RunRecords, Steps
  <2> HIDE DEF f
  <2> QED
    BY <1>1, <2>1, <2>2, RunMoves
<1>3. CASE CancelRun(r)
  <2> DEFINE f == [run[r] EXCEPT !.cancelled = TRUE]
  <2>1. run' = [run EXCEPT ![r] = f] /\ run[r].pc # "unmounted"
    BY <1>1, <1>3, RunShape DEF CancelRun
  <2>2. /\ f \in RunRecords /\ f.pc = run[r].pc
        /\ f.pc \in Steps => f.id = run[r].id /\ f.org = run[r].org
    <3>1. CASE run[r].pc \in Steps
      <4>1. run[r] \in TransactionRecords
        BY <1>1, <3>1, RunShape
      <4>2. f \in TransactionRecords /\ f.pc = run[r].pc /\ f.id = run[r].id /\ f.org = run[r].org
        BY <4>1 DEF TransactionRecords
      <4> QED
        BY <4>2 DEF RunRecords, TransactionRecords, Steps
    <3>2. CASE run[r].pc \in {"list", "post", "failed"}
      <4>1. run[r] \in [pc : {"list", "post", "failed"}, cancelled : BOOLEAN]
        BY <1>1, <3>2, RunShape
      <4>2. f \in [pc : {"list", "post", "failed"}, cancelled : BOOLEAN] /\ f.pc = run[r].pc
        BY <4>1
      <4> QED
        BY <3>2, <4>2 DEF RunRecords, Steps
    <3>3. CASE run[r].pc = "done"
      <4>1. run[r] \in [pc : {"done"}, cancelled : BOOLEAN, shown : Orgs \union {"none"}]
        BY <1>1, <3>3, RunShape
      <4>2. f \in [pc : {"done"}, cancelled : BOOLEAN, shown : Orgs \union {"none"}] /\ f.pc = "done"
        BY <4>1
      <4> QED
        BY <3>3, <4>2 DEF RunRecords, Steps
    <3> QED
      BY <1>1, <2>1, <3>1, <3>2, <3>3, RunShape
  <2> HIDE DEF f
  <2>3. f.pc \in Steps =>
           /\ f.id \notin Committed /\ Seeded(f, orgCreated)
           /\ \A q \in Runs : q # r /\ run[q].pc \in Steps => run[q].id # f.id
    BY <2>2 DEF OrgsInv, Seeded
  <2>4. f.pc \in Steps \union {"post"} => Mine = {} \/ r \in behind
    BY <2>2 DEF OrgsInv
  <2> QED
    BY <1>1, <2>1, <2>2, <2>3, <2>4, RunMoves
<1>4. CASE ListForUser(r)
  <2>1. run[r].pc = "list" /\ run[r] \in [pc : {"list", "post", "failed"}, cancelled : BOOLEAN]
    BY <1>1, <1>4, RunShape DEF ListForUser, RunAt
  <2>2. CASE Mine = {} /\ run' = [run EXCEPT ![r].pc = "post"]
    <3> DEFINE f == [run[r] EXCEPT !.pc = "post"]
    <3>1. f \in [pc : {"list", "post", "failed"}, cancelled : BOOLEAN] /\ f.pc = "post"
      BY <2>1
    <3>2. f \in RunRecords /\ f.pc \notin Steps /\ run' = [run EXCEPT ![r] = f]
      BY <2>2, <3>1 DEF RunRecords, Steps
    <3> HIDE DEF f
    <3> QED
      BY <1>1, <2>1, <2>2, <3>2, RunMoves
  <2>3. ASSUME NEW o \in Mine, EndRun(r, o)
        PROVE  OrgsInv'
    <3> DEFINE shown == IF run[r].cancelled THEN "none" ELSE o
               f == [pc |-> "done", cancelled |-> run[r].cancelled, shown |-> shown]
    <3>1. run' = [run EXCEPT ![r] = f]
      BY <2>3 DEF EndRun
    <3>2. o \in Orgs
      BY DEF Mine, OrgsInv
    <3>3. f \in RunRecords /\ f.pc = "done"
      BY <2>1, <3>2 DEF RunRecords
    <3> HIDE DEF f
    <3> QED
      BY <1>1, <2>1, <3>1, <3>3, RunMoves DEF Steps
  <2> QED
    BY <1>4, <2>2, <2>3 DEF ListForUser
<1>5. CASE RunFails(r)
  <2> DEFINE f == [pc |-> "failed", cancelled |-> run[r].cancelled]
  <2>1. run' = [run EXCEPT ![r] = f] /\ run[r].pc \in Steps \union {"list", "post"}
    BY <1>5 DEF RunFails, RunAt, InTransaction, Steps
  <2>2. run[r].cancelled \in BOOLEAN /\ run[r].pc # "done"
    BY <1>1, <2>1, RunShape DEF Steps, TransactionRecords
  <2>3. f \in RunRecords /\ f.pc = "failed"
    BY <2>2 DEF RunRecords
  <2> HIDE DEF f
  <2> QED
    BY <1>1, <2>1, <2>2, <2>3, RunMoves DEF Steps
<1> QED
  BY <1>2, <1>3, <1>4, <1>5

LEMMA TransactionSteps ==
    ASSUME OrgsInv, NEW r \in Runs, SeedRoles(r) \/ SeedPolicies(r) \/ AppendOrgCreated(r)
    PROVE  OrgsInv'
<1>1. run[r].pc \in Steps /\ run[r].pc # "done"
  BY DEF SeedRoles, SeedPolicies, AppendOrgCreated, RunAt, Steps
<1>2. run[r] \in RunRecords /\ run[r] \in TransactionRecords /\ run \in [Runs -> RunRecords]
  BY <1>1, RunShape DEF OrgsInv
<1>3. /\ run[r].id \notin Committed /\ Seeded(run[r], orgCreated)
      /\ \A q \in Runs : q # r /\ run[q].pc \in Steps => run[q].id # run[r].id
      /\ Mine = {} \/ r \in behind
  BY <1>1 DEF OrgsInv
<1>4. SUFFICES ASSUME NEW f \in TransactionRecords, run' = [run EXCEPT ![r] = f],
                      UNCHANGED <<org, deactivated, behind>>, orgCreated \subseteq orgCreated',
                      f.id = run[r].id, Seeded(f, orgCreated')
               PROVE  OrgsInv'
  <2>1. CASE SeedRoles(r)
    <3> DEFINE f == [run[r] EXCEPT !.pc = "seed_policies", !.org.roles = Templates]
    <3>1. f \in TransactionRecords /\ f.pc = "seed_policies" /\ f.id = run[r].id
      BY <1>2 DEF TransactionRecords, OrgRecords, Steps
    <3>2. f.org.roles = Templates /\ f.org.admin = run[r].org.admin
      BY <1>2 DEF TransactionRecords, OrgRecords
    <3>3. run' = [run EXCEPT ![r] = f] /\ UNCHANGED <<org, deactivated, orgCreated, behind>>
      BY <1>2, <2>1 DEF SeedRoles
    <3> HIDE DEF f
    <3>4. Seeded(f, orgCreated')
      BY <1>3, <3>1, <3>2 DEF Seeded
    <3> QED
      BY <1>4, <3>1, <3>3, <3>4
  <2>2. CASE SeedPolicies(r)
    <3> DEFINE f == [run[r] EXCEPT !.pc = "audit", !.org.policies = Fixtures \intersect run[r].org.roles]
    <3>1. f \in TransactionRecords /\ f.pc = "audit" /\ f.id = run[r].id
      BY <1>2, OrgsAssumption DEF TransactionRecords, OrgRecords, Steps
    <3>2. /\ f.org.roles = run[r].org.roles /\ f.org.admin = run[r].org.admin
          /\ f.org.policies = Fixtures \intersect run[r].org.roles
      BY <1>2 DEF TransactionRecords, OrgRecords
    <3>3. run' = [run EXCEPT ![r] = f] /\ UNCHANGED <<org, deactivated, orgCreated, behind>>
      BY <1>2, <2>2 DEF SeedPolicies
    <3>4. run[r].pc = "seed_policies"
      BY <2>2 DEF SeedPolicies, RunAt
    <3> HIDE DEF f
    <3>5. Seeded(f, orgCreated')
      BY <1>3, <3>1, <3>2, <3>4, OrgsAssumption DEF Seeded
    <3> QED
      BY <1>4, <3>1, <3>3, <3>5
  <2>3. CASE AppendOrgCreated(r)
    <3> DEFINE f == [run[r] EXCEPT !.pc = "commit"]
    <3>1. f \in TransactionRecords /\ f.pc = "commit" /\ f.id = run[r].id /\ f.org = run[r].org
      BY <1>2 DEF TransactionRecords, OrgRecords, Steps
    <3>2. /\ run' = [run EXCEPT ![r] = f] /\ UNCHANGED <<org, deactivated, behind>>
          /\ orgCreated' = orgCreated \union {run[r].id} /\ run[r].pc = "audit"
      BY <1>2, <2>3 DEF AppendOrgCreated, RunAt
    <3> HIDE DEF f
    <3>3. Seeded(f, orgCreated')
      BY <1>3, <3>1, <3>2 DEF Seeded
    <3> QED
      BY <1>4, <3>1, <3>2, <3>3
  <2> QED
    BY <2>1, <2>2, <2>3
<1>5. f \in RunRecords
  BY DEF RunRecords, TransactionRecords, Steps
<1> QED
  BY <1>1, <1>3, <1>4, <1>5, RunMoves

LEMMA CreateSteps ==
    ASSUME OrgsInv, NEW r \in Runs, NEW o \in Orgs, CreateOrganization(r, o)
    PROVE  OrgsInv'
<1> DEFINE f == [pc |-> "seed_roles", cancelled |-> run[r].cancelled, id |-> o, org |-> NewOrg]
<1>1. /\ run' = [run EXCEPT ![r] = f] /\ UNCHANGED <<org, deactivated, orgCreated, behind>>
      /\ run[r].pc = "post" /\ o \notin Committed
      /\ \A q \in Runs : run[q].pc \in Steps => run[q].id # o
  BY DEF CreateOrganization, RunAt, InTransaction, Steps, OrgsInv
<1>2. run[r].cancelled \in BOOLEAN
  BY <1>1, RunShape DEF OrgsInv
<1>3. NewOrg \in OrgRecords /\ NewOrg.admin = TRUE
  BY DEF NewOrg, OrgRecords
<1>4. f \in RunRecords /\ f.pc = "seed_roles" /\ f.id = o /\ f.org = NewOrg
  BY <1>2, <1>3 DEF RunRecords
<1> HIDE DEF f
<1>5. Seeded(f, orgCreated')
  BY <1>3, <1>4 DEF Seeded
<1>6. Mine = {} \/ r \in behind
  BY <1>1 DEF OrgsInv
<1> QED
  BY <1>1, <1>4, <1>5, <1>6, RunMoves

\* The first organization of a user, or one that was on its way before it.
LEMMA CommitSteps ==
    ASSUME OrgsInv, NEW r \in Runs, Commit(r)
    PROVE  OrgsInv'
<1> DEFINE id == run[r].id
           f == [pc |-> "done", cancelled |-> run[r].cancelled,
                 shown |-> IF run[r].cancelled THEN "none" ELSE id]
<1>1. run[r].pc = "commit" /\ run[r].pc \in Steps /\ run[r] \in TransactionRecords
  BY RunShape DEF Commit, RunAt, Steps, OrgsInv
<1>2. id \in Orgs /\ run[r].cancelled \in BOOLEAN /\ run[r].org \in OrgRecords
  BY <1>1 DEF TransactionRecords
<1>3. id \notin Committed /\ Whole(run[r].org) /\ id \in orgCreated
  BY <1>1 DEF OrgsInv, Seeded, Whole
<1>4. run' = [run EXCEPT ![r] = f] /\ UNCHANGED <<deactivated, orgCreated>>
  BY DEF Commit, EndRun
<1>5. f \in RunRecords /\ f.pc = "done"
  BY <1>2 DEF RunRecords
<1> HIDE DEF f
<1>6. /\ run' \in [Runs -> RunRecords] /\ run'[r] = f
      /\ \A q \in Runs : q # r => run'[q] = run[q]
  BY <1>4, <1>5 DEF OrgsInv
<1>7. /\ Committed' = Committed \union {id}
      /\ \A o \in Committed' : org'[o] = IF o = id THEN run[r].org ELSE org[o]
  BY DEF Commit, Committed
<1>8. Mine' = Mine \union {id} /\ id \notin Mine
  BY <1>3, <1>4, <1>7 DEF Mine, OrgsInv
<1>9. /\ IsFiniteSet(Committed') /\ Committed' \subseteq Orgs /\ deactivated' \subseteq Committed'
      /\ behind' \subseteq Runs
  <2>1. IsFiniteSet(Committed \union {id})
    BY FS_AddElement DEF OrgsInv
  <2>2. behind' \subseteq Runs
    BY DEF Commit, OrgsInv
  <2> QED
    BY <1>2, <1>4, <1>7, <2>1, <2>2 DEF OrgsInv
<1>10. \A o \in Committed' : org'[o] \in OrgRecords /\ Whole(org'[o]) /\ o \in orgCreated'
  BY <1>2, <1>3, <1>4, <1>7 DEF OrgsInv, Whole
<1>11. \A q \in Runs : run'[q].pc \in Steps => q # r /\ run'[q] = run[q] /\ run[q].pc \in Steps
  BY <1>5, <1>6 DEF Steps
<1>12. \A q \in Runs : run'[q].pc \in Steps =>
          run'[q].id \notin Committed' /\ Seeded(run'[q], orgCreated')
  <2> SUFFICES ASSUME NEW q \in Runs, q # r, run[q].pc \in Steps
               PROVE  run[q].id \notin Committed \union {id} /\ Seeded(run[q], orgCreated)
    BY <1>4, <1>7, <1>11
  <2> QED
    BY <1>1 DEF OrgsInv
<1>13. \A p, q \in Runs : run'[p].pc \in Steps /\ run'[q].pc \in Steps /\ run'[p].id = run'[q].id => p = q
  BY <1>11 DEF OrgsInv
<1>14. CASE Mine = {}
  <2>1. behind' = {q \in Runs \ {r} : RunAt(q, "post") \/ q \in InTransaction}
    BY <1>14 DEF Commit
  <2>2. \A q \in Runs : run'[q].pc \in Steps \union {"post"} => q \in behind'
    BY <1>5, <1>6, <2>1 DEF RunAt, InTransaction, Steps
  <2>3. Late' \subseteq behind'
    BY DEF Late
  <2>4. Cardinality(Mine') = 1
    BY <1>8, <1>14, FS_Singleton
  <2>5. Late' = {}
    BY <1>6, <2>1 DEF Late, RunAt, InTransaction
  <2>6. Cardinality(Late') = 0
    BY <2>5, FS_EmptySet
  <2>7. Cardinality(Mine)' <= 1 + Cardinality(Late)'
    BY <2>4, <2>6
  <2> QED
    BY <1>6, <1>9, <1>10, <1>12, <1>13, <2>2, <2>7 DEF OrgsInv
<1>15. CASE Mine # {}
  <2>1. behind' = behind /\ r \in behind
    BY <1>1, <1>15 DEF Commit, OrgsInv
  <2>2. \A q \in Runs : run'[q].pc \in Steps \union {"post"} => q \in behind'
    BY <1>5, <1>6, <1>15, <2>1 DEF OrgsInv, Steps
  <2>3. Late' = Late \union {r} /\ r \notin Late
    BY <1>1, <1>5, <1>6, <2>1 DEF Late, OrgsInv
  <2>4. Cardinality(Late') = Cardinality(Late) + 1 /\ Cardinality(Late) \in Nat
    BY <2>3, CountsFinite, FS_AddElement
  <2>5. Cardinality(Mine') = Cardinality(Mine) + 1 /\ Cardinality(Mine) \in Nat
    BY <1>8, CountsFinite, FS_AddElement
  <2>6. Cardinality(Mine)' <= 1 + Cardinality(Late)'
    BY <2>4, <2>5 DEF OrgsInv
  <2> QED
    BY <1>6, <1>9, <1>10, <1>12, <1>13, <2>2, <2>6 DEF OrgsInv
<1> QED
  BY <1>14, <1>15

LEMMA DeactivateSteps ==
    ASSUME OrgsInv, NEW o \in Orgs, DeactivateUser(o)
    PROVE  OrgsInv'
<1>1. /\ UNCHANGED <<run, org, orgCreated, behind>> /\ Committed' = Committed
      /\ deactivated' \subseteq Committed /\ Mine' \subseteq Mine
  BY DEF DeactivateUser, Mine, Committed, OrgsInv
<1>2. Late' = Late
  BY <1>1 DEF Late
<1>3. IsFiniteSet(Mine) /\ Cardinality(Mine) \in Nat /\ Cardinality(Late) \in Nat
  BY CountsFinite
<1>4. Cardinality(Mine') <= Cardinality(Mine) /\ Cardinality(Mine') \in Nat
  BY <1>1, <1>3, FS_Subset, FS_CardinalityType
<1>5. Cardinality(Mine)' <= 1 + Cardinality(Late)'
  BY <1>2, <1>3, <1>4 DEF OrgsInv
<1> QED
  BY <1>1, <1>5 DEF OrgsInv

\* What organizations rest on, in every reachable state.
LEMMA OrgsAlways == OrgsSpec => []OrgsInv
<1>1. OrgsInit => OrgsInv
  <2> SUFFICES ASSUME OrgsInit
               PROVE  OrgsInv
    OBVIOUS
  <2>1. Committed = {} /\ Mine = {} /\ Late = {}
    BY DEF OrgsInit, Committed, Mine, Late
  <2>2. run \in [Runs -> RunRecords] /\ \A r \in Runs : run[r].pc = "unmounted"
    BY DEF OrgsInit, RunRecords, NotRun
  <2>3. Cardinality(Mine) <= 1 + Cardinality(Late)
    BY <2>1, FS_EmptySet
  <2>4. IsFiniteSet(Committed)
    BY <2>1, FS_EmptySet
  <2> QED
    BY <2>1, <2>2, <2>3, <2>4 DEF OrgsInv, OrgsInit, Steps
<1>2. OrgsInv /\ [OrgsNext]_orgVars => OrgsInv'
  <2> SUFFICES ASSUME OrgsInv, [OrgsNext]_orgVars
               PROVE  OrgsInv'
    OBVIOUS
  <2>1. CASE UNCHANGED orgVars
    BY <2>1 DEF orgVars, OrgsInv, Committed, Mine, Late
  <2>2. CASE OrgsNext
    BY <2>2, HookSteps, CreateSteps, TransactionSteps, CommitSteps, DeactivateSteps DEF OrgsNext
  <2> QED
    BY <2>1, <2>2
<1> QED
  BY <1>1, <1>2, PTL DEF OrgsSpec

\* The organizations of a user are whole, and only runs that had found none before
\* the first of them add to it.
THEOREM OrgsComplete == OrgsSpec => []OneCompleteOrg
<1>1. OrgsInv => OneCompleteOrg
  <2> SUFFICES ASSUME OrgsInv
               PROVE  OneCompleteOrg
    OBVIOUS
  <2>1. Late = {r \in behind : RunAt(r, "done")}
    BY DEF Late, RunAt
  <2> QED
    BY <2>1 DEF OrgsInv, OneCompleteOrg, Whole
<1> QED
  BY <1>1, OrgsAlways, PTL
-----------------------------------------------------------------------------
(***************************************************************************)
(* The audit log.  A page covers the rows from where it starts to where it *)
(* stops: each once, apart from rows of one moment.  A row's moment never  *)
(* changes, so a page that did so when it was answered does so for ever,   *)
(* and a page that starts where the list stops makes it longer.            *)
(***************************************************************************)
RowsIn(at) == {e \in Events : at[e] # -1}

Matching(at, filter) == {e \in RowsIn(at) : EventType[e] \in filter}

AloneIn(at, e) == \A d \in RowsIn(at) \ {e} : at[d] # at[e]

Once(e, s) == \A j, k \in DOMAIN s : s[j] = e /\ s[k] = e => j = k

Occurs(e, s) == \E k \in DOMAIN s : s[k] = e

\* Below the cursor a page starts from, if any, and not below the one it leaves.
Between(at, e, from, upto) ==
    /\ from = 0 \/ at[e] < at[from]
    /\ upto = 0 \/ at[e] >= at[upto]

Covers(at, rows, from, upto, base) ==
    \A e \in RowsIn(at) : AloneIn(at, e) =>
        /\ Once(e, rows)
        /\ Occurs(e, rows) => Between(at, e, from, upto)
        /\ e \in base /\ Between(at, e, from, upto) => Occurs(e, rows)

\* A query whose cursor its filter lets through gets a page that covers its part.
AnswerOK(at, r) ==
    /\ \A k \in DOMAIN r.rows : r.rows[k] \in RowsIn(at)
    /\ r.base \subseteq Matching(at, r.filter)
    /\ r.next \in Matching(at, r.filter) \union {0}
    /\ (r.cursor = 0 \/ EventType[r.cursor] \in r.filter) =>
          /\ r.next # 0 /\ r.cursor # 0 => at[r.next] <= at[r.cursor]
          /\ Covers(at, r.rows, r.cursor, r.next, r.base)

LoadOK(at, r) ==
    /\ r.pc \in {"sent", "answered"} =>
          /\ r.append => r.cursor \in RowsIn(at)
          /\ ~ r.append => r.cursor = 0
    /\ r.pc = "answered" => AnswerOK(at, r)

\* Records as in AuditTypeOK, for any filter.
AnyLoad ==
    {NoLoad}
    \union [pc : {"sent"}, filter : SUBSET EventTypes, append : BOOLEAN,
            cursor : Events \union {0}]
    \union [pc : {"answered"}, filter : SUBSET EventTypes, append : BOOLEAN,
            cursor : Events \union {0}, rows : Seq(Events), next : Events \union {0},
            base : SUBSET Events]

AuditShape ==
    /\ createdAt \in [Events -> Moments \union {-1}]
    /\ IsFiniteSet(Inserted)
    /\ view \in [filter : SUBSET EventTypes, items : Seq(Events), cursor : Events \union {0},
                 loading : BOOLEAN]
    /\ load \in [Loads -> AnyLoad]
    /\ listing \in [filter : SUBSET EventTypes, base : SUBSET Events, outdated : SUBSET Loads,
                    mixed : BOOLEAN]

\* What an answer for more was asked from has all that is listed, unless it is outdated.
Follows(r, ls) == r.pc = "answered" /\ r.append /\ r.filter = ls.filter => ls.base \subseteq r.base

\* The list covers the rows down to the cursor, unless it is mixed.
ListOK(at, v, ls) ==
    /\ \A k \in DOMAIN v.items : v.items[k] \in RowsIn(at)
    /\ v.cursor \in RowsIn(at) \union {0}
    /\ ls.base \subseteq Matching(at, ls.filter)
    /\ ~ ls.mixed =>
          /\ v.cursor \in Matching(at, ls.filter) \union {0}
          /\ Covers(at, v.items, 0, v.cursor, ls.base)

AuditInv ==
    /\ AuditShape
    /\ \A l \in Loads : LoadOK(createdAt, load[l])
    /\ \A l \in Loads : l \notin listing.outdated => Follows(load[l], listing)
    /\ ListOK(createdAt, view, listing)
-----------------------------------------------------------------------------
Gains(at, after, new) ==
    /\ at[new] = -1 /\ after[new] # -1
    /\ \A e \in Events \ {new} : after[e] = at[e]

\* A row that is inserted changes nothing of the rows there are.
LEMMA RowsStay ==
    ASSUME NEW at \in [Events -> Moments \union {-1}], NEW new \in Events,
           NEW after, Gains(at, after, new)
    PROVE  /\ RowsIn(after) = RowsIn(at) \union {new} /\ new \notin RowsIn(at)
           /\ \A e \in RowsIn(at) : after[e] = at[e]
           /\ \A e \in RowsIn(at) : AloneIn(after, e) => AloneIn(at, e)
           /\ \A filter : Matching(at, filter) \subseteq Matching(after, filter)
<1>1. at[new] = -1 /\ after[new] # -1
  BY DEF Gains
<1>2. \A e \in Events \ {new} : after[e] = at[e]
  BY DEF Gains
<1>3. RowsIn(after) = RowsIn(at) \union {new} /\ new \notin RowsIn(at)
  BY <1>1, <1>2 DEF RowsIn
<1>4. \A e \in RowsIn(at) : after[e] = at[e]
  BY <1>2, <1>3 DEF RowsIn
<1>5. \A e \in RowsIn(at) : AloneIn(after, e) => AloneIn(at, e)
  BY <1>3, <1>4 DEF AloneIn
<1> QED
  BY <1>3, <1>4, <1>5 DEF Matching

\* A page goes on covering its part of the log when a row is inserted.
LEMMA CoversStays ==
    ASSUME NEW at \in [Events -> Moments \union {-1}], NEW new \in Events,
           NEW after, Gains(at, after, new),
           NEW rows, \A k \in DOMAIN rows : rows[k] \in RowsIn(at),
           NEW from \in RowsIn(at) \union {0}, NEW upto \in RowsIn(at) \union {0},
           NEW base, base \subseteq RowsIn(at),
           Covers(at, rows, from, upto, base)
    PROVE  Covers(after, rows, from, upto, base)
<1>1. /\ RowsIn(after) = RowsIn(at) \union {new} /\ new \notin RowsIn(at)
      /\ \A e \in RowsIn(at) : after[e] = at[e]
      /\ \A e \in RowsIn(at) : AloneIn(after, e) => AloneIn(at, e)
  BY RowsStay
<1>2. ASSUME NEW e \in RowsIn(at), AloneIn(after, e)
      PROVE  /\ Once(e, rows)
             /\ Occurs(e, rows) => Between(after, e, from, upto)
             /\ e \in base /\ Between(after, e, from, upto) => Occurs(e, rows)
  <2>1. Between(after, e, from, upto) <=> Between(at, e, from, upto)
    BY <1>1 DEF Between
  <2>2. AloneIn(at, e)
    BY <1>1, <1>2
  <2> QED
    BY <2>1, <2>2 DEF Covers
<1>3. Once(new, rows) /\ ~ Occurs(new, rows) /\ new \notin base
  BY <1>1 DEF Once, Occurs
<1> QED
  BY <1>1, <1>2, <1>3 DEF Covers

\* So does the answer of a query in flight.
LEMMA LoadStays ==
    ASSUME NEW at \in [Events -> Moments \union {-1}], NEW new \in Events,
           NEW after, Gains(at, after, new),
           NEW r \in AnyLoad, LoadOK(at, r)
    PROVE  LoadOK(after, r)
<1>1. /\ RowsIn(after) = RowsIn(at) \union {new}
      /\ \A e \in RowsIn(at) : after[e] = at[e]
      /\ \A filter : Matching(at, filter) \subseteq Matching(after, filter)
  BY RowsStay
<1>2. ASSUME r.pc = "answered"
      PROVE  AnswerOK(after, r)
  <2>1. AnswerOK(at, r) /\ r.cursor \in RowsIn(at) \union {0}
    <3>1. r.append \in BOOLEAN
      BY <1>2 DEF AnyLoad, NoLoad
    <3> QED
      BY <1>2, <3>1 DEF LoadOK
  <2>2. /\ \A k \in DOMAIN r.rows : r.rows[k] \in RowsIn(at)
        /\ r.base \subseteq RowsIn(at) /\ r.next \in RowsIn(at) \union {0}
    BY <2>1 DEF AnswerOK, Matching
  <2>3. Covers(at, r.rows, r.cursor, r.next, r.base) =>
           Covers(after, r.rows, r.cursor, r.next, r.base)
    BY <2>1, <2>2, CoversStays
  <2>4. r.next # 0 /\ r.cursor # 0 => after[r.next] = at[r.next] /\ after[r.cursor] = at[r.cursor]
    BY <1>1, <2>1, <2>2
  <2>5. /\ r.base \subseteq Matching(after, r.filter)
        /\ r.next \in Matching(after, r.filter) \union {0}
    BY <1>1, <2>1 DEF AnswerOK
  <2> QED
    BY <1>1, <2>1, <2>2, <2>3, <2>4, <2>5 DEF AnswerOK
<1> QED
  BY <1>1, <1>2 DEF LoadOK
-----------------------------------------------------------------------------
\* The moments of rows are numbers; 0 is no event.
LEMMA MomentsAreNumbers ==
    /\ 0 \notin Events
    /\ \A at \in [Events -> Moments \union {-1}] : \A e \in Events : at[e] \in Int
<1>1. 0 \notin Events /\ Moments \union {-1} \subseteq Int
  BY AuditAssumption
<1> QED
  BY <1>1

\* A page that starts where the list stops makes it longer.
LEMMA ListGrows ==
    ASSUME NEW at \in [Events -> Moments \union {-1}],
           NEW items \in Seq(Events), NEW rows \in Seq(Events), NEW base, NEW seen,
           NEW cursor \in RowsIn(at), NEW next \in RowsIn(at) \union {0},
           Covers(at, items, 0, cursor, base), Covers(at, rows, cursor, next, seen),
           base \subseteq seen, next # 0 => at[next] <= at[cursor]
    PROVE  Covers(at, items \o rows, 0, next, base)
<1> DEFINE all == items \o rows
<1>1. cursor # 0 /\ \A e \in Events : at[e] \in Int
  BY MomentsAreNumbers DEF RowsIn
<1>2. /\ DOMAIN items = 1 .. Len(items) /\ DOMAIN rows = 1 .. Len(rows)
      /\ DOMAIN all = 1 .. Len(items) + Len(rows)
      /\ Len(items) \in Nat /\ Len(rows) \in Nat
      /\ \A k \in DOMAIN all :
            \/ k \in DOMAIN items /\ all[k] = items[k]
            \/ /\ k \notin DOMAIN items /\ k - Len(items) \in DOMAIN rows
               /\ all[k] = rows[k - Len(items)]
      /\ \A k \in DOMAIN items : k \in DOMAIN all /\ all[k] = items[k]
      /\ \A k \in DOMAIN rows : k + Len(items) \in DOMAIN all /\ all[k + Len(items)] = rows[k]
  OBVIOUS
<1> HIDE DEF all
<1>3. ASSUME NEW e \in RowsIn(at), AloneIn(at, e)
      PROVE  /\ Once(e, all)
             /\ Occurs(e, all) => Between(at, e, 0, next)
             /\ e \in base /\ Between(at, e, 0, next) => Occurs(e, all)
  <2>1. /\ Once(e, items)
        /\ Occurs(e, items) => at[e] >= at[cursor]
        /\ e \in base /\ at[e] >= at[cursor] => Occurs(e, items)
    BY <1>1, <1>3 DEF Covers, Between
  <2>2. /\ Once(e, rows)
        /\ Occurs(e, rows) => Between(at, e, cursor, next)
        /\ e \in base /\ Between(at, e, cursor, next) => Occurs(e, rows)
    BY <1>3 DEF Covers
  <2>3. at[e] \in Int /\ at[cursor] \in Int /\ (next # 0 => at[next] \in Int)
    BY <1>1 DEF RowsIn
  <2>4. ~ (Occurs(e, items) /\ Occurs(e, rows))
    BY <1>1, <2>1, <2>2, <2>3 DEF Between
  <2>5. Once(e, all)
    <3>1. SUFFICES ASSUME NEW j \in DOMAIN all, NEW k \in DOMAIN all, all[j] = e, all[k] = e
                   PROVE  j = k
      BY DEF Once
    <3>2. CASE j \in DOMAIN items
      <4>1. Occurs(e, items) /\ items[j] = e
        BY <1>2, <3>1, <3>2 DEF Occurs
      <4>2. k \in DOMAIN items /\ items[k] = e
        BY <1>2, <2>4, <3>1, <4>1 DEF Occurs
      <4> QED
        BY <2>1, <3>2, <4>1, <4>2 DEF Once
    <3>3. CASE j \notin DOMAIN items
      <4>1. j - Len(items) \in DOMAIN rows /\ rows[j - Len(items)] = e /\ Occurs(e, rows)
        BY <1>2, <3>1, <3>3 DEF Occurs
      <4>2. k - Len(items) \in DOMAIN rows /\ rows[k - Len(items)] = e
        BY <1>2, <2>4, <3>1, <4>1 DEF Occurs
      <4>3. j - Len(items) = k - Len(items)
        BY <2>2, <4>1, <4>2 DEF Once
      <4> QED
        BY <1>2, <3>1, <4>3
    <3> QED
      BY <3>2, <3>3
  <2>6. Occurs(e, all) <=> Occurs(e, items) \/ Occurs(e, rows)
    BY <1>2 DEF Occurs
  <2>7. Occurs(e, all) => Between(at, e, 0, next)
    BY <2>1, <2>2, <2>3, <2>6 DEF Between
  <2>8. e \in base /\ Between(at, e, 0, next) => Occurs(e, all)
    <3>1. Between(at, e, 0, next) => at[e] >= at[cursor] \/ Between(at, e, cursor, next)
      BY <2>3 DEF Between
    <3> QED
      BY <2>1, <2>2, <2>6, <3>1
  <2> QED
    BY <2>5, <2>7, <2>8
<1> QED
  BY <1>3 DEF Covers, all
-----------------------------------------------------------------------------
\* The rows R, n of them, each once, the newest first.
Sorted(R, n, s) ==
    /\ s \in [1 .. n -> R]
    /\ \A e \in R : \E k \in 1 .. n : s[k] = e
    /\ \A j, k \in 1 .. n : s[j] = s[k] => j = k
    /\ \A j, k \in 1 .. n : j < k => createdAt[s[j]] >= createdAt[s[k]]

\* What Query cuts out of an order, and the m rows that this is.
Cut(s, skip, page, next) ==
    LET found == SubSeq(s, 1 + skip, Len(s))
    IN  /\ page = IF Len(found) > PageLimit THEN SubSeq(found, 1, PageLimit) ELSE found
        /\ next = IF Len(found) > PageLimit THEN Last(page) ELSE 0

IsCut(s, n, skip, m, page, next) ==
    /\ DOMAIN page = 1 .. m
    /\ \A j \in 1 .. m : j + skip \in 1 .. n /\ page[j] = s[j + skip]
    /\ \/ next = 0 /\ m + skip >= n
       \/ m >= 1 /\ next = s[m + skip]

\* An order of finitely many rows has each of them once.
LEMMA OrderIsSorted ==
    ASSUME NEW R, IsFiniteSet(R), NEW s \in Orders(R)
    PROVE  \E n \in Nat : Sorted(R, n, s) /\ Len(s) = n
<1>1. PICK n \in Nat : n = Cardinality(R)
  BY FS_CardinalityType
<1>2. /\ s \in [1 .. n -> R] /\ ToSet(s) = R
      /\ \A j, k \in DOMAIN s : j < k => createdAt[s[j]] >= createdAt[s[k]]
  BY <1>1 DEF Orders
<1>3. \A e \in R : \E k \in 1 .. n : s[k] = e
  BY <1>2 DEF ToSet
<1>4. s \in Surjection(1 .. n, R)
  BY <1>2, <1>3 DEF Surjection
<1>5. IsFiniteSet(1 .. n) /\ Cardinality(1 .. n) = n
  BY FS_Interval
<1>6. s \in Injection(1 .. n, R)
  BY <1>1, <1>4, <1>5, FS_SurjSameCardinalityImpliesInj
<1>7. \A j, k \in 1 .. n : s[j] = s[k] => j = k
  BY <1>2, <1>6 DEF Injection, IsInjective
<1>8. Len(s) = n
  BY <1>2
<1>9. \A j, k \in 1 .. n : j < k => createdAt[s[j]] >= createdAt[s[k]]
  BY <1>2
<1> QED
  BY <1>2, <1>3, <1>7, <1>8, <1>9 DEF Sorted

\* What Query cuts out of an order: a page of m rows, from the one after skip.
LEMMA PageOfOrder ==
    ASSUME NEW S, NEW n \in Nat, NEW s \in [1 .. n -> S], Len(s) = n, NEW skip \in {0, 1},
           NEW page, NEW next, Cut(s, skip, page, next)
    PROVE  \E m \in Nat : page \in Seq(S) /\ IsCut(s, n, skip, m, page, next)
<1>found. PICK found :
         /\ found = SubSeq(s, 1 + skip, Len(s))
         /\ page = IF Len(found) > PageLimit THEN SubSeq(found, 1, PageLimit) ELSE found
         /\ next = IF Len(found) > PageLimit THEN Last(page) ELSE 0
  BY DEF Cut
<1>1. \A i \in 1 + skip .. n : s[i] \in S
  OBVIOUS
<1>2. PICK q \in Nat : q = IF 1 + skip <= n THEN n - (1 + skip) + 1 ELSE 0
  <2>1. (IF 1 + skip <= n THEN n - (1 + skip) + 1 ELSE 0) \in Nat
    OBVIOUS
  <2> QED
    BY <2>1
<1>3. /\ q + skip >= n /\ \A j \in 1 .. q : j + skip \in 1 .. n
      /\ \A j \in 1 .. q : j \in 1 .. n - (1 + skip) + 1 /\ (1 + skip) + j - 1 = j + skip
  BY <1>2
<1>4. found \in Seq(S) /\ Len(found) = q /\ \A j \in 1 .. q : found[j] = s[j + skip]
  <2>1. /\ found \in Seq(S)
        /\ Len(found) = IF 1 + skip <= n THEN n - (1 + skip) + 1 ELSE 0
        /\ \A i \in 1 .. n - (1 + skip) + 1 : found[i] = s[(1 + skip) + i - 1]
    BY <1>found, <1>1, SubSeqProperties
  <2> QED
    BY <1>2, <1>3, <2>1
<1>5. PageLimit \in Nat /\ PageLimit >= 1
  BY AuditAssumption
<1>6. CASE Len(found) > PageLimit
  <2>1. /\ \A i \in 1 .. PageLimit : i \in 1 .. q
        /\ \A i \in 1 .. PageLimit : found[i] \in S
    BY <1>4, <1>5, <1>6
  <2>2. /\ page \in Seq(S)
        /\ Len(page) = IF 1 <= PageLimit THEN PageLimit - 1 + 1 ELSE 0
        /\ \A i \in 1 .. PageLimit - 1 + 1 : page[i] = found[1 + i - 1]
    <3>1. page = SubSeq(found, 1, PageLimit) /\ 1 \in Int /\ PageLimit \in Int
      BY <1>found, <1>5, <1>6
    <3> QED
      BY <2>1, <3>1, SubSeqProperties
  <2>3. Len(page) = PageLimit /\ DOMAIN page = 1 .. PageLimit
    BY <1>5, <2>2
  <2>4. \A j \in 1 .. PageLimit : page[j] = found[j]
    BY <1>5, <2>2
  <2>5. next = page[PageLimit]
    BY <1>found, <1>6, <2>3 DEF Last
  <2>6. PageLimit \in 1 .. PageLimit
    BY <1>5
  <2>7. \A j \in 1 .. PageLimit : j + skip \in 1 .. n /\ page[j] = s[j + skip]
    BY <1>3, <1>4, <2>1, <2>4
  <2> QED
    BY <1>5, <2>2, <2>3, <2>5, <2>6, <2>7 DEF IsCut
<1>7. CASE ~ Len(found) > PageLimit
  <2>1. page = found /\ next = 0
    BY <1>found, <1>7
  <2>2. page \in Seq(S) /\ Len(page) = q
    BY <1>4, <2>1
  <2>3. DOMAIN page = 1 .. q
    BY <2>2
  <2> QED
    BY <1>3, <1>4, <2>1, <2>2, <2>3 DEF IsCut
<1> QED
  BY <1>6, <1>7

\* Every page covers the rows from its cursor to the next.
LEMMA PageCovers ==
    ASSUME createdAt \in [Events -> Moments \union {-1}], IsFiniteSet(Inserted),
           NEW filter \in SUBSET EventTypes, NEW cursor \in RowsIn(createdAt) \union {0},
           cursor = 0 \/ EventType[cursor] \in filter,
           NEW n \in Nat, NEW R, R = {e \in From(cursor) : EventType[e] \in filter},
           NEW s, Sorted(R, n, s),
           NEW m \in Nat, NEW page, NEW next, IsCut(s, n, Skip(cursor), m, page, next)
    PROVE  /\ next # 0 /\ cursor # 0 => createdAt[next] <= createdAt[cursor]
           /\ Covers(createdAt, page, cursor, next, Matching(createdAt, filter))
<1> DEFINE skip == Skip(cursor)
<1>order. /\ s \in [1 .. n -> R]
          /\ \A e \in R : \E k \in 1 .. n : s[k] = e
          /\ \A j, k \in 1 .. n : s[j] = s[k] => j = k
          /\ \A j, k \in 1 .. n : j < k => createdAt[s[j]] >= createdAt[s[k]]
  BY DEF Sorted
<1>cut. /\ DOMAIN page = 1 .. m
        /\ \A j \in 1 .. m : j + skip \in 1 .. n /\ page[j] = s[j + skip]
        /\ (next = 0 /\ m + skip >= n) \/ (m >= 1 /\ next = s[m + skip])
  BY DEF IsCut
<1> USE <1>order, <1>cut
<1>1. /\ R \subseteq Inserted /\ Inserted \subseteq Events /\ 0 \notin R
      /\ RowsIn(createdAt) = Inserted
      /\ \A e \in Events : createdAt[e] \in Int
  BY MomentsAreNumbers DEF Inserted, From, RowsIn
<1>2. /\ skip \in {0, 1} /\ (skip = 0 <=> cursor = 0)
      /\ \A j \in 1 .. m : m + skip \in 1 .. n
  <2>1. \A j \in 1 .. m : m \in 1 .. m
    OBVIOUS
  <2> QED
    BY <2>1 DEF Skip
<1> HIDE DEF skip
<1>3. next # 0 => m + skip \in 1 .. n /\ next = s[m + skip] /\ next \in R
  <2>1. next # 0 => m \in 1 .. m /\ next = s[m + skip]
    OBVIOUS
  <2> QED
    BY <1>2, <2>1
<1>4. \A e \in R : cursor # 0 => createdAt[e] <= createdAt[cursor]
  BY DEF From
<1>5. cursor # 0 => 1 \in 1 .. n /\ s[1] \in R /\ createdAt[s[1]] = createdAt[cursor]
  <2>1. SUFFICES ASSUME cursor # 0
                 PROVE  1 \in 1 .. n /\ s[1] \in R /\ createdAt[s[1]] = createdAt[cursor]
    OBVIOUS
  <2>2. cursor \in Events /\ createdAt[cursor] \in Int
    BY <1>1, <2>1
  <2>3. cursor \in R
    BY <1>1, <2>1, <2>2 DEF From
  <2>4. PICK k \in 1 .. n : s[k] = cursor
    BY <2>3
  <2>5. 1 \in 1 .. n /\ s[1] \in R
    BY <2>4
  <2>6. createdAt[s[1]] >= createdAt[cursor]
    <3>1. CASE k = 1
      BY <2>2, <2>4, <3>1
    <3>2. CASE k # 1
      <4>1. 1 < k
        BY <3>2
      <4> QED
        BY <2>4, <2>5, <4>1
    <3> QED
      BY <3>1, <3>2
  <2>7. createdAt[s[1]] \in Int
    BY <1>1, <2>5
  <2> QED
    BY <1>4, <2>1, <2>2, <2>5, <2>6, <2>7
<1>6. ASSUME NEW e \in Inserted, AloneIn(createdAt, e)
      PROVE  /\ Once(e, page)
             /\ Occurs(e, page) => Between(createdAt, e, cursor, next)
             /\ e \in Matching(createdAt, filter) /\ Between(createdAt, e, cursor, next)
                   => Occurs(e, page)
  <2>1. \A d \in Inserted : createdAt[d] = createdAt[e] => d = e
    BY <1>1, <1>6 DEF AloneIn
  <2>2. createdAt[e] \in Int /\ (cursor # 0 => createdAt[cursor] \in Int)
        /\ (next # 0 => createdAt[next] \in Int)
    BY <1>1, <1>3
  <2>3. Once(e, page)
    <3>1. SUFFICES ASSUME NEW j \in 1 .. m, NEW k \in 1 .. m, page[j] = e, page[k] = e
                   PROVE  j = k
      BY DEF Once
    <3>2. j + skip \in 1 .. n /\ k + skip \in 1 .. n /\ s[j + skip] = s[k + skip]
      BY <3>1
    <3>3. j + skip = k + skip
      BY <3>2
    <3> QED
      BY <1>2, <3>3
  <2>4. ASSUME Occurs(e, page)
        PROVE  Between(createdAt, e, cursor, next)
    <3>1. PICK j \in 1 .. m : page[j] = e
      BY <2>4 DEF Occurs
    <3>2. j + skip \in 1 .. n /\ s[j + skip] = e /\ e \in R
      BY <3>1
    <3>3. cursor # 0 => createdAt[e] < createdAt[cursor]
      <4>1. SUFFICES ASSUME cursor # 0, createdAt[e] = createdAt[cursor]
                     PROVE  FALSE
        BY <1>4, <2>2, <3>2
      <4>2. s[1] = e /\ 1 \in 1 .. n
        BY <1>1, <1>5, <2>1, <4>1
      <4>3. j + skip = 1
        BY <3>2, <4>2
      <4> QED
        BY <1>2, <4>1, <4>3
    <3>4. next # 0 => createdAt[e] >= createdAt[next]
      <4>1. SUFFICES ASSUME next # 0
                     PROVE  createdAt[e] >= createdAt[next]
        OBVIOUS
      <4>2. CASE j = m
        BY <1>3, <2>2, <3>2, <4>1, <4>2
      <4>3. CASE j # m
        <5>1. j + skip < m + skip
          BY <1>2, <4>3
        <5> QED
          BY <1>3, <3>2, <4>1, <5>1
      <4> QED
        BY <4>2, <4>3
    <3> QED
      BY <3>3, <3>4 DEF Between
  <2>5. ASSUME e \in Matching(createdAt, filter), Between(createdAt, e, cursor, next)
        PROVE  Occurs(e, page)
    <3>1. cursor # 0 => createdAt[e] < createdAt[cursor]
      BY <2>5 DEF Between
    <3>2. e \in R
      BY <2>2, <2>5, <3>1 DEF Matching, From
    <3>3. PICK k \in 1 .. n : s[k] = e
      BY <3>2
    <3>4. k > skip
      <4>1. SUFFICES ASSUME skip = 1, k = 1
                     PROVE  FALSE
        BY <1>2
      <4> QED
        BY <1>2, <1>5, <2>2, <3>1, <3>3, <4>1
    <3>5. k <= m + skip
      <4>1. CASE next = 0
        <5>1. m + skip >= n
          <6>1. SUFFICES ASSUME m >= 1, next = s[m + skip]
                         PROVE  FALSE
            OBVIOUS
          <6>2. m \in 1 .. m
            BY <6>1
          <6> QED
            BY <1>1, <1>2, <4>1, <6>1, <6>2
        <5> QED
          BY <1>2, <5>1
      <4>2. CASE next # 0
        <5>1. SUFFICES ASSUME k > m + skip
                       PROVE  FALSE
          BY <1>2
        <5>2. createdAt[next] >= createdAt[e]
          BY <1>3, <3>3, <4>2, <5>1
        <5>3. createdAt[e] >= createdAt[next]
          BY <2>5, <4>2 DEF Between
        <5>4. next = e
          BY <1>1, <1>3, <2>1, <2>2, <4>2, <5>2, <5>3
        <5>5. k = m + skip
          BY <1>3, <3>3, <4>2, <5>4
        <5> QED
          BY <1>2, <5>1, <5>5
      <4> QED
        BY <4>1, <4>2
    <3>6. k - skip \in 1 .. m /\ (k - skip) + skip = k
      BY <1>2, <3>4, <3>5
    <3>7. page[k - skip] = e
      BY <3>3, <3>6
    <3> QED
      BY <3>6, <3>7 DEF Occurs
  <2> QED
    BY <2>3, <2>4, <2>5
<1> QED
  BY <1>1, <1>3, <1>4, <1>6 DEF Covers
-----------------------------------------------------------------------------
\* The fields of a query that is in flight.
LEMMA LoadFields ==
    ASSUME NEW r \in AnyLoad
    PROVE  /\ r.pc = "sent" \/ r.pc = "answered" =>
                 r.filter \in SUBSET EventTypes /\ r.append \in BOOLEAN
                 /\ r.cursor \in Events \union {0}
           /\ r.pc = "answered" =>
                 r.rows \in Seq(Events) /\ r.next \in Events \union {0} /\ r.base \in SUBSET Events
           /\ r # NoLoad => r.pc \in {"sent", "answered"}
           /\ NoLoad.pc = "idle"
  BY DEF AnyLoad, NoLoad

\* A step of one query leaves the others as they are.
LEMMA OneLoad ==
    ASSUME AuditInv, NEW l \in Loads, NEW r \in AnyLoad, LoadOK(createdAt, r),
           load' = [load EXCEPT ![l] = r], createdAt' = createdAt
    PROVE  /\ load' \in [Loads -> AnyLoad]
           /\ load'[l] = r /\ \A k \in Loads \ {l} : load'[k] = load[k]
           /\ \A k \in Loads : LoadOK(createdAt', load'[k])
<1>1. load \in [Loads -> AnyLoad] /\ \A k \in Loads : LoadOK(createdAt, load[k])
  BY DEF AuditInv, AuditShape
<1>2. load'[l] = r /\ \A k \in Loads \ {l} : load'[k] = load[k]
  BY <1>1
<1>3. load' \in [Loads -> AnyLoad]
  BY <1>1
<1>4. ASSUME NEW k \in Loads
      PROVE  LoadOK(createdAt', load'[k])
  <2>1. LoadOK(createdAt, load'[k])
    BY <1>1, <1>2
  <2> QED
    BY <2>1
<1> QED
  BY <1>2, <1>3, <1>4

\* A query that ends leaves nothing to keep.
LEMMA IdleIsOK ==
    NoLoad \in AnyLoad /\ LoadOK(createdAt, NoLoad)
  BY DEF AnyLoad, NoLoad, LoadOK

\* A query is sent for the first page, or from a row there is.
LEMMA SentIsOK ==
    ASSUME NEW filter \in SUBSET EventTypes, NEW append \in BOOLEAN,
           NEW cursor \in Events \union {0},
           append => cursor \in RowsIn(createdAt), ~ append => cursor = 0,
           NEW r, r = [pc |-> "sent", filter |-> filter, append |-> append, cursor |-> cursor]
    PROVE  r \in AnyLoad /\ LoadOK(createdAt, r) /\ r.pc = "sent"
  BY DEF AnyLoad, LoadOK

\* The list is as it was when its items and cursor are.
LEMMA ListStays ==
    ASSUME NEW at, NEW v, NEW w, NEW ls, ListOK(at, v, ls),
           w.items = v.items, w.cursor = v.cursor
    PROVE  ListOK(at, w, ls)
  BY DEF ListOK
-----------------------------------------------------------------------------
\* There is no row when the page mounts.
LEMMA AuditStarts == AuditInit => AuditInv
<1> SUFFICES ASSUME AuditInit
             PROVE  AuditInv
  OBVIOUS
<1>1. /\ createdAt \in [Events -> Moments \union {-1}] /\ Inserted = {}
      /\ RowsIn(createdAt) = {}
  BY DEF AuditInit, Inserted, RowsIn
<1>2. PICK first : first = [pc |-> "sent", filter |-> EventTypes, append |-> FALSE, cursor |-> 0]
  OBVIOUS
<1>3. /\ first \in AnyLoad /\ LoadOK(createdAt, first)
      /\ NoLoad \in AnyLoad /\ LoadOK(createdAt, NoLoad)
      /\ first.append = FALSE /\ NoLoad.pc = "idle"
  <2>1. EventTypes \in SUBSET EventTypes /\ FALSE \in BOOLEAN /\ 0 \in Events \union {0}
    OBVIOUS
  <2>2. first \in AnyLoad /\ LoadOK(createdAt, first)
    BY <1>2, <2>1, SentIsOK
  <2>3. first.append = FALSE
    BY <1>2
  <2> QED
    BY <2>2, <2>3, IdleIsOK DEF NoLoad
<1>4. \A l \in Loads : load[l] \in {first, NoLoad}
  BY <1>2 DEF AuditInit
<1>5. load \in [Loads -> AnyLoad]
  <2>1. DOMAIN load = Loads /\ load = [l \in DOMAIN load |-> load[l]]
    BY DEF AuditInit
  <2> QED
    BY <1>3, <1>4, <2>1
<1>6. /\ view.filter = EventTypes /\ view.items = <<>> /\ view.cursor = 0
      /\ listing.base = {} /\ listing.filter = EventTypes
  BY DEF AuditInit
<1>7. AuditShape
  <2>1. /\ view \in [filter : SUBSET EventTypes, items : Seq(Events),
                     cursor : Events \union {0}, loading : BOOLEAN]
        /\ listing \in [filter : SUBSET EventTypes, base : SUBSET Events,
                        outdated : SUBSET Loads, mixed : BOOLEAN]
    BY DEF AuditInit
  <2> QED
    BY <1>1, <1>5, <2>1, FS_EmptySet DEF AuditShape
<1>8. \A l \in Loads : LoadOK(createdAt, load[l])
  BY <1>3, <1>4
<1>9. \A l \in Loads : Follows(load[l], listing)
  BY <1>3, <1>4, <1>6 DEF Follows
<1>10. ListOK(createdAt, view, listing)
  BY <1>1, <1>6 DEF ListOK, Covers, Matching
<1> QED
  BY <1>7, <1>8, <1>9, <1>10 DEF AuditInv

\* AuditService.append, whatever is in flight.
LEMMA AppendRowKeeps ==
    ASSUME AuditInv, NEW e \in Events, AppendRow(e)
    PROVE  AuditInv'
<1>1. PICK now \in Moments : createdAt' = [createdAt EXCEPT ![e] = now]
  BY DEF AppendRow
<1>2. view' = view /\ load' = load /\ listing' = listing
  BY DEF AppendRow
<1>3. /\ createdAt \in [Events -> Moments \union {-1}] /\ load \in [Loads -> AnyLoad]
      /\ RowsIn(createdAt) = Inserted
  BY DEF AuditInv, AuditShape, RowsIn, Inserted
<1>4. Gains(createdAt, createdAt', e)
  <2>1. createdAt[e] = -1
    BY DEF AppendRow, Inserted
  <2>2. now # -1
    BY AuditAssumption
  <2> QED
    BY <1>1, <1>3, <2>1, <2>2 DEF Gains
<1>5. /\ RowsIn(createdAt') = RowsIn(createdAt) \union {e}
      /\ \A filter : Matching(createdAt, filter) \subseteq Matching(createdAt', filter)
  BY <1>3, <1>4, RowsStay
<1>6. AuditShape'
  <2>1. createdAt' \in [Events -> Moments \union {-1}]
    BY <1>1, <1>3
  <2>2. Inserted' = Inserted \union {e}
    BY <1>3, <1>5 DEF RowsIn, Inserted
  <2>3. IsFiniteSet(Inserted')
    BY <2>2, FS_AddElement DEF AuditInv, AuditShape
  <2> QED
    BY <1>2, <2>1, <2>3 DEF AuditInv, AuditShape
<1>7. \A l \in Loads : LoadOK(createdAt', load[l])
  BY <1>3, <1>4, LoadStays DEF AuditInv
<1>8. ListOK(createdAt', view, listing)
  <2>1. ListOK(createdAt, view, listing)
    BY DEF AuditInv
  <2>2. listing.base \subseteq RowsIn(createdAt)
    BY <2>1 DEF ListOK, Matching
  <2>3. ~ listing.mixed => Covers(createdAt', view.items, 0, view.cursor, listing.base)
    <3>1. 0 \in RowsIn(createdAt) \union {0}
      OBVIOUS
    <3> QED
      BY <1>3, <1>4, <2>1, <2>2, <3>1, CoversStays DEF ListOK
  <2> QED
    BY <1>5, <2>1, <2>3 DEF ListOK
<1> QED
  BY <1>2, <1>6, <1>7, <1>8 DEF AuditInv

\* A new filter is asked for; the list stays what it was.
LEMMA ChangeFilterKeeps ==
    ASSUME AuditInv, NEW l \in Loads, NEW filter \in Filters, ChangeFilter(l, filter)
    PROVE  AuditInv'
<1>1. PICK r : r = [pc |-> "sent", filter |-> filter, append |-> FALSE, cursor |-> 0]
  OBVIOUS
<1>2. /\ load' = [load EXCEPT ![l] = r] /\ createdAt' = createdAt /\ listing' = listing
      /\ view' = [view EXCEPT !.filter = filter, !.loading = TRUE]
  BY <1>1 DEF ChangeFilter, Send
<1>3. r \in AnyLoad /\ LoadOK(createdAt, r) /\ r.pc = "sent"
  <2>1. filter \in SUBSET EventTypes /\ FALSE \in BOOLEAN /\ 0 \in Events \union {0}
    BY AuditAssumption
  <2> QED
    BY <1>1, <2>1, SentIsOK
<1>4. /\ load' \in [Loads -> AnyLoad] /\ load'[l] = r
      /\ \A k \in Loads \ {l} : load'[k] = load[k]
      /\ \A k \in Loads : LoadOK(createdAt', load'[k])
  BY <1>2, <1>3, OneLoad
<1>5. /\ view' \in [filter : SUBSET EventTypes, items : Seq(Events),
                    cursor : Events \union {0}, loading : BOOLEAN]
      /\ view'.items = view.items /\ view'.cursor = view.cursor
  BY <1>2, AuditAssumption DEF AuditInv, AuditShape
<1>6. AuditShape'
  BY <1>2, <1>4, <1>5 DEF AuditInv, AuditShape, Inserted
<1>7. \A k \in Loads : k \notin listing'.outdated => Follows(load'[k], listing')
  BY <1>2, <1>3, <1>4 DEF AuditInv, Follows
<1>8. ListOK(createdAt', view', listing')
  BY <1>2, <1>5, ListStays DEF AuditInv
<1> QED
  BY <1>4, <1>6, <1>7, <1>8 DEF AuditInv

\* More is asked for from the row where the list stops.
LEMMA LoadMoreKeeps ==
    ASSUME AuditInv, NEW l \in Loads, LoadMore(l)
    PROVE  AuditInv'
<1>1. PICK r : r = [pc |-> "sent", filter |-> view.filter, append |-> TRUE, cursor |-> view.cursor]
  OBVIOUS
<1>2. /\ load' = [load EXCEPT ![l] = r] /\ createdAt' = createdAt /\ listing' = listing
      /\ view' = [view EXCEPT !.loading = TRUE] /\ view.cursor # 0
  BY <1>1 DEF LoadMore, Send
<1>3. r \in AnyLoad /\ LoadOK(createdAt, r) /\ r.pc = "sent"
  <2>1. /\ view.filter \in SUBSET EventTypes /\ TRUE \in BOOLEAN
        /\ view.cursor \in Events \union {0}
    BY DEF AuditInv, AuditShape
  <2>2. view.cursor \in RowsIn(createdAt)
    BY <1>2 DEF AuditInv, ListOK
  <2> QED
    BY <1>1, <2>1, <2>2, SentIsOK
<1>4. /\ load' \in [Loads -> AnyLoad] /\ load'[l] = r
      /\ \A k \in Loads \ {l} : load'[k] = load[k]
      /\ \A k \in Loads : LoadOK(createdAt', load'[k])
  BY <1>2, <1>3, OneLoad
<1>5. /\ view' \in [filter : SUBSET EventTypes, items : Seq(Events),
                    cursor : Events \union {0}, loading : BOOLEAN]
      /\ view'.items = view.items /\ view'.cursor = view.cursor
  BY <1>2 DEF AuditInv, AuditShape
<1>6. AuditShape'
  BY <1>2, <1>4, <1>5 DEF AuditInv, AuditShape, Inserted
<1>7. \A k \in Loads : k \notin listing'.outdated => Follows(load'[k], listing')
  BY <1>2, <1>3, <1>4 DEF AuditInv, Follows
<1>8. ListOK(createdAt', view', listing')
  BY <1>2, <1>5, ListStays DEF AuditInv
<1> QED
  BY <1>4, <1>6, <1>7, <1>8 DEF AuditInv

\* The answer of AuditQueryService.query covers the part of the log that was asked for.
LEMMA QueryKeeps ==
    ASSUME AuditInv, NEW l \in Loads, Query(l)
    PROVE  AuditInv'
<1> DEFINE cursor == load[l].cursor
           filter == load[l].filter
           R == {e \in From(cursor) : EventType[e] \in filter}
           all == {e \in Inserted : EventType[e] \in filter}
<1>1. /\ load[l].pc = "sent" /\ createdAt' = createdAt /\ view' = view /\ listing' = listing
      /\ load \in [Loads -> AnyLoad] /\ createdAt \in [Events -> Moments \union {-1}]
      /\ IsFiniteSet(Inserted) /\ RowsIn(createdAt) = Inserted
      /\ Matching(createdAt, filter) = all
  BY DEF Query, AuditInv, AuditShape, RowsIn, Inserted, Matching
<1>2. /\ filter \in SUBSET EventTypes /\ load[l].append \in BOOLEAN
      /\ cursor \in Events \union {0}
      /\ load[l].append => cursor \in RowsIn(createdAt)
      /\ ~ load[l].append => cursor = 0
  BY <1>1, LoadFields DEF AuditInv, LoadOK
<1>3. PICK s \in Orders(R) :
        LET found == SubSeq(s, 1 + Skip(cursor), Len(s))
            hasMore == Len(found) > PageLimit
            page == IF hasMore THEN SubSeq(found, 1, PageLimit) ELSE found
        IN  load' = [load EXCEPT ![l] =
              [pc |-> "answered", filter |-> @.filter, append |-> @.append, cursor |-> @.cursor,
               rows |-> page, next |-> IF hasMore THEN Last(page) ELSE 0, base |-> all]]
  BY DEF Query
<1>4. PICK page, next : Cut(s, Skip(cursor), page, next)
  <2>1. PICK page : page = LET found == SubSeq(s, 1 + Skip(cursor), Len(s))
                           IN  IF Len(found) > PageLimit THEN SubSeq(found, 1, PageLimit) ELSE found
    OBVIOUS
  <2>2. PICK next : next = LET found == SubSeq(s, 1 + Skip(cursor), Len(s))
                           IN  IF Len(found) > PageLimit THEN Last(page) ELSE 0
    OBVIOUS
  <2> QED
    BY <2>1, <2>2 DEF Cut
<1>7. PICK r : r = [pc |-> "answered", filter |-> filter, append |-> load[l].append,
                    cursor |-> cursor, rows |-> page, next |-> next, base |-> all]
  OBVIOUS
<1>8. load' = [load EXCEPT ![l] = r]
  BY <1>1, <1>3, <1>4, <1>7 DEF Cut
<1>9. R \subseteq all /\ all \subseteq Inserted /\ all \subseteq Events /\ IsFiniteSet(R)
  <2>1. R \subseteq all /\ all \subseteq Inserted /\ all \subseteq Events /\ R \in SUBSET Inserted
    BY DEF From, Inserted
  <2> QED
    BY <1>1, <2>1, FS_Subset
<1> HIDE DEF R, all
<1>10. PICK n \in Nat : Sorted(R, n, s) /\ Len(s) = n
  BY <1>9, OrderIsSorted
<1>11. Skip(cursor) \in {0, 1}
  BY DEF Skip
<1>12. PICK m \in Nat : page \in Seq(R) /\ IsCut(s, n, Skip(cursor), m, page, next)
  <2>1. s \in [1 .. n -> R]
    BY <1>10 DEF Sorted
  <2> QED
    BY <1>4, <1>10, <1>11, <2>1, PageOfOrder
<1>13. /\ \A k \in DOMAIN page : page[k] \in R
       /\ next \in R \union {0} /\ page \in Seq(Events)
  <2>1. \A k \in DOMAIN page : page[k] \in R
    BY <1>12
  <2>2. m >= 1 => m \in 1 .. m
    OBVIOUS
  <2>3. next \in R \union {0}
    BY <1>12, <2>1, <2>2 DEF IsCut
  <2>4. R \subseteq Events
    BY <1>9
  <2> QED
    BY <1>12, <2>1, <2>3, <2>4
<1>14. cursor = 0 \/ EventType[cursor] \in filter =>
         /\ next # 0 /\ cursor # 0 => createdAt[next] <= createdAt[cursor]
         /\ Covers(createdAt, page, cursor, next, all)
  <2>1. R = {e \in From(cursor) : EventType[e] \in filter}
    BY DEF R
  <2>2. cursor \in RowsIn(createdAt) \union {0}
    BY <1>2
  <2> HIDE DEF cursor, filter
  <2>3. cursor = 0 \/ EventType[cursor] \in filter =>
           /\ next # 0 /\ cursor # 0 => createdAt[next] <= createdAt[cursor]
           /\ Covers(createdAt, page, cursor, next, Matching(createdAt, filter))
    BY <1>1, <1>2, <1>10, <1>12, <2>1, <2>2, PageCovers
  <2> QED
    BY <1>1, <2>3
<1>15. /\ r.pc = "answered" /\ r.filter = filter /\ r.append = load[l].append
       /\ r.cursor = cursor /\ r.rows = page /\ r.next = next /\ r.base = all
  BY <1>7
<1>16. r \in AnyLoad
  BY <1>2, <1>7, <1>9, <1>13 DEF AnyLoad
<1>17. LoadOK(createdAt, r)
  <2>1. AnswerOK(createdAt, r)
    BY <1>1, <1>9, <1>13, <1>14, <1>15 DEF AnswerOK
  <2> QED
    BY <1>2, <1>15, <2>1 DEF LoadOK
<1>18. /\ load' \in [Loads -> AnyLoad] /\ load'[l] = r
       /\ \A k \in Loads \ {l} : load'[k] = load[k]
       /\ \A k \in Loads : LoadOK(createdAt', load'[k])
  BY <1>1, <1>8, <1>16, <1>17, OneLoad
<1>19. Follows(r, listing)
  <2>1. listing.base \subseteq Matching(createdAt, listing.filter)
    BY DEF AuditInv, ListOK
  <2> QED
    BY <1>1, <1>15, <2>1 DEF Follows
<1>20. AuditShape'
  BY <1>1, <1>18 DEF AuditInv, AuditShape, Inserted
<1>21. \A k \in Loads : k \notin listing'.outdated => Follows(load'[k], listing')
  BY <1>1, <1>18, <1>19 DEF AuditInv
<1> QED
  BY <1>1, <1>18, <1>20, <1>21 DEF AuditInv

\* An answer that follows the list makes it longer, one for a first page replaces it.
LEMMA ShowPageKeeps ==
    ASSUME AuditInv, NEW l \in Loads, ShowPage(l)
    PROVE  AuditInv'
<1>1. PICK r : r = load[l]
  OBVIOUS
<1>2. /\ r.pc = "answered" /\ load' = [load EXCEPT ![l] = NoLoad] /\ createdAt' = createdAt
      /\ view' = [view EXCEPT !.items = IF r.append THEN @ \o r.rows ELSE r.rows,
                              !.cursor = r.next, !.loading = FALSE]
  BY <1>1 DEF ShowPage
<1>3. /\ load \in [Loads -> AnyLoad] /\ createdAt \in [Events -> Moments \union {-1}]
      /\ view \in [filter : SUBSET EventTypes, items : Seq(Events),
                   cursor : Events \union {0}, loading : BOOLEAN]
      /\ listing \in [filter : SUBSET EventTypes, base : SUBSET Events,
                      outdated : SUBSET Loads, mixed : BOOLEAN]
      /\ r \in AnyLoad /\ LoadOK(createdAt, r) /\ AnswerOK(createdAt, r)
  BY <1>1, <1>2 DEF AuditInv, AuditShape, LoadOK
<1>4. /\ r.filter \in SUBSET EventTypes /\ r.append \in BOOLEAN /\ r.cursor \in Events \union {0}
      /\ r.rows \in Seq(Events) /\ r.next \in Events \union {0} /\ r.base \in SUBSET Events
      /\ r.append => r.cursor \in RowsIn(createdAt)
      /\ ~ r.append => r.cursor = 0
  BY <1>2, <1>3, LoadFields DEF LoadOK
<1>5. /\ load' \in [Loads -> AnyLoad] /\ load'[l] = NoLoad
      /\ \A k \in Loads \ {l} : load'[k] = load[k]
      /\ \A k \in Loads : LoadOK(createdAt', load'[k])
  BY <1>2, IdleIsOK, OneLoad
<1>6. /\ view' \in [filter : SUBSET EventTypes, items : Seq(Events),
                    cursor : Events \union {0}, loading : BOOLEAN]
      /\ view'.items = IF r.append THEN view.items \o r.rows ELSE r.rows
      /\ view'.cursor = r.next
  <2>1. PICK items : items = IF r.append THEN view.items \o r.rows ELSE r.rows
    OBVIOUS
  <2>2. items \in Seq(Events)
    BY <1>3, <1>4, <2>1
  <2>3. view' = [view EXCEPT !.items = items, !.cursor = r.next, !.loading = FALSE]
    BY <1>2, <1>3, <2>1
  <2> QED
    BY <1>3, <1>4, <2>1, <2>2, <2>3
<1>7. listing.base \subseteq Matching(createdAt, listing.filter)
  BY DEF AuditInv, ListOK
<1>8. Matching(createdAt, r.filter) \subseteq RowsIn(createdAt)
  BY DEF Matching
<1>9. CASE r.append
  <2>1. PICK mixed : mixed = (listing.mixed \/ l \in listing.outdated
                                \/ r.filter # listing.filter \/ r.cursor # view.cursor)
    OBVIOUS
  <2>2. listing' = [listing EXCEPT !.mixed = mixed, !.outdated = @ \ {l}]
    BY <1>1, <1>9, <2>1 DEF ShowPage
  <2>3. /\ listing'.mixed = mixed /\ listing'.outdated = listing.outdated \ {l}
        /\ listing'.filter = listing.filter /\ listing'.base = listing.base
        /\ listing' \in [filter : SUBSET EventTypes, base : SUBSET Events,
                         outdated : SUBSET Loads, mixed : BOOLEAN]
    BY <1>3, <2>1, <2>2
  <2>4. \A k \in Loads : k \notin listing'.outdated => Follows(load'[k], listing')
    BY <1>5, <2>3 DEF AuditInv, Follows, NoLoad
  <2>5. \A k \in DOMAIN view'.items : view'.items[k] \in RowsIn(createdAt)
    <3>1. /\ \A k \in DOMAIN view.items : view.items[k] \in RowsIn(createdAt)
          /\ \A k \in DOMAIN r.rows : r.rows[k] \in RowsIn(createdAt)
      BY <1>3 DEF AuditInv, ListOK, AnswerOK
    <3>2. view.items \in Seq(RowsIn(createdAt)) /\ r.rows \in Seq(RowsIn(createdAt))
      BY <1>3, <1>4, <3>1
    <3>3. view'.items \in Seq(RowsIn(createdAt))
      BY <1>6, <1>9, <3>2
    <3> QED
      BY <3>3
  <2>6. ASSUME ~ mixed
        PROVE  /\ view'.cursor \in Matching(createdAt, listing.filter) \union {0}
               /\ Covers(createdAt, view'.items, 0, view'.cursor, listing.base)
    <3>1. /\ ~ listing.mixed /\ l \notin listing.outdated
          /\ r.filter = listing.filter /\ r.cursor = view.cursor
      BY <2>1, <2>6
    <3>2. /\ view.cursor \in Matching(createdAt, listing.filter) \union {0}
          /\ Covers(createdAt, view.items, 0, view.cursor, listing.base)
      BY <3>1 DEF AuditInv, ListOK
    <3>3. listing.base \subseteq r.base
      BY <1>1, <1>2, <1>9, <3>1 DEF AuditInv, Follows
    <3>4. r.cursor = 0 \/ EventType[r.cursor] \in r.filter
      BY <3>1, <3>2 DEF Matching
    <3>5. /\ r.cursor # 0 /\ r.next # 0 => createdAt[r.next] <= createdAt[r.cursor]
          /\ Covers(createdAt, r.rows, r.cursor, r.next, r.base)
          /\ r.next \in Matching(createdAt, r.filter) \union {0}
      BY <1>3, <3>4 DEF AnswerOK
    <3>6. /\ r.cursor \in RowsIn(createdAt) /\ r.cursor # 0
          /\ r.next \in RowsIn(createdAt) \union {0}
      <4>1. r.cursor \in RowsIn(createdAt) /\ RowsIn(createdAt) \subseteq Events
        BY <1>4, <1>9 DEF RowsIn
      <4> QED
        BY <1>8, <3>5, <4>1, MomentsAreNumbers
    <3>7. Covers(createdAt, view.items \o r.rows, 0, r.next, listing.base)
      <4>1. view.items \in Seq(Events)
        BY <1>3
      <4>2. Covers(createdAt, view.items, 0, r.cursor, listing.base)
        BY <3>1, <3>2
      <4> QED
        BY <1>3, <1>4, <3>3, <3>5, <3>6, <4>1, <4>2, ListGrows
    <3> QED
      BY <1>6, <1>9, <3>1, <3>5, <3>7
  <2>7. view'.cursor \in RowsIn(createdAt) \union {0}
    BY <1>3, <1>6, <1>8 DEF AnswerOK
  <2>8. ListOK(createdAt', view', listing')
    BY <1>2, <1>7, <2>3, <2>5, <2>6, <2>7 DEF ListOK
  <2>9. AuditShape'
    BY <1>2, <1>5, <1>6, <2>3 DEF AuditInv, AuditShape, Inserted
  <2> QED
    BY <1>5, <2>4, <2>8, <2>9 DEF AuditInv
<1>10. CASE ~ r.append
  <2>1. listing' = [filter |-> r.filter, base |-> r.base, outdated |-> More \ {l}, mixed |-> FALSE]
    BY <1>1, <1>10 DEF ShowPage
  <2>2. /\ listing'.mixed = FALSE /\ listing'.outdated = More \ {l}
        /\ listing'.filter = r.filter /\ listing'.base = r.base
        /\ listing' \in [filter : SUBSET EventTypes, base : SUBSET Events,
                         outdated : SUBSET Loads, mixed : BOOLEAN]
    <3>1. More \ {l} \in SUBSET Loads /\ FALSE \in BOOLEAN
      BY DEF More
    <3> QED
      BY <1>4, <2>1, <3>1
  <2>3. ASSUME NEW k \in Loads, k \notin listing'.outdated
        PROVE  Follows(load'[k], listing')
    <3>1. CASE k = l
      BY <1>5, <3>1 DEF Follows, NoLoad
    <3>2. CASE k # l
      <4>1. k \notin More /\ load'[k] = load[k]
        BY <1>5, <2>2, <2>3, <3>2
      <4>2. load[k] = NoLoad \/ ~ load[k].append
        BY <4>1 DEF More
      <4> QED
        BY <4>1, <4>2 DEF Follows, NoLoad
    <3> QED
      BY <3>1, <3>2
  <2>4. ListOK(createdAt', view', listing')
    <3>1. r.cursor = 0
      BY <1>4, <1>10
    <3>2. /\ Covers(createdAt, r.rows, 0, r.next, r.base)
          /\ r.next \in Matching(createdAt, r.filter) \union {0}
          /\ r.base \subseteq Matching(createdAt, r.filter)
          /\ \A k \in DOMAIN r.rows : r.rows[k] \in RowsIn(createdAt)
      BY <1>3, <3>1 DEF AnswerOK
    <3> QED
      BY <1>2, <1>6, <1>8, <1>10, <2>2, <3>2 DEF ListOK
  <2>5. AuditShape'
    BY <1>2, <1>5, <1>6, <2>2 DEF AuditInv, AuditShape, Inserted
  <2> QED
    BY <1>5, <2>3, <2>4, <2>5 DEF AuditInv
<1> QED
  BY <1>9, <1>10

\* A query that fails changes nothing of the list.
LEMMA LoadFailsKeeps ==
    ASSUME AuditInv, NEW l \in Loads, LoadFails(l)
    PROVE  AuditInv'
<1>1. /\ load' = [load EXCEPT ![l] = NoLoad] /\ createdAt' = createdAt
      /\ view' = [view EXCEPT !.loading = FALSE]
      /\ listing' = [listing EXCEPT !.outdated = @ \ {l}]
  BY DEF LoadFails
<1>2. /\ load' \in [Loads -> AnyLoad] /\ load'[l] = NoLoad
      /\ \A k \in Loads \ {l} : load'[k] = load[k]
      /\ \A k \in Loads : LoadOK(createdAt', load'[k])
  BY <1>1, IdleIsOK, OneLoad
<1>3. /\ view' \in [filter : SUBSET EventTypes, items : Seq(Events),
                    cursor : Events \union {0}, loading : BOOLEAN]
      /\ view'.items = view.items /\ view'.cursor = view.cursor
      /\ listing' \in [filter : SUBSET EventTypes, base : SUBSET Events,
                       outdated : SUBSET Loads, mixed : BOOLEAN]
      /\ listing'.outdated = listing.outdated \ {l} /\ listing'.filter = listing.filter
      /\ listing'.base = listing.base /\ listing'.mixed = listing.mixed
  BY <1>1 DEF AuditInv, AuditShape
<1>4. AuditShape'
  BY <1>1, <1>2, <1>3 DEF AuditInv, AuditShape, Inserted
<1>5. \A k \in Loads : k \notin listing'.outdated => Follows(load'[k], listing')
  BY <1>2, <1>3 DEF AuditInv, Follows, NoLoad
<1>6. ListOK(createdAt', view', listing')
  BY <1>1, <1>3 DEF AuditInv, ListOK
<1> QED
  BY <1>2, <1>4, <1>5, <1>6 DEF AuditInv
-----------------------------------------------------------------------------
\* The invariant of the audit log and its page: every answer in flight and the
\* list itself cover the part of the log they stand for.
THEOREM AuditInvariant == AuditSpec => []AuditInv
<1>1. AuditInit => AuditInv
  BY AuditStarts
<1>2. AuditInv /\ [AuditNext]_auditVars => AuditInv'
  <2> SUFFICES ASSUME AuditInv, [AuditNext]_auditVars
               PROVE  AuditInv'
    OBVIOUS
  <2>1. CASE UNCHANGED auditVars
    BY <2>1 DEF auditVars, AuditInv, AuditShape, Inserted
  <2>2. ASSUME NEW e \in Events, AppendRow(e)
        PROVE  AuditInv'
    BY <2>2, AppendRowKeeps
  <2>3. ASSUME NEW l \in Loads, NEW filter \in Filters, ChangeFilter(l, filter)
        PROVE  AuditInv'
    BY <2>3, ChangeFilterKeeps
  <2>4. ASSUME NEW l \in Loads, LoadMore(l)
        PROVE  AuditInv'
    BY <2>4, LoadMoreKeeps
  <2>5. ASSUME NEW l \in Loads, Query(l)
        PROVE  AuditInv'
    BY <2>5, QueryKeeps
  <2>6. ASSUME NEW l \in Loads, ShowPage(l)
        PROVE  AuditInv'
    BY <2>6, ShowPageKeeps
  <2>7. ASSUME NEW l \in Loads, LoadFails(l)
        PROVE  AuditInv'
    BY <2>7, LoadFailsKeeps
  <2> QED
    BY <2>1, <2>2, <2>3, <2>4, <2>5, <2>6, <2>7 DEF AuditNext
<1> QED
  BY <1>1, <1>2, PTL DEF AuditSpec

\* A list that covers its part of the log shows each event of it once.
LEMMA CoversPages == AuditInv => PagesCoverLog
<1> SUFFICES ASSUME AuditInv, ~ listing.mixed, NEW e \in Inserted, OwnMoment(e)
             PROVE  /\ TimesShown(e) <= 1
                    /\ e \in listing.base /\ Reached(e) => TimesShown(e) = 1
  BY DEF PagesCoverLog
<1>1. /\ Once(e, view.items)
      /\ e \in listing.base /\ Between(createdAt, e, 0, view.cursor) => Occurs(e, view.items)
  BY DEF AuditInv, ListOK, Covers, AloneIn, OwnMoment, RowsIn, Inserted
<1> DEFINE shown == {k \in DOMAIN view.items : view.items[k] = e}
<1>2. Cardinality({}) = 0 /\ \A k : Cardinality({k}) = 1
  BY FS_EmptySet, FS_Singleton
<1>3. shown = {} \/ \E k : shown = {k}
  <2>1. \A j, k \in shown : j = k
    BY <1>1 DEF Once
  <2> HIDE DEF shown
  <2>2. ASSUME NEW k \in shown
        PROVE  shown = {k}
    BY <2>1
  <2> QED
    BY <2>2
<1>4. Cardinality(shown) <= 1 /\ (shown # {} => Cardinality(shown) = 1)
  <2> HIDE DEF shown
  <2>1. CASE shown = {}
    BY <1>2, <2>1
  <2>2. ASSUME NEW k, shown = {k}
        PROVE  Cardinality(shown) = 1
    BY <1>2, <2>2
  <2> QED
    BY <1>3, <2>1, <2>2
<1>5. Occurs(e, view.items) => shown # {}
  BY DEF Occurs
<1>6. Reached(e) => Between(createdAt, e, 0, view.cursor)
  BY DEF Reached, Between
<1>7. TimesShown(e) = Cardinality(shown)
  BY DEF TimesShown
<1> HIDE DEF shown
<1> QED
  BY <1>1, <1>4, <1>5, <1>6, <1>7

\* Pages that follow one another show each event there was at the first of them
\* once, as far as they have come, however many are inserted meanwhile
\* (AuditQueryService.query and useAuditEvents).
THEOREM PagesCover == AuditSpec => []PagesCoverLog
  BY AuditInvariant, CoversPages, PTL
=============================================================================
