---------------------------- MODULE LoginLockout ----------------------------
(***************************************************************************)
(* The failed logins of one account, counted in the memory of the process. *)
(* A login looks at the lock, then finds the user and verifies the         *)
(* password, and only then counts a failure or forgets the earlier ones.   *)
(***************************************************************************)
EXTENDS Naturals, FiniteSets

CONSTANTS
    Logins,             \* logins that may be in flight at once
    LOCKOUT_THRESHOLD,  \* failures that lock the account
    MaxFailures         \* bound: failures counted

ASSUME LockoutAssumption ==
    IsFiniteSet(Logins) /\ LOCKOUT_THRESHOLD \in Nat \ {0} /\ MaxFailures \in Nat

VARIABLES
    failed,     \* the failedLogins entry
    login,      \* the logins, and whether the address was typed as it is stored
    recent      \* history: failures since the entry was last clear or its lock ran out

lockoutVars == <<failed, login, recent>>
-----------------------------------------------------------------------------
NoEntry == [count |-> 0, locked |-> FALSE]

LockoutTypeOK ==
    /\ failed \in [count : 0 .. MaxFailures, locked : BOOLEAN]
    /\ login \in [Logins -> {"idle", "verify", "verify_other_case"}]
    /\ recent \in 0 .. MaxFailures

Verifying == {c \in Logins : login[c] # "idle"}
-----------------------------------------------------------------------------
(* AuthService.login *)

\* Mutation: the lock is not looked at.
BeginLogin_Unchecked(c) ==
    /\ login[c] = "idle"
    /\ login' \in {[login EXCEPT ![c] = typed] : typed \in {"verify", "verify_other_case"}}
    /\ UNCHANGED <<failed, recent>>

\* assertNotLocked
BeginLogin(c) ==
    /\ login[c] = "idle"
    /\ ~failed.locked
    /\ login' \in {[login EXCEPT ![c] = typed] : typed \in {"verify", "verify_other_case"}}
    /\ UNCHANGED <<failed, recent>>

\* recordFailedLogin, of an unknown address or a wrong password.
FailLogin(c) ==
    /\ c \in Verifying
    /\ failed.count < MaxFailures
    /\ failed' = [count |-> failed.count + 1,
                  locked |-> failed.locked \/ failed.count + 1 >= LOCKOUT_THRESHOLD]
    /\ recent' = recent + 1
    /\ login' = [login EXCEPT ![c] = "idle"]

\* The entry is found by the address in lower case, and deleted by it as typed.
SucceedLogin(c) ==
    /\ c \in Verifying
    /\ IF login[c] = "verify" THEN failed' = NoEntry /\ recent' = 0
       ELSE UNCHANGED <<failed, recent>>
    /\ login' = [login EXCEPT ![c] = "idle"]

\* LOCKOUT_MS pass: the count stays, so the next failure locks again.
LockRunsOut ==
    /\ failed.locked
    /\ failed' = [failed EXCEPT !.locked = FALSE]
    /\ recent' = 0
    /\ UNCHANGED login

ProcessRestarts ==
    /\ failed' = NoEntry
    /\ recent' = 0
    /\ login' = [c \in Logins |-> "idle"]
-----------------------------------------------------------------------------
LockoutInit ==
    /\ failed = NoEntry
    /\ login = [c \in Logins |-> "idle"]
    /\ recent = 0

LockoutNext ==
    \/ \E c \in Logins : BeginLogin(c) \/ FailLogin(c) \/ SucceedLogin(c)
    \/ LockRunsOut \/ ProcessRestarts

LockoutSpec == LockoutInit /\ [][LockoutNext]_lockoutVars
-----------------------------------------------------------------------------
(* Properties *)

\* LOCKOUT_THRESHOLD failures lock the account: between one unlocking and the next
\* there are no more, but for those of logins that passed the check before the last.
LockoutHolds ==
    recent + (IF failed.locked THEN Cardinality(Verifying) ELSE 0)
        < LOCKOUT_THRESHOLD + Cardinality(Logins)
=============================================================================
