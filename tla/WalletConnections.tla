-------------------------- MODULE WalletConnections -------------------------
(***************************************************************************)
(* Connecting a Safe.  The form in the browser asks for a challenge, has   *)
(* it signed and sends it back; the request that verifies it deletes the   *)
(* challenge, adds the wallet row, queues a sync of its owners and appends *)
(* to the audit log, one await after another, and the answer may be lost   *)
(* on its way.  The sync is done by the worker, from a BullMQ job.         *)
(***************************************************************************)
EXTENDS Naturals, FiniteSets

CONSTANTS
    Safes,          \* organization, address and chain of each Safe
    OrgOf,          \* the organization in each
    Forms,          \* connect forms, open in browsers
    Connects,       \* connect and verify requests that may be in flight at once
    Challenges,     \* challenge ids, random and never issued twice
    MaxAttempts     \* attempts of a sync job

ASSUME WalletsAssumption ==
    /\ IsFiniteSet(Connects)
    /\ MaxAttempts \in Nat \ {0}
    /\ "none" \notin Connects \union Challenges

VARIABLES
    form,       \* the forms
    connect,    \* the requests
    challenge,  \* the keys of the challenges in Redis
    wallet,     \* the wallets rows
    syncJob,    \* the wallet-sync job of each wallet
    connected,  \* history: how many wallet-connected events were appended
    unqueued    \* history: wallets whose request ended before the job was queued

walletVars == <<form, connect, challenge, wallet, syncJob, connected, unqueued>>
-----------------------------------------------------------------------------
NewForm == [step |-> "form", challenge |-> "none", awaits |-> "none"]

NotConnecting == [pc |-> "idle"]

NoJob == [state |-> "none", failures |-> 0]

ConnectRecords ==
    {NotConnecting}
    \union [pc : {"connect", "issue", "create_wallet", "enqueue", "audit"},
            form : Forms, safe : Safes]
    \union [pc : {"verify", "delete_challenge"}, form : Forms, safe : Safes,
            challenge : Challenges]

WalletRows == {"absent", "without_owners", "synced"}

WalletsTypeOK ==
    /\ form \in [Forms -> [step : {"form", "sign"}, challenge : Challenges \union {"none"},
                           awaits : Connects \union {"none"}]]
    /\ connect \in [Connects -> ConnectRecords]
    /\ challenge \in [Challenges -> [state : {"unissued"}] \union
                                    [state : {"live", "gone"}, safe : Safes]]
    /\ wallet \in [Safes -> WalletRows]
    /\ syncJob \in [Safes -> [state : {"none", "waiting", "active", "updated", "completed", "failed"},
                              failures : 0 .. MaxAttempts]]
    /\ connected \in [Safes -> Nat]
    /\ unqueued \subseteq Safes

ConnectAt(c, step) == connect[c].pc = step

\* The answer reaches the form, unless the form has stopped waiting for it.
Answered(f, c, new) == form' = IF form[f].awaits = c THEN [form EXCEPT ![f] = new] ELSE form

EndConnect(c) == connect' = [connect EXCEPT ![c] = NotConnecting]

NotAwaiting(f) == [form[f] EXCEPT !.awaits = "none"]
-----------------------------------------------------------------------------
(* ConnectSafeForm *)

HandleConnect(f, c, s) ==
    /\ form[f].step = "form" /\ form[f].awaits = "none"
    /\ connect[c] = NotConnecting
    /\ form' = [form EXCEPT ![f].awaits = c]
    /\ connect' = [connect EXCEPT ![c] = [pc |-> "connect", form |-> f, safe |-> s]]
    /\ UNCHANGED <<challenge, wallet, syncJob, connected, unqueued>>

\* The button is disabled only while an answer is awaited, and the form stays at
\* this step whatever the answer.  The form names the Safe of its challenge;
\* another client may name any.
SignWithWallet(f, c, s) ==
    /\ form[f].step = "sign" /\ form[f].awaits = "none"
    /\ connect[c] = NotConnecting
    /\ form' = [form EXCEPT ![f].awaits = c]
    /\ connect' = [connect EXCEPT ![c] = [pc |-> "verify", form |-> f, safe |-> s,
                                          challenge |-> form[f].challenge]]
    /\ UNCHANGED <<challenge, wallet, syncJob, connected, unqueued>>

\* The connection breaks: an error is shown while the request goes on.
AnswerLost(f) ==
    /\ form[f].awaits # "none"
    /\ form' = [form EXCEPT ![f] = NotAwaiting(f)]
    /\ UNCHANGED <<connect, challenge, wallet, syncJob, connected, unqueued>>

Reload(f) ==
    /\ form[f] # NewForm
    /\ form' = [form EXCEPT ![f] = NewForm]
    /\ UNCHANGED <<connect, challenge, wallet, syncJob, connected, unqueued>>
-----------------------------------------------------------------------------
(* WalletService *)

\* The Safe can be read on its chain, and is not connected to the organization;
\* otherwise the request ends as ConnectFails.
StartConnect(c) ==
    /\ ConnectAt(c, "connect")
    /\ wallet[connect[c].safe] = "absent"
    /\ connect' = [connect EXCEPT ![c].pc = "issue"]
    /\ UNCHANGED <<form, challenge, wallet, syncJob, connected, unqueued>>

CreateChallenge(c, h) ==
    /\ ConnectAt(c, "issue")
    /\ challenge[h].state = "unissued"
    /\ challenge' = [challenge EXCEPT ![h] = [state |-> "live", safe |-> connect[c].safe]]
    /\ Answered(connect[c].form, c, [step |-> "sign", challenge |-> h, awaits |-> "none"])
    /\ EndConnect(c)
    /\ UNCHANGED <<wallet, syncJob, connected, unqueued>>

\* CHALLENGE_TTL_SEC pass.
ChallengeLapses(h) ==
    /\ challenge[h].state = "live"
    /\ challenge' = [challenge EXCEPT ![h].state = "gone"]
    /\ UNCHANGED <<form, connect, wallet, syncJob, connected, unqueued>>

\* The challenge is there, and an owner of its Safe has signed it.
VerifySigner(c) ==
    /\ ConnectAt(c, "verify")
    /\ challenge[connect[c].challenge].state = "live"
    /\ connect' = [connect EXCEPT ![c].pc = "delete_challenge"]
    /\ UNCHANGED <<form, challenge, wallet, syncJob, connected, unqueued>>

\* del does not mind a key that is gone: two requests may have read it.  A
\* challenge of another organization is deleted before it is refused.
DeleteChallenge(c) ==
    /\ ConnectAt(c, "delete_challenge")
    /\ LET h == connect[c].challenge
           f == connect[c].form
       IN  /\ challenge' = [challenge EXCEPT ![h].state = "gone"]
           /\ \/ /\ OrgOf[challenge[h].safe] = OrgOf[connect[c].safe]
                 /\ connect' = [connect EXCEPT ![c] =
                      [pc |-> "create_wallet", form |-> f, safe |-> connect[c].safe]]
                 /\ UNCHANGED form
              \/ /\ OrgOf[challenge[h].safe] # OrgOf[connect[c].safe]
                 /\ Answered(f, c, NotAwaiting(f))
                 /\ EndConnect(c)
    /\ UNCHANGED <<wallet, syncJob, connected, unqueued>>

\* Mutation: upsert in place of create.
CreateWallet_Upsert(c) ==
    /\ ConnectAt(c, "create_wallet")
    /\ wallet' = [wallet EXCEPT ![connect[c].safe] = IF @ = "absent" THEN "without_owners" ELSE @]
    /\ connect' = [connect EXCEPT ![c].pc = "enqueue"]
    /\ UNCHANGED <<form, challenge, syncJob, connected, unqueued>>

\* The unique index refuses a second row; the new one has its threshold but no
\* owners yet.
CreateWallet(c) ==
    /\ ConnectAt(c, "create_wallet")
    /\ LET s == connect[c].safe
           f == connect[c].form
       IN  \/ /\ wallet[s] = "absent"
              /\ wallet' = [wallet EXCEPT ![s] = "without_owners"]
              /\ connect' = [connect EXCEPT ![c].pc = "enqueue"]
              /\ UNCHANGED form
           \/ /\ wallet[s] # "absent"
              /\ Answered(f, c, NotAwaiting(f))
              /\ EndConnect(c)
              /\ UNCHANGED wallet
    /\ UNCHANGED <<challenge, syncJob, connected, unqueued>>

\* The id of the job is the wallet's, so adding it again would change nothing.
EnqueueWalletSync(c) ==
    /\ ConnectAt(c, "enqueue")
    /\ LET s == connect[c].safe
       IN  syncJob' = IF syncJob[s] = NoJob THEN [syncJob EXCEPT ![s].state = "waiting"] ELSE syncJob
    /\ connect' = [connect EXCEPT ![c].pc = "audit"]
    /\ UNCHANGED <<form, challenge, wallet, connected, unqueued>>

AppendWalletConnected(c) ==
    /\ ConnectAt(c, "audit")
    /\ connected' = [connected EXCEPT ![connect[c].safe] = @ + 1]
    /\ Answered(connect[c].form, c, NotAwaiting(connect[c].form))
    /\ EndConnect(c)
    /\ UNCHANGED <<challenge, wallet, syncJob, unqueued>>

\* An await rejects or the process dies, and the form shows an error.
ConnectFails(c) ==
    /\ connect[c] # NotConnecting
    /\ unqueued' = IF ConnectAt(c, "enqueue") THEN unqueued \union {connect[c].safe} ELSE unqueued
    /\ Answered(connect[c].form, c, NotAwaiting(connect[c].form))
    /\ EndConnect(c)
    /\ UNCHANGED <<challenge, wallet, syncJob, connected>>
-----------------------------------------------------------------------------
(* The worker *)

Job(s, from, to) == syncJob[s].state = from /\ syncJob' = [syncJob EXCEPT ![s].state = to]

TakeJob(s) ==
    /\ Job(s, "waiting", "active")
    /\ UNCHANGED <<form, connect, challenge, wallet, connected, unqueued>>

\* syncWalletById: the owners and the threshold are read, and written at once.
SyncWalletById(s) ==
    /\ Job(s, "active", "updated")
    /\ wallet' = [wallet EXCEPT ![s] = "synced"]
    /\ UNCHANGED <<form, connect, challenge, connected, unqueued>>

JobCompletes(s) ==
    /\ Job(s, "updated", "completed")
    /\ UNCHANGED <<form, connect, challenge, wallet, connected, unqueued>>

\* Mutation: the error is logged and not thrown again.
SyncThrows_Swallowed(s) ==
    /\ Job(s, "active", "completed")
    /\ UNCHANGED <<form, connect, challenge, wallet, connected, unqueued>>

\* The Safe cannot be read or the row not written: tried again with a delay,
\* MaxAttempts times in all.
SyncThrows(s) ==
    /\ syncJob[s].state = "active"
    /\ syncJob' = [syncJob EXCEPT ![s] =
          [state |-> IF @.failures + 1 < MaxAttempts THEN "waiting" ELSE "failed",
           failures |-> @.failures + 1]]
    /\ UNCHANGED <<form, connect, challenge, wallet, connected, unqueued>>

\* The worker dies: its job is found stalled and given to another, or given up.
WorkerDies(s) ==
    /\ \/ Job(s, "active", "waiting") \/ Job(s, "active", "failed")
       \/ Job(s, "updated", "waiting") \/ Job(s, "updated", "failed")
    /\ UNCHANGED <<form, connect, challenge, wallet, connected, unqueued>>
-----------------------------------------------------------------------------
WalletsInit ==
    /\ form = [f \in Forms |-> NewForm]
    /\ connect = [c \in Connects |-> NotConnecting]
    /\ challenge = [h \in Challenges |-> [state |-> "unissued"]]
    /\ wallet = [s \in Safes |-> "absent"]
    /\ syncJob = [s \in Safes |-> NoJob]
    /\ connected = [s \in Safes |-> 0]
    /\ unqueued = {}

ConnectProceeds(c) ==
    \/ StartConnect(c) \/ \E h \in Challenges : CreateChallenge(c, h)
    \/ VerifySigner(c) \/ DeleteChallenge(c)
    \/ CreateWallet(c) \/ EnqueueWalletSync(c) \/ AppendWalletConnected(c)

Work(s) == TakeJob(s) \/ SyncWalletById(s) \/ JobCompletes(s) \/ SyncThrows(s)

WalletsNext ==
    \/ \E f \in Forms :
          \/ \E c \in Connects, s \in Safes : HandleConnect(f, c, s) \/ SignWithWallet(f, c, s)
          \/ AnswerLost(f) \/ Reload(f)
    \/ \E c \in Connects : ConnectProceeds(c) \/ ConnectFails(c)
    \/ \E h \in Challenges : ChallengeLapses(h)
    \/ \E s \in Safes : Work(s) \/ WorkerDies(s)

WalletsSpec == WalletsInit /\ [][WalletsNext]_walletVars
-----------------------------------------------------------------------------
(* Properties *)

Adding(s) == {c \in Connects : connect[c].pc \in {"enqueue", "audit"} /\ connect[c].safe = s}

\* A wallet whose owners were never read has a job to read them, or one that was
\* given up, or its request is about to queue it or ended before it could: no
\* failed read, stalled worker or lost answer leaves it behind a completed job.
UnsyncedAccounted ==
    \A s \in Safes : wallet[s] = "without_owners" =>
        \/ syncJob[s].state \in {"waiting", "active", "failed"}
        \/ s \in unqueued
        \/ \E c \in Adding(s) : ConnectAt(c, "enqueue")

\* A Safe is connected by one request only, however many hold one challenge or
\* send the form again, and it enters the audit log once, after its sync is queued;
\* and its owners get read, or the reason they are not is there to be seen.
WalletsConnectInOrder ==
    /\ \A s \in Safes :
          /\ connected[s] + Cardinality(Adding(s)) <= 1
          /\ connected[s] > 0 => syncJob[s] # NoJob
    /\ UnsyncedAccounted
=============================================================================
