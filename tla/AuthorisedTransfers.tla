------------------------ MODULE AuthorisedTransfers ------------------------
(***************************************************************************)
(* What governing a treasury with intents promises, with none of the       *)
(* machinery: an intent becomes authorised (the policy allowed it, or its  *)
(* quorum approved it) and stays so; only an authorised intent puts its    *)
(* transfer on the Safe; and an intent is recorded as executed only after  *)
(* its transfer has been.  IntentLifecycle implements this module.         *)
(***************************************************************************)
CONSTANTS Intents, Payloads, PayloadOf

VARIABLES
    authorised,   \* the intents policy or a quorum has authorised
    onSafe,       \* the payloads the Safe service holds
    executedOn,   \* the payloads executed on chain
    recorded      \* the intents the database calls executed

vars == <<authorised, onSafe, executedOn, recorded>>

Init ==
    /\ authorised = {}
    /\ onSafe = {}
    /\ executedOn = {}
    /\ recorded = {}

Authorise(i) ==
    /\ authorised' = authorised \union {i}
    /\ UNCHANGED <<onSafe, executedOn, recorded>>

Propose(i) ==
    /\ i \in authorised
    /\ onSafe' = onSafe \union {PayloadOf[i]}
    /\ UNCHANGED <<authorised, executedOn, recorded>>

Execute(p) ==
    /\ p \in onSafe
    /\ executedOn' = executedOn \union {p}
    /\ UNCHANGED <<authorised, onSafe, recorded>>

RecordExecuted(i) ==
    /\ i \in authorised
    /\ PayloadOf[i] \in executedOn
    /\ recorded' = recorded \union {i}
    /\ UNCHANGED <<authorised, onSafe, executedOn>>

\* A write from another handler can overwrite the record.
LoseRecord(i) ==
    /\ recorded' = recorded \ {i}
    /\ UNCHANGED <<authorised, onSafe, executedOn>>

Next ==
    \/ \E i \in Intents :
          Authorise(i) \/ Propose(i) \/ RecordExecuted(i) \/ LoseRecord(i)
    \/ \E p \in Payloads : Execute(p)

Spec == Init /\ [][Next]_vars
=============================================================================
