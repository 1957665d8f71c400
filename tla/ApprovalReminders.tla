-------------------------- MODULE ApprovalReminders -------------------------
(***************************************************************************)
(* The hourly sweep that reminds the approvers of pending requests, once   *)
(* after a day and once after three.  A sweep lists the requests, and for  *)
(* each one due sends the mails and then notes that they were sent.        *)
(***************************************************************************)
EXTENDS Naturals, FiniteSets

CONSTANTS
    Pendings,       \* approval requests
    Sweeps,         \* sweeps that may be running at once
    MaxUnnoted      \* bound: failures between sending and noting

ASSUME RemindersAssumption == IsFiniteSet(Sweeps) /\ MaxUnnoted \in Nat

VARIABLES
    ask,        \* the approval requests: age in reminders due, and reminders noted
    sweep,      \* the sweeps, each with what it still has to do
    mails,      \* history: how often each reminder was sent
    unnoted     \* history: failures between sending and noting

reminderVars == <<ask, sweep, mails, unnoted>>
-----------------------------------------------------------------------------
Kinds == {"24h", "72h"}

NoSweep == [pc |-> "idle"]

RemindersTypeOK ==
    /\ ask \in [Pendings -> [open : BOOLEAN, age : SUBSET Kinds, noted : SUBSET Kinds]]
    /\ sweep \in [Sweeps ->
          {NoSweep}
          \union [pc : {"next"}, todo : SUBSET (Pendings \X Kinds)]
          \union [pc : {"note"}, todo : SUBSET (Pendings \X Kinds), of : Pendings \X Kinds]]
    /\ mails \in [Pendings \X Kinds -> Nat]
    /\ unnoted \in 0 .. MaxUnnoted

\* Mutation: the later reminder is looked at first.
DueReminder_LaterFirst(a) ==
    IF "72h" \in a.age /\ "72h" \notin a.noted THEN {"72h"}
    ELSE IF "24h" \in a.age /\ "24h" \notin a.noted THEN {"24h"} ELSE {}

\* At most one for each request in one sweep: the first that was not sent.
DueReminder(a) ==
    IF "24h" \in a.age /\ "24h" \notin a.noted THEN {"24h"}
    ELSE IF "72h" \in a.age /\ "72h" \notin a.noted THEN {"72h"} ELSE {}

\* Sweeps that have still to send a reminder they found due.
Owing(p, kind) ==
    {s \in Sweeps : sweep[s].pc # "idle" /\ <<p, kind>> \in sweep[s].todo}
-----------------------------------------------------------------------------
(* ApprovalReminderProcessor.handle *)

BeginSweep(s) ==
    /\ sweep[s] = NoSweep
    /\ sweep' = [sweep EXCEPT ![s] =
          [pc |-> "next",
           todo |-> {r \in Pendings \X Kinds : ask[r[1]].open /\ r[2] \in DueReminder(ask[r[1]])}]]
    /\ UNCHANGED <<ask, mails, unnoted>>

\* By the list: the request may be decided, or reminded of, since.
SendReminders(s) ==
    /\ sweep[s].pc = "next"
    /\ \E r \in sweep[s].todo :
          /\ mails' = [mails EXCEPT ![r] = @ + 1]
          /\ sweep' = [sweep EXCEPT ![s] = [pc |-> "note", todo |-> sweep[s].todo \ {r}, of |-> r]]
    /\ UNCHANGED <<ask, unnoted>>

NoteSent(s) ==
    /\ sweep[s].pc = "note"
    /\ LET r == sweep[s].of
       IN  ask' = [ask EXCEPT ![r[1]].noted = @ \union {r[2]}]
    /\ sweep' = [sweep EXCEPT ![s] = [pc |-> "next", todo |-> sweep[s].todo]]
    /\ UNCHANGED <<mails, unnoted>>

EndSweep(s) ==
    /\ sweep[s].pc = "next"
    /\ sweep[s].todo = {}
    /\ sweep' = [sweep EXCEPT ![s] = NoSweep]
    /\ UNCHANGED <<ask, mails, unnoted>>

\* One mail of several that is refused ends the sweep, like a crash: its other
\* mails are out, and the requests after it wait for the next sweep.
SweepFails(s) ==
    /\ sweep[s] # NoSweep
    /\ IF sweep[s].pc = "note" THEN unnoted < MaxUnnoted /\ unnoted' = unnoted + 1
       ELSE UNCHANGED unnoted
    /\ sweep' = [sweep EXCEPT ![s] = NoSweep]
    /\ UNCHANGED <<ask, mails>>
-----------------------------------------------------------------------------
\* A day after the request, then three days.
Ages(p) ==
    /\ ask[p].age # Kinds
    /\ ask' = [ask EXCEPT ![p].age = IF @ = {} THEN {"24h"} ELSE Kinds]
    /\ UNCHANGED <<sweep, mails, unnoted>>

\* The request is decided or expires.
Closes(p) ==
    /\ ask[p].open
    /\ ask' = [ask EXCEPT ![p].open = FALSE]
    /\ UNCHANGED <<sweep, mails, unnoted>>
-----------------------------------------------------------------------------
RemindersInit ==
    /\ ask = [p \in Pendings |-> [open |-> TRUE, age |-> {}, noted |-> {}]]
    /\ sweep = [s \in Sweeps |-> NoSweep]
    /\ mails = [r \in Pendings \X Kinds |-> 0]
    /\ unnoted = 0

RemindersNext ==
    \/ \E s \in Sweeps :
          BeginSweep(s) \/ SendReminders(s) \/ NoteSent(s) \/ EndSweep(s) \/ SweepFails(s)
    \/ \E p \in Pendings : Ages(p) \/ Closes(p)

RemindersSpec == RemindersInit /\ [][RemindersNext]_reminderVars
-----------------------------------------------------------------------------
(* Properties *)

\* Approvers get a reminder once, and again only from a sweep that overlapped the
\* first or after a failure between sending and noting; and the later reminder
\* waits until the earlier one is noted, even when a request has gone without a
\* sweep for more than three days.
RemindedOnceInOrder ==
    \A p \in Pendings :
        /\ \A kind \in Kinds :
              mails[<<p, kind>>] + Cardinality(Owing(p, kind)) <= Cardinality(Sweeps) + unnoted
        /\ mails[<<p, "72h">>] > 0 => "24h" \in ask[p].noted
=============================================================================
