------------------------------ MODULE AuditLog ------------------------------
(***************************************************************************)
(* The audit log of an organization and the page that lists it.  append    *)
(* stamps an event before it inserts it, so rows do not appear in the      *)
(* order of their stamps; query returns pages from a cursor, the newest    *)
(* first; and the page in the browser puts together whatever answers come, *)
(* for filters that may have changed since they were asked for.            *)
(***************************************************************************)
EXTENDS Integers, Sequences, FiniteSets, SequencesExt

CONSTANTS
    Events,         \* ids of audit events, never 0
    EventType,      \* the type of each
    Filters,        \* values of the page's filter, as the event types each lets through
    Loads,          \* queries of the page that may be in flight at once
    PageLimit,      \* the query's limit
    MaxItems,       \* bound: with so many items no more are asked for
    Moments         \* moments an event may be stamped with

EventTypes ==
    {"org.created", "member.invited", "intent.created", "intent.policy_denied",
     "approval.granted", "approval.rejected", "wallet.connected"}

ASSUME AuditAssumption ==
    /\ 0 \notin Events
    /\ EventType \in [Events -> EventTypes]
    /\ Filters \subseteq SUBSET EventTypes /\ EventTypes \in Filters
    /\ PageLimit \in Nat \ {0}
    /\ Moments \subseteq Nat

VARIABLES
    createdAt,  \* of the rows, by event; -1 for an event without a row
    view,       \* the page: the filter, the items, the cursor (0 without one), loading
    load,       \* the queries
    listing     \* history: what the items list, the rows there were at the first page, the
                \* queries for more of what was listed before, and whether a page was
                \* appended that does not follow the last one

auditVars == <<createdAt, view, load, listing>>
-----------------------------------------------------------------------------
NoLoad == [pc |-> "idle"]

LoadRecords ==
    {NoLoad}
    \union [pc : {"sent"}, filter : Filters, append : BOOLEAN, cursor : Events \union {0}]
    \union [pc : {"answered"}, filter : Filters, append : BOOLEAN, cursor : Events \union {0},
            rows : Seq(Events), next : Events \union {0}, base : SUBSET Events]

AuditTypeOK ==
    /\ createdAt \in [Events -> Moments \union {-1}]
    /\ view \in [filter : Filters, items : Seq(Events), cursor : Events \union {0}, loading : BOOLEAN]
    /\ load \in [Loads -> LoadRecords]
    /\ listing \in [filter : Filters, base : SUBSET Events, outdated : SUBSET Loads,
                   mixed : BOOLEAN]

Inserted == {e \in Events : createdAt[e] # -1}
-----------------------------------------------------------------------------
(* AuditService.append; one that fails leaves nothing *)

\* The moment is taken before the insert, which may be any time later.
AppendRow(e) ==
    /\ e \notin Inserted
    /\ \E now \in Moments : createdAt' = [createdAt EXCEPT ![e] = now]
    /\ UNCHANGED <<view, load, listing>>
-----------------------------------------------------------------------------
(* useAuditEvents *)

Send(l, filter, append, cursor) ==
    load' = [load EXCEPT ![l] =
        [pc |-> "sent", filter |-> filter, append |-> append, cursor |-> cursor]]

\* The effect of a new filter does not wait for the query in flight, nor cancel it.
ChangeFilter(l, filter) ==
    /\ load[l] = NoLoad
    /\ filter # view.filter
    /\ Send(l, filter, FALSE, 0)
    /\ view' = [view EXCEPT !.filter = filter, !.loading = TRUE]
    /\ UNCHANGED <<createdAt, listing>>

LoadMore(l) ==
    /\ load[l] = NoLoad
    /\ view.cursor # 0 /\ ~ view.loading
    /\ Len(view.items) < MaxItems
    /\ Send(l, view.filter, TRUE, view.cursor)
    /\ view' = [view EXCEPT !.loading = TRUE]
    /\ UNCHANGED <<createdAt, listing>>

\* The queries for more than is shown.
More == {l \in Loads : load[l] # NoLoad /\ load[l].append}

ShowPage(l) ==
    /\ load[l].pc = "answered"
    /\ LET r == load[l]
       IN  /\ view' = [view EXCEPT !.items = IF r.append THEN @ \o r.rows ELSE r.rows,
                                   !.cursor = r.next, !.loading = FALSE]
           /\ listing' = IF r.append
                         THEN [listing EXCEPT
                                 !.mixed = \/ @ \/ l \in listing.outdated
                                           \/ r.filter # listing.filter \/ r.cursor # view.cursor,
                                 !.outdated = @ \ {l}]
                         ELSE [filter |-> r.filter, base |-> r.base, outdated |-> More \ {l},
                               mixed |-> FALSE]
    /\ load' = [load EXCEPT ![l] = NoLoad]
    /\ UNCHANGED createdAt

\* The items stay, and the button is enabled again.
LoadFails(l) ==
    /\ load[l] # NoLoad
    /\ load' = [load EXCEPT ![l] = NoLoad]
    /\ view' = [view EXCEPT !.loading = FALSE]
    /\ listing' = [listing EXCEPT !.outdated = @ \ {l}]
    /\ UNCHANGED createdAt
-----------------------------------------------------------------------------
(* AuditQueryService.query *)

\* orderBy createdAt desc: events of one moment come in any order.
Orders(rows) ==
    {s \in [1 .. Cardinality(rows) -> rows] :
        /\ ToSet(s) = rows
        /\ \A j, k \in DOMAIN s : j < k => createdAt[s[j]] >= createdAt[s[k]]}

\* The rows from the cursor on: those stamped no later.
From(cursor) == {e \in Inserted : cursor = 0 \/ createdAt[e] <= createdAt[cursor]}

\* Mutation: the cursor's row is not skipped.
Skip_None(cursor) == 0

Skip(cursor) == IF cursor = 0 THEN 0 ELSE 1

Query(l) ==
    /\ load[l].pc = "sent"
    /\ \E s \in Orders({e \in From(load[l].cursor) : EventType[e] \in load[l].filter}) :
          LET found == SubSeq(s, 1 + Skip(load[l].cursor), Len(s))
              hasMore == Len(found) > PageLimit
              page == IF hasMore THEN SubSeq(found, 1, PageLimit) ELSE found
          IN  load' = [load EXCEPT ![l] =
                [pc |-> "answered", filter |-> @.filter, append |-> @.append, cursor |-> @.cursor,
                 rows |-> page, next |-> IF hasMore THEN Last(page) ELSE 0,
                 base |-> {e \in Inserted : EventType[e] \in load[l].filter}]]
    /\ UNCHANGED <<createdAt, view, listing>>
-----------------------------------------------------------------------------
\* The page mounts with a filter that lets everything through.
AuditInit ==
    /\ createdAt = [e \in Events |-> -1]
    /\ view = [filter |-> EventTypes, items |-> <<>>, cursor |-> 0, loading |-> TRUE]
    /\ load = [l \in Loads |-> IF l # CHOOSE k \in Loads : TRUE THEN NoLoad ELSE
                  [pc |-> "sent", filter |-> EventTypes, append |-> FALSE, cursor |-> 0]]
    /\ listing = [filter |-> EventTypes, base |-> {}, outdated |-> {}, mixed |-> FALSE]

AuditNext ==
    \/ \E e \in Events : AppendRow(e)
    \/ \E l \in Loads :
          \/ \E filter \in Filters : ChangeFilter(l, filter)
          \/ LoadMore(l) \/ Query(l) \/ ShowPage(l) \/ LoadFails(l)

AuditSpec == AuditInit /\ [][AuditNext]_auditVars
-----------------------------------------------------------------------------
(* Properties *)

TimesShown(e) == Cardinality({k \in DOMAIN view.items : view.items[k] = e})

\* Events whose moment no other event has.
OwnMoment(e) == \A d \in Inserted \ {e} : createdAt[d] # createdAt[e]

\* How far down the pages have come: everything, once no cursor is left.
Reached(e) ==
    \/ view.cursor = 0
    \/ createdAt[e] >= createdAt[view.cursor]

\* Pages that follow one another show each row there was at the first of them
\* once, as far as they have come: rows that are inserted meanwhile, above the
\* cursor or below it, shift nothing.  Events of one moment are excepted, and so
\* is a page asked for twice, for another filter, or before the first page came.
PagesCoverLog ==
    ~ listing.mixed =>
        \A e \in Inserted : OwnMoment(e) =>
            /\ TimesShown(e) <= 1
            /\ e \in listing.base /\ Reached(e) => TimesShown(e) = 1
=============================================================================
