---------------------------- MODULE AuditExports ----------------------------
(***************************************************************************)
(* One asynchronous export of the audit log of an organization: the        *)
(* request that makes its row and queues its job, the file it is written   *)
(* to, the deliveries of the job, which the queue repeats after a failure  *)
(* or a stall, and which overlap when a stalled worker goes on, and the    *)
(* request that asks for its download; and one synchronous export.  Events *)
(* are appended all the while.                                             *)
(***************************************************************************)
EXTENDS Naturals, FiniteSets

CONSTANTS
    Deliveries,     \* deliveries of the job that may be running at once
    MaxEvents,      \* bound: audit events in the range of the export
    SYNC_EXPORT_ROW_LIMIT   \* rows a synchronous export may have

ASSUME AuditExportsAssumption ==
    /\ IsFiniteSet(Deliveries)
    /\ MaxEvents \in Nat
    /\ SYNC_EXPORT_ROW_LIMIT \in Nat

VARIABLES
    events,     \* audit events in the range
    export,     \* the audit_export_jobs row
    file,       \* the file under the key of the export
    delivery,   \* the deliveries
    overlapped, \* history: two deliveries were running at once
    requesting, \* the request that creates the export
    jobQueued,  \* the job was added to the queue
    download,   \* the request for the state of the export, and its answer
    direct      \* the synchronous export

requestVars == <<requesting, jobQueued, download, direct>>

exportVars == <<events, export, file, delivery, overlapped, requestVars>>
-----------------------------------------------------------------------------
NoDelivery == [pc |-> "idle"]

PendingExport == [status |-> "pending", rowCount |-> 0]

NoFile == [state |-> "none", rows |-> 0]

DeliveryRecords ==
    [pc : {"idle", "start", "open_file", "upload", "count", "write_failed"}]
    \union [pc : {"complete"}, rowCount : 0 .. MaxEvents]

AuditExportsTypeOK ==
    /\ events \in 0 .. MaxEvents
    /\ export \in [status : {"absent", "pending", "processing", "completed", "failed"},
                   rowCount : 0 .. MaxEvents]
    /\ file \in [state : {"none", "partial", "whole"}, rows : 0 .. MaxEvents]
    /\ delivery \in [Deliveries -> DeliveryRecords]
    /\ overlapped \in BOOLEAN
    /\ requesting \in {"idle", "enqueue", "created", "failed"}
    /\ jobQueued \in BOOLEAN
    /\ download \in {"idle", "not_found", "presign", "not_ready", "offered"}
    /\ direct \in [pc : {"idle", "stream", "too_large", "streamed"},
                   rowCount : 0 .. MaxEvents, rows : 0 .. MaxEvents]

Running == {d \in Deliveries : delivery[d] # NoDelivery}

Proceed(d, step) == delivery' = [delivery EXCEPT ![d] = [pc |-> step]]

\* In the try: the next await, or the catch.
ProceedOrFail(d, step) == Proceed(d, step) \/ Proceed(d, "write_failed")
-----------------------------------------------------------------------------
AppendEvent ==
    /\ events < MaxEvents
    /\ events' = events + 1
    /\ UNCHANGED <<export, file, delivery, overlapped, requestVars>>

(* AuditExportController.createJob and AuditExportQueue.enqueue *)

CreateExport ==
    /\ requesting = "idle"
    /\ export' = PendingExport
    /\ requesting' = "enqueue"
    /\ UNCHANGED <<events, file, delivery, overlapped, jobQueued, download, direct>>

\* The queue is lost: the request fails, and nothing will process the row.
Enqueue ==
    /\ requesting = "enqueue"
    /\ \/ requesting' = "created" /\ jobQueued' = TRUE
       \/ requesting' = "failed" /\ jobQueued' \in BOOLEAN
    /\ UNCHANGED <<events, export, file, delivery, overlapped, download, direct>>

(* AuditExportController.getJob: the row is read, then the link is made. *)

GetExport ==
    /\ download # "presign"
    /\ download' = CASE export.status = "absent"    -> "not_found"
                   [] export.status = "completed" -> "presign"
                   [] OTHER                       -> "not_ready"
    /\ UNCHANGED <<events, export, file, delivery, overlapped, requesting, jobQueued, direct>>

OfferDownload ==
    /\ download = "presign"
    /\ download' = "offered"
    /\ UNCHANGED <<events, export, file, delivery, overlapped, requesting, jobQueued, direct>>

(* AuditExportService.exportCsvSync, and the stream its controller pipes. *)

CountForExport ==
    /\ direct.pc = "idle"
    /\ direct' = [direct EXCEPT !.rowCount = events,
                               !.pc = IF events > SYNC_EXPORT_ROW_LIMIT
                                      THEN "too_large" ELSE "stream"]
    /\ UNCHANGED <<events, export, file, delivery, overlapped, requesting, jobQueued, download>>

StreamCsv ==
    /\ direct.pc = "stream"
    /\ direct' = [direct EXCEPT !.pc = "streamed", !.rows = events]
    /\ UNCHANGED <<events, export, file, delivery, overlapped, requesting, jobQueued, download>>

(* AuditExportProcessor.handle *)

\* getExportJob; a completed export is left alone.
Deliver(d) ==
    /\ delivery[d] = NoDelivery
    /\ jobQueued
    /\ export.status # "completed"
    /\ Proceed(d, "start")
    /\ overlapped' = (overlapped \/ Running # {})
    /\ UNCHANGED <<events, export, file, requestVars>>

MarkProcessing(d) ==
    /\ delivery[d].pc = "start"
    /\ export' = [export EXCEPT !.status = "processing"]
    /\ Proceed(d, "open_file")
    /\ UNCHANGED <<events, file, overlapped, requestVars>>

\* The write stream empties the file that is there.
OpenFile(d) ==
    /\ delivery[d].pc = "open_file"
    /\ \/ /\ file' = [state |-> "partial", rows |-> 0]
          /\ ProceedOrFail(d, "upload")
       \/ /\ UNCHANGED file
          /\ Proceed(d, "write_failed")
    /\ UNCHANGED <<events, export, overlapped, requestVars>>

\* Mutation: the upload is not awaited.
Upload_NotAwaited(d) ==
    /\ delivery[d].pc = "upload"
    /\ ProceedOrFail(d, "count")
    /\ UNCHANGED <<events, export, file, overlapped, requestVars>>

\* The rows are read page by page, in their order: those of the last page count.
Upload(d) ==
    /\ delivery[d].pc = "upload"
    /\ file' = [state |-> "whole", rows |-> events]
    /\ ProceedOrFail(d, "count")
    /\ UNCHANGED <<events, export, overlapped, requestVars>>

CountInRange(d) ==
    /\ delivery[d].pc = "count"
    /\ \/ delivery' = [delivery EXCEPT ![d] = [pc |-> "complete", rowCount |-> events]]
       \/ Proceed(d, "write_failed")
    /\ UNCHANGED <<events, export, file, overlapped, requestVars>>

Complete(d) ==
    /\ delivery[d].pc = "complete"
    /\ \/ /\ export' = [status |-> "completed", rowCount |-> delivery[d].rowCount]
          /\ Proceed(d, "idle")
       \/ UNCHANGED export /\ Proceed(d, "write_failed")
    /\ UNCHANGED <<events, file, overlapped, requestVars>>

\* The catch rethrows, and the queue delivers the job again.
WriteFailed(d) ==
    /\ delivery[d].pc = "write_failed"
    /\ export' = [export EXCEPT !.status = "failed"]
    /\ Proceed(d, "idle")
    /\ UNCHANGED <<events, file, overlapped, requestVars>>

\* The process dies, or an await outside the try rejects.
DeliveryDies(d) ==
    /\ d \in Running
    /\ Proceed(d, "idle")
    /\ UNCHANGED <<events, export, file, overlapped, requestVars>>
-----------------------------------------------------------------------------
AuditExportsInit ==
    /\ events = 0
    /\ export = [PendingExport EXCEPT !.status = "absent"]
    /\ file = NoFile
    /\ delivery = [d \in Deliveries |-> NoDelivery]
    /\ overlapped = FALSE
    /\ requesting = "idle"
    /\ jobQueued = FALSE
    /\ download = "idle"
    /\ direct = [pc |-> "idle", rowCount |-> 0, rows |-> 0]

AuditExportsNext ==
    \/ AppendEvent \/ CreateExport \/ Enqueue \/ GetExport \/ OfferDownload
    \/ CountForExport \/ StreamCsv
    \/ \E d \in Deliveries :
          \/ Deliver(d) \/ MarkProcessing(d) \/ OpenFile(d) \/ Upload(d)
          \/ CountInRange(d) \/ Complete(d) \/ WriteFailed(d) \/ DeliveryDies(d)

AuditExportsSpec == AuditExportsInit /\ [][AuditExportsNext]_exportVars
-----------------------------------------------------------------------------
(* Properties *)

\* An export is reported completed, and its download offered, only with the whole
\* file behind it and a row count that covers the file, after however many failed
\* attempts: only deliveries that overlap can empty a file that was reported.  The
\* count of a synchronous export is the other way about: it is taken first, and the
\* rows may exceed it, and the limit.
CompletedCanBeDownloaded ==
    /\ (export.status = "completed" \/ download \in {"presign", "offered"}) /\ ~overlapped =>
          file.state = "whole" /\ file.rows <= export.rowCount
    /\ direct.pc = "streamed" => direct.rowCount <= direct.rows
=============================================================================
