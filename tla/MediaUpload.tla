---------------------------- MODULE MediaUpload -----------------------------
(***************************************************************************)
(* One staged media upload: its row and lease in SQLite (mediastore), its  *)
(* bytes on disk (mediafs), the client's Create, Append, Complete and      *)
(* Cancel requests as concurrent handlers (app/media), and the minute      *)
(* sweeper Recover.  The row and the file are updated in separate atomic   *)
(* steps: a SQL statement or transaction, or one mediafs call under its    *)
(* mutex.  Only the row is compare-and-set.                                *)
(***************************************************************************)
EXTENDS Integers, Sequences, FiniteSets

CONSTANTS
  Handlers,   \* request goroutines on this upload
  Expected,   \* the bytes whose digest and length the client declared
  Chunks,     \* the bodies a PUT may carry
  MaxActive   \* bound: how many handlers and sweeps run at once

\* The bytes that occur in them.
Bytes == UNION {{c[i] : i \in DOMAIN c} : c \in Chunks \cup {Expected}}

ASSUME MediaAssumption ==
  /\ IsFiniteSet(Handlers)
  /\ Expected \in Seq(Bytes) \ {<<>>}
  /\ Chunks \subseteq Seq(Bytes) \ {<<>>}
  /\ MaxActive \in Nat \ {0}

VARIABLES
  row,       \* media_uploads.state, "none" before the insert, "deleted" after
  received,  \* media_uploads.received_bytes, the durable cursor
  late,      \* the clock has passed media_uploads.expires_at
  lease,     \* media_leases.state
  leaseLate, \* the clock has passed media_leases.expires_at
  exists,    \* the staged file exists
  file,      \* its bytes
  pc,        \* per handler: the next step of its request
  snap,      \* per handler: what it has read and carries
  sweep,     \* the next step of Recover
  swept,     \* received_bytes as OpenUploads listed it
  cancelled, \* history: some Cancel has answered success
  overlapped \* history: two requests, or a request and a sweep, ran at once

upload   == <<row, received>>
clock    == <<late, leaseLate>>
disk     == <<exists, file>>
sweeper  == <<sweep, swept>>
handlers == <<pc, snap>>
history  == <<cancelled, overlapped>>
vars     == <<upload, clock, lease, disk, handlers, sweeper, history>>

Total   == Len(Expected)
Blank   == [received |-> 0, chunk |-> <<>>, intime |-> FALSE]
Offsets == 0..Total
Steps   == {"idle", "createRecord", "createUndo",
            "appendSize", "appendRepair", "appendWrite", "appendCursor", "appendUndo",
            "completeHash", "completeMime", "completeSeal",
            "cancelAbort", "cancelReread", "cancelRemove"}

TypeOK ==
  /\ row \in {"none", "open", "completed", "aborted", "expired", "deleted"}
  /\ received \in Offsets
  /\ late \in BOOLEAN /\ leaseLate \in BOOLEAN
  /\ lease \in {"none", "active", "expired", "deleted"}
  /\ exists \in BOOLEAN
  /\ file \in Seq(Bytes) /\ Len(file) <= Total
  /\ pc \in [Handlers -> Steps]
  /\ snap \in [Handlers -> [received : Offsets, chunk : Chunks \cup {<<>>}, intime : BOOLEAN]]
  /\ sweep \in {"idle", "open", "size", "expire", "truncate", "list", "remove", "ack"}
  /\ swept \in Offsets
  /\ cancelled \in BOOLEAN /\ overlapped \in BOOLEAN

Init ==
  /\ row = "none" /\ received = 0 /\ late = FALSE
  /\ lease = "none" /\ leaseLate = FALSE
  /\ exists = FALSE /\ file = <<>>
  /\ pc = [h \in Handlers |-> "idle"]
  /\ snap = [h \in Handlers |-> Blank]
  /\ sweep = "idle" /\ swept = 0
  /\ cancelled = FALSE /\ overlapped = FALSE

-----------------------------------------------------------------------------
(* Control of a handler. *)

Active == Cardinality({h \in Handlers : pc[h] # "idle"}) + (IF sweep = "idle" THEN 0 ELSE 1)

\* One more begins.
Begins ==
  /\ Active < MaxActive
  /\ overlapped' = (overlapped \/ Active > 0)

Starts(h, step, carries) ==
  /\ pc[h] = "idle"
  /\ Begins
  /\ pc' = [pc EXCEPT ![h] = step]
  /\ snap' = [snap EXCEPT ![h] = carries]

Goes(h, from, to) ==
  /\ pc[h] = from
  /\ pc' = [pc EXCEPT ![h] = to]
  /\ UNCHANGED snap

Returns(h, from) ==
  /\ pc[h] = from
  /\ pc' = [pc EXCEPT ![h] = "idle"]
  /\ snap' = [snap EXCEPT ![h] = Blank]

\* openOwned: the row as read, refused unless open and unexpired.
OpenOwned == row = "open" /\ ~late

-----------------------------------------------------------------------------
(* The file operations of mediafs. *)

\* Mutant: the file is opened with O_CREATE.
CanWriteCreating(offset) == Len(file) = offset

\* Append opens an existing file only and writes at its exact end.
CanWrite(offset) == exists /\ Len(file) = offset

Write(data) ==
  /\ exists' = TRUE
  /\ file' = file \o data

\* Truncate never grows the file; a missing file is an error.
CanTruncate(size) == exists /\ size <= Len(file)

Truncate(size) ==
  /\ file' = SubSeq(file, 1, size)
  /\ UNCHANGED exists

Remove ==
  /\ exists' = FALSE
  /\ file' = <<>>

-----------------------------------------------------------------------------
(* Create: the file first (O_EXCL), then the row; the file is removed when *)
(* the insert fails.  The id is fresh and unknown to any other request.    *)

CreateFile(h) ==
  /\ row = "none"
  /\ ~exists
  /\ \A g \in Handlers : pc[g] = "idle"
  /\ Starts(h, "createRecord", Blank)
  /\ exists' = TRUE
  /\ UNCHANGED <<upload, clock, lease, file, sweeper, cancelled>>

CreateUpload(h) ==
  /\ Returns(h, "createRecord")
  /\ row' = "open"
  /\ UNCHANGED <<received, clock, lease, disk, sweeper, history>>

CreateFails(h) ==
  /\ Goes(h, "createRecord", "createUndo")
  /\ UNCHANGED <<upload, clock, lease, disk, sweeper, history>>

CreateUndo(h) ==
  /\ Returns(h, "createUndo")
  /\ Remove
  /\ UNCHANGED <<upload, clock, lease, sweeper, history>>

-----------------------------------------------------------------------------
(* Append. *)

\* The client's offset equals the cursor as read; other offsets are refused.
AppendStart(h) ==
  /\ OpenOwned
  /\ \E c \in Chunks :
       Starts(h, "appendSize", [received |-> received, chunk |-> c, intime |-> FALSE])
  /\ UNCHANGED <<upload, clock, lease, disk, sweeper, cancelled>>

\* A missing file, or one shorter than the cursor, ends the request.
AppendSize(h) ==
  /\ IF CanTruncate(snap[h].received)
     THEN Goes(h, "appendSize", IF Len(file) = snap[h].received THEN "appendWrite" ELSE "appendRepair")
     ELSE Returns(h, "appendSize")
  /\ UNCHANGED <<upload, clock, lease, disk, sweeper, history>>

AppendRepair(h) ==
  /\ IF CanTruncate(snap[h].received)
     THEN Goes(h, "appendRepair", "appendWrite") /\ Truncate(snap[h].received)
     ELSE Returns(h, "appendRepair") /\ UNCHANGED disk
  /\ UNCHANGED <<upload, clock, lease, sweeper, history>>

Fits(h) == snap[h].received + Len(snap[h].chunk) <= Total

\* Write and fsync, then read the clock for the cursor update.
AppendWrite(h) ==
  /\ pc[h] = "appendWrite"
  /\ IF Fits(h) /\ CanWrite(snap[h].received)
     THEN /\ Write(snap[h].chunk)
          /\ pc' = [pc EXCEPT ![h] = "appendCursor"]
          /\ snap' = [snap EXCEPT ![h].intime = ~late]
     ELSE Returns(h, "appendWrite") /\ UNCHANGED disk
  /\ UNCHANGED <<upload, clock, lease, sweeper, history>>

\* Mutant: a failed write is not noticed and the cursor moves over it.
AppendWriteIgnored(h) ==
  /\ pc[h] = "appendWrite"
  /\ Fits(h)
  /\ CanWrite(snap[h].received)
  /\ pc' = [pc EXCEPT ![h] = "appendCursor"]
  /\ snap' = [snap EXCEPT ![h].intime = ~late]
  /\ \E n \in 0..Len(snap[h].chunk) : Write(SubSeq(snap[h].chunk, 1, n))
  /\ UNCHANGED <<upload, clock, lease, sweeper, history>>

\* A failing write or fsync leaves any prefix of the chunk behind.
AppendWriteFails(h) ==
  /\ Returns(h, "appendWrite")
  /\ Fits(h)
  /\ CanWrite(snap[h].received)
  /\ \E n \in 0..Len(snap[h].chunk) : Write(SubSeq(snap[h].chunk, 1, n))
  /\ UNCHANGED <<upload, clock, lease, sweeper, history>>

\* Mutant: the cursor update does not compare received_bytes.
AdvanceUnchecked(h) == row = "open" /\ snap[h].intime

\* The WHERE clause of the cursor update.
Advances(h) == row = "open" /\ snap[h].intime /\ received = snap[h].received

AdvanceReceived(h) ==
  /\ IF Advances(h)
     THEN /\ Returns(h, "appendCursor")
          /\ received' = snap[h].received + Len(snap[h].chunk)
     ELSE Goes(h, "appendCursor", "appendUndo") /\ UNCHANGED received
  /\ UNCHANGED <<row, clock, lease, disk, sweeper, history>>

AdvanceFails(h) ==
  /\ Goes(h, "appendCursor", "appendUndo")
  /\ UNCHANGED <<upload, clock, lease, disk, sweeper, history>>

\* The tail is truncated under a background context; errors are ignored.
AppendUndo(h) ==
  /\ Returns(h, "appendUndo")
  /\ IF CanTruncate(snap[h].received) THEN Truncate(snap[h].received) ELSE UNCHANGED disk
  /\ UNCHANGED <<upload, clock, lease, sweeper, history>>

-----------------------------------------------------------------------------
(* Complete. *)

CompleteStart(h) ==
  /\ OpenOwned
  /\ received = Total
  /\ Starts(h, "completeHash", Blank)
  /\ UNCHANGED <<upload, clock, lease, disk, sweeper, cancelled>>

DigestMatches == exists /\ file = Expected

CompleteHash(h) ==
  /\ IF DigestMatches THEN Goes(h, "completeHash", "completeMime")
                      ELSE Returns(h, "completeHash")
  /\ UNCHANGED <<upload, clock, lease, disk, sweeper, history>>

\* The magic bytes decide the MIME type; then the clock is read.
CompleteMime(h) ==
  /\ pc[h] = "completeMime"
  /\ IF exists /\ file # <<>> /\ Head(file) = Head(Expected)
     THEN /\ pc' = [pc EXCEPT ![h] = "completeSeal"]
          /\ snap' = [snap EXCEPT ![h].intime = ~late]
     ELSE Returns(h, "completeMime")
  /\ UNCHANGED <<upload, clock, lease, disk, sweeper, history>>

\* Mutant: the sealing update does not require the open state.
SealsAnyState(h) == row \notin {"none", "deleted"} /\ snap[h].intime

\* The WHERE clause of the sealing update; the digest matched the declared one.
Seals(h) == row = "open" /\ snap[h].intime /\ received = Total

\* The row is sealed and the lease inserted in one transaction.
CompleteUpload(h) ==
  /\ Returns(h, "completeSeal")
  /\ IF Seals(h)
     THEN row' = "completed" /\ lease' = "active"
     ELSE UNCHANGED <<row, lease>>
  /\ UNCHANGED <<received, clock, disk, sweeper, history>>

-----------------------------------------------------------------------------
(* Cancel. *)

\* An aborted row is a retried DELETE; other closed rows are refused.
CancelStart(h) ==
  /\ \/ OpenOwned /\ Starts(h, "cancelAbort", Blank)
     \/ row = "aborted" /\ Starts(h, "cancelRemove", Blank)
  /\ UNCHANGED <<upload, clock, lease, disk, sweeper, cancelled>>

\* The expiry condition was checked against the same clock reading.
AbortOpen(h) ==
  /\ IF row = "open"
     THEN Goes(h, "cancelAbort", "cancelRemove") /\ row' = "aborted"
     ELSE Goes(h, "cancelAbort", "cancelReread") /\ UNCHANGED row
  /\ UNCHANGED <<received, clock, lease, disk, sweeper, history>>

\* A lost race counts as success only if another cancel won it.
CancelReread(h) ==
  /\ IF row = "aborted" THEN Goes(h, "cancelReread", "cancelRemove")
                        ELSE Returns(h, "cancelReread")
  /\ UNCHANGED <<upload, clock, lease, disk, sweeper, history>>

CancelRemove(h) ==
  /\ Returns(h, "cancelRemove")
  /\ Remove
  /\ cancelled' = TRUE
  /\ UNCHANGED <<upload, clock, lease, sweeper, overlapped>>

\* An I/O error, a SQL error or a cancelled request context ends a request at
\* any step; only createRecord and appendCursor have an undo step to go to.
RequestFails(h) ==
  /\ \E s \in Steps \ {"idle", "createRecord", "appendCursor"} : Returns(h, s)
  /\ UNCHANGED <<upload, clock, lease, disk, sweeper, history>>

-----------------------------------------------------------------------------
(* Recover: at startup and once a minute. *)

SweepGoes(from, to) ==
  /\ sweep = from
  /\ sweep' = to

\* One transaction expires the overdue row and the overdue lease.
SweepExpire ==
  /\ Begins
  /\ SweepGoes("idle", "open")
  /\ row' = IF row = "open" /\ late THEN "expired" ELSE row
  /\ lease' = IF lease = "active" /\ leaseLate THEN "expired" ELSE lease
  /\ UNCHANGED <<received, clock, disk, handlers, swept, cancelled>>

SweepOpenUploads ==
  /\ SweepGoes("open", IF row = "open" THEN "size" ELSE "list")
  /\ swept' = IF row = "open" THEN received ELSE 0
  /\ UNCHANGED <<upload, clock, lease, disk, handlers, history>>

\* Fail closed when the cursor points beyond the file, else cut the tail.
SweepSize ==
  /\ SweepGoes("size", IF ~exists \/ Len(file) < swept THEN "expire"
                       ELSE IF Len(file) > swept THEN "truncate" ELSE "list")
  /\ UNCHANGED <<upload, clock, lease, disk, handlers, swept, history>>

SweepExpireOpen ==
  /\ SweepGoes("expire", "list")
  /\ row' = IF row = "open" THEN "expired" ELSE row
  /\ UNCHANGED <<received, clock, lease, disk, handlers, swept, history>>

SweepTruncate ==
  /\ IF CanTruncate(swept)
     THEN SweepGoes("truncate", "list") /\ Truncate(swept)
     ELSE SweepGoes("truncate", "idle") /\ UNCHANGED disk
  /\ UNCHANGED <<upload, clock, lease, handlers, swept, history>>

\* ExpiredFileIDs.
Retired == row \in {"aborted", "expired"} \/ lease = "expired"

SweepList ==
  /\ SweepGoes("list", IF Retired THEN "remove" ELSE "idle")
  /\ UNCHANGED <<upload, clock, lease, disk, handlers, swept, history>>

\* Mutant: a failed removal is acknowledged too.
SweepRemoveSkips ==
  /\ SweepGoes("remove", "ack")
  /\ UNCHANGED <<upload, clock, lease, disk, handlers, swept, history>>

SweepRemove ==
  /\ SweepGoes("remove", "ack")
  /\ Remove
  /\ UNCHANGED <<upload, clock, lease, handlers, swept, history>>

\* AcknowledgeRemoved: an incomplete row goes, a lease is marked deleted.
SweepAck ==
  /\ SweepGoes("ack", "idle")
  /\ IF row \in {"aborted", "expired"}
     THEN row' = "deleted" /\ UNCHANGED lease
     ELSE /\ lease' = IF lease = "expired" THEN "deleted" ELSE lease
          /\ UNCHANGED row
  /\ UNCHANGED <<received, clock, disk, handlers, swept, history>>

\* Any error ends this sweep; the next tick starts over.
SweepFails ==
  /\ sweep # "idle"
  /\ sweep' = "idle"
  /\ UNCHANGED <<upload, clock, lease, disk, handlers, swept, history>>

-----------------------------------------------------------------------------
(* RevokeSample retires an active lease when voice enrolment has used it. *)
RevokeLease ==
  /\ lease = "active"
  /\ lease' = "expired"
  /\ UNCHANGED <<upload, clock, disk, handlers, sweeper, history>>

UploadExpires ==
  /\ row # "none" /\ ~late
  /\ late' = TRUE
  /\ UNCHANGED <<upload, leaseLate, lease, disk, handlers, sweeper, history>>

LeaseExpires ==
  /\ lease # "none" /\ ~leaseLate
  /\ leaseLate' = TRUE
  /\ UNCHANGED <<upload, late, lease, disk, handlers, sweeper, history>>

\* The process dies: requests and the sweep are gone, SQLite and disk stay.
\* A crash inside a write leaves a prefix, as AppendWriteFails does.
Crash ==
  /\ Active > 0
  /\ pc' = [h \in Handlers |-> "idle"]
  /\ snap' = [h \in Handlers |-> Blank]
  /\ sweep' = "idle"
  /\ UNCHANGED <<upload, clock, lease, disk, swept, history>>

Request(h) ==
  \/ CreateFile(h) \/ CreateUpload(h) \/ CreateFails(h) \/ CreateUndo(h)
  \/ AppendStart(h) \/ AppendSize(h) \/ AppendRepair(h) \/ AppendWrite(h)
  \/ AppendWriteFails(h) \/ AdvanceReceived(h) \/ AdvanceFails(h) \/ AppendUndo(h)
  \/ CompleteStart(h) \/ CompleteHash(h) \/ CompleteMime(h) \/ CompleteUpload(h)
  \/ CancelStart(h) \/ AbortOpen(h) \/ CancelReread(h) \/ CancelRemove(h)
  \/ RequestFails(h)

Sweep ==
  \/ SweepExpire \/ SweepOpenUploads \/ SweepSize \/ SweepExpireOpen
  \/ SweepTruncate \/ SweepList \/ SweepRemove \/ SweepAck

Next ==
  \/ \E h \in Handlers : Request(h)
  \/ Sweep \/ SweepFails
  \/ RevokeLease \/ UploadExpires \/ LeaseExpires
  \/ Crash

Spec == Init /\ [][Next]_vars

-----------------------------------------------------------------------------
(***************************************************************************)
(* An upload whose DELETE has answered success never becomes addressable:  *)
(* whichever Append or Complete was racing it, no lease is ever issued.    *)
(***************************************************************************)
CancelIsFinal == cancelled => lease = "none" /\ row \in {"aborted", "deleted"}

(***************************************************************************)
(* An active lease always has its file: neither a Cancel nor a sweep that  *)
(* began earlier removes the bytes under it.                               *)
(***************************************************************************)
ActiveLeaseHasFile == lease = "active" => row = "completed" /\ exists

(***************************************************************************)
(* Once the row is deleted or the lease marked deleted the bytes are gone  *)
(* and stay gone: no late Append brings the file back, so nothing is left  *)
(* that no later sweep would list.                                         *)
(***************************************************************************)
NoBytesWithoutOwner == row = "deleted" \/ lease = "deleted" => ~exists

(***************************************************************************)
(* Row, lease and file agree: the three have their types, an active lease  *)
(* has its file, and a file whose upload has a row is one that some sweep  *)
(* will list.  (A crash between files.Create and CreateUpload leaves an    *)
(* empty file without a row, which no sweep lists.)                        *)
(***************************************************************************)
StagingConsistent == TypeOK /\ ActiveLeaseHasFile /\ NoBytesWithoutOwner

(***************************************************************************)
(* The cursor never moves back and never moves once the upload is closed:  *)
(* two requests at one offset advance it once.                             *)
(***************************************************************************)
CursorMonotone ==
  [][received' # received => received' > received /\ row = "open" /\ row' = "open"]_vars

(***************************************************************************)
(* "DB must never point beyond durable bytes": the cursor of an open       *)
(* upload lies within its file.                                            *)
(***************************************************************************)
CursorWithinFile == row = "open" => exists /\ received <= Len(file)

(***************************************************************************)
(* The bytes behind an active lease are the bytes whose digest the client  *)
(* declared: nothing changes the file after Complete has verified it.      *)
(***************************************************************************)
ActiveLeaseIntact == lease = "active" => exists /\ file = Expected

(***************************************************************************)
(* As long as requests and sweeps never overlapped, crashes, I/O errors    *)
(* and repaired tails included, the cursor stays within the file and a     *)
(* lease has the verified bytes.  (When they do, see CursorWithinFile.)    *)
(***************************************************************************)
SerialUseKeepsBytes == ~overlapped => CursorWithinFile /\ ActiveLeaseIntact

(***************************************************************************)
(* Fairness: requests end, the clock advances, and the minute ticker keeps *)
(* starting Recover, whose steps on the way to a removal do not fail for   *)
(* ever (SF: a sweep may be cut short any number of times, not always).    *)
(***************************************************************************)
FairSpec ==
  /\ Spec
  /\ \A h \in Handlers : WF_vars(pc[h] # "idle" /\ Request(h))
  /\ WF_vars(Sweep)
  /\ SF_vars(SweepExpire) /\ SF_vars(SweepOpenUploads)
  /\ SF_vars(SweepList) /\ SF_vars(SweepRemove)
  /\ WF_vars(UploadExpires) /\ WF_vars(LeaseExpires)

(***************************************************************************)
(* Private bytes do not outlive their purpose: every upload that got its   *)
(* row is eventually cancelled, expired or its lease retired, and its file *)
(* removed for good, across crashes, failed sweeps and clients that stop.  *)
(***************************************************************************)
StagingReclaimed == (row = "open") ~> [](~exists)
=============================================================================
