------------------------------- MODULE Delivery -------------------------------
(***************************************************************************)
(* The way of the lines of one file to the ingestion service, composed of  *)
(* the parts that bin/src/_main.rs connects: the tailed file with its list *)
(* of offsets, the batcher, the concurrent send tasks, the offset store    *)
(* with its database, the retry directory, and the two kinds of restart:   *)
(* of the tailer within the process (a reload) and of the process.         *)
(*                                                                         *)
(* Line l takes the bytes LineSpan(l).  The parts are simplified to what   *)
(* crosses their borders: OffsetState has the channel of the store,        *)
(* RetryDisk the files of the retry directory, SpanVec the lists.          *)
(***************************************************************************)
EXTENDS StoredOffsets

CONSTANTS
    LineCount,      \* bound: the lines that are ever written
    Slots,          \* bound: batches in flight or stored for a retry
    MaxFailures,    \* bound: failed requests and lost batches
    MaxReloads,     \* bound: restarts of the tailer
    MaxRestarts     \* bound: restarts of the process

Lines == 1 .. LineCount

ASSUME DeliveryAssumption ==
    /\ LineCount \in Nat /\ MaxFailures \in Nat
    /\ MaxReloads \in Nat /\ MaxRestarts \in Nat

LineBytes == 2  \* a line feed and something before it
LineSpan(l) == Span(LineBytes * (l - 1), LineBytes * l)

VARIABLES
    written,    \* how many lines the file has
    offsets,    \* TailedFileInner.offsets: the lines read
    known,      \* fs_offsets: what a new tailer is told about the file
    building,   \* the lines of the batch that the batcher is filling
    slot,       \* the batches
    mem,        \* the working spans of the offset store
    db,         \* the stored words for the file
    delivered,  \* history: how often the service accepted each line
    failures, reloads, restarts, drops

vars == <<written, offsets, known, building, slot, mem, db, delivered,
          failures, reloads, restarts, drops>>
store == <<mem, db>>
counters == <<failures, reloads, restarts, drops>>

(* A batch is ready to be sent, staged in the offset store and sent,       *)
(* accepted by the service without the task knowing, on its way to the     *)
(* retry directory, or stored there.  `live` says whether the key of its   *)
(* offsets still stands for them.                                          *)
Free == [at |-> "free", lines |-> {}, live |-> FALSE]
Batch(at, lines, live) == [at |-> at, lines |-> lines, live |-> live]

(* The offsets of a batch: its lines in the order they were read.          *)
Offsets(S) ==
    MapThenFoldSet(LAMBDA x, v : Eagerly(LAMBDA w : Insert(w, x), v), <<>>, LineSpan, Max, S)

Init ==
    /\ written = 0
    /\ offsets = <<>> /\ known = <<>>
    /\ building = {}
    /\ slot = [s \in Slots |-> Free]
    /\ mem = <<>> /\ db = <<>>
    /\ delivered = [l \in Lines |-> 0]
    /\ failures = 0 /\ reloads = 0 /\ restarts = 0 /\ drops = 0

Becomes(s, batch) == slot' = [slot EXCEPT ![s] = batch]
---------------------------------------------------------------------------
(* The file and its reader.                                                *)

WriteLine ==
    /\ written < LineCount
    /\ written' = written + 1
    /\ UNCHANGED <<offsets, known, building, slot, store, delivered, counters>>

NextLine == FirstGap(offsets).start \div LineBytes + 1

(* TailedFile::tail yields the line after the first gap; the filter of the *)
(* tailer remembers its span and the batcher takes the line.               *)
ReadLine ==
    /\ NextLine <= written
    /\ offsets' = Insert(offsets, LineSpan(NextLine))
    /\ known' = <<LineSpan(NextLine)>>
    /\ building' = building \cup {NextLine}
    /\ UNCHANGED <<written, slot, store, delivered, counters>>

(* Faulty variant: only a full batch is handed on, no timer runs.          *)
CutBatchFull(s) ==
    /\ Cardinality(building) > 1
    /\ slot[s] = Free
    /\ Becomes(s, Batch("ready", building, FALSE))
    /\ building' = {}
    /\ UNCHANGED <<written, offsets, known, store, delivered, counters>>

(* The batcher hands its batch on when it is full or its time is up.       *)
CutBatch(s) ==
    /\ building # {}
    /\ slot[s] = Free
    /\ Becomes(s, Batch("ready", building, FALSE))
    /\ building' = {}
    /\ UNCHANGED <<written, offsets, known, store, delivered, counters>>

(* A line cannot be written to the buffer, or the buffer cannot be ended:  *)
(* the batcher yields the error, which lines_driver logs, and drops what   *)
(* it has of the batch with its offsets.                                   *)
LoseBatch ==
    /\ failures < MaxFailures
    /\ building # {}
    /\ building' = {}
    /\ failures' = failures + 1
    /\ drops' = drops + 1
    /\ UNCHANGED <<written, offsets, known, slot, store, delivered, reloads, restarts>>
---------------------------------------------------------------------------
(* Client::send, one task for each batch.                                  *)

Stage(s) ==
    /\ slot[s].at = "ready"
    /\ Becomes(s, Batch("staged", slot[s].lines, TRUE))
    /\ UNCHANGED <<written, offsets, known, building, store, delivered, counters>>

ServiceAccepts(s) ==
    /\ slot[s].at = "staged"
    /\ Becomes(s, [slot[s] EXCEPT !.at = "accepted"])
    /\ delivered' = [l \in Lines |-> IF l \in slot[s].lines THEN delivered[l] + 1
                                    ELSE delivered[l]]
    /\ UNCHANGED <<written, offsets, known, building, store, counters>>

(* Response::Sent, and the offset store handles the flush.                 *)
Confirm(s) ==
    /\ slot[s].at = "accepted"
    /\ IF slot[s].live
       THEN /\ mem' = InsertAll(mem, Offsets(slot[s].lines))
            /\ db' = Encode(mem')
       ELSE UNCHANGED store
    /\ Becomes(s, Free)
    /\ UNCHANGED <<written, offsets, known, building, delivered, counters>>

(* A retryable status, a connection error, or a timeout, which may come    *)
(* after the service has accepted the request.                             *)
RequestFails(s) ==
    /\ failures < MaxFailures
    /\ slot[s].at \in {"staged", "accepted"}
    /\ Becomes(s, Batch("spilling", slot[s].lines, FALSE))
    /\ failures' = failures + 1
    /\ UNCHANGED <<written, offsets, known, building, store, delivered,
                   reloads, restarts, drops>>

(* The batch is in the retry directory once its file has its final name.   *)
Spill(s) ==
    /\ slot[s].at = "spilling"
    /\ Becomes(s, Batch("stored", slot[s].lines, FALSE))
    /\ UNCHANGED <<written, offsets, known, building, store, delivered, counters>>

(* The batch is given up: the retry directory is full or not writable, or  *)
(* the status is not one to retry.                                         *)
GiveUp(s) ==
    /\ failures < MaxFailures
    /\ slot[s].at \in {"staged", "spilling"}
    /\ Becomes(s, Free)
    /\ failures' = failures + 1
    /\ drops' = drops + 1
    /\ UNCHANGED <<written, offsets, known, building, store, delivered, reloads, restarts>>

(* The retry stream removes the file and yields the batch.                 *)
TakeStored(s) ==
    /\ slot[s].at = "stored"
    /\ Becomes(s, Batch("ready", slot[s].lines, FALSE))
    /\ UNCHANGED <<written, offsets, known, building, store, delivered, counters>>
---------------------------------------------------------------------------
(* Restarts.                                                               *)

(* What building a new file system cache does to the staged offsets: the   *)
(* garbage collection event clears them all.                               *)
StagedCleared == [s \in Slots |-> [slot[s] EXCEPT !.live = FALSE]]

(* Faulty variants: the new tailer starts from the database; it starts at  *)
(* the end of the file.                                                    *)
ReloadFromDb ==
    /\ reloads < MaxReloads
    /\ offsets' = InitialOffset(Loaded(db))
    /\ slot' = StagedCleared
    /\ reloads' = reloads + 1
    /\ UNCHANGED <<written, known, building, store, delivered, failures, restarts, drops>>

ReloadAtEnd ==
    /\ reloads < MaxReloads
    /\ offsets' = IF written = 0 THEN <<>> ELSE <<Span(0, LineBytes * written)>>
    /\ slot' = StagedCleared
    /\ reloads' = reloads + 1
    /\ UNCHANGED <<written, known, building, store, delivered, failures, restarts, drops>>

(* RestartingTailer replaces the tailer, on a rescan or after an interval. *)
Reload ==
    /\ reloads < MaxReloads
    /\ offsets' = InitialOffset(known)
    /\ slot' = StagedCleared
    /\ reloads' = reloads + 1
    /\ UNCHANGED <<written, known, building, store, delivered, failures, restarts, drops>>

(* The process stops, by a signal or a crash, and another one starts.      *)
Restart ==
    /\ restarts < MaxRestarts
    /\ known' = Loaded(db)
    /\ offsets' = InitialOffset(known')
    /\ building' = {}
    /\ slot' = [s \in Slots |-> IF slot[s].at = "stored" THEN slot[s] ELSE Free]
    /\ mem' = <<>>
    /\ restarts' = restarts + 1
    /\ UNCHANGED <<written, db, delivered, failures, reloads, drops>>
---------------------------------------------------------------------------
Progress(s) ==
    \/ CutBatch(s) \/ Stage(s) \/ ServiceAccepts(s) \/ Confirm(s)
    \/ Spill(s) \/ TakeStored(s)

Next ==
    \/ WriteLine \/ ReadLine \/ LoseBatch
    \/ \E s \in Slots : Progress(s) \/ RequestFails(s) \/ GiveUp(s)
    \/ Reload \/ Restart

Spec == Init /\ [][Next]_vars

(* The reader is polled, every task runs, the service answers in the end.  *)
FairSpec == Spec /\ WF_vars(ReadLine) /\ \A s \in Slots : WF_vars(Progress(s))
---------------------------------------------------------------------------
InHand(l) == l \in building \/ \E s \in Slots : l \in slot[s].lines
Skipped(l) == delivered[l] = 0 /\ l < NextLine /\ ~InHand(l)

Status(l) ==
    IF l > written THEN "absent"
    ELSE IF delivered[l] > 0 THEN "delivered"
    ELSE IF Skipped(l) THEN "forfeited"
    ELSE "owed"

Promise == INSTANCE DeliveryPromise
    WITH status <- [l \in Lines |-> Status(l)], interruptions <- restarts + drops

(* The agent keeps its promise: reading, batching, sending out of order,   *)
(* failures with a stored retry and reloads of the tailer never make it    *)
(* pass over a line; only a restart or a batch lost or given up does.      *)
PromiseKept == Promise!Spec

(* A line is delivered again only for a reason: a request that failed, or  *)
(* a restart.  A reload of the tailer is none.                             *)
DuplicatesHaveCauses == \A l \in Lines : delivered[l] <= 1 + failures + restarts

(* Every line of the file is delivered, or was passed over by an           *)
(* interruption: nothing waits for ever in a batch or in the directory.    *)
EveryLineSettled ==
    \A l \in Lines : (l <= written) ~> (delivered[l] > 0 \/ Skipped(l))
=============================================================================
