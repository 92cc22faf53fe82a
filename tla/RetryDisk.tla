------------------------------ MODULE RetryDisk ------------------------------
(***************************************************************************)
(* The retry directory of common/http/src/retry.rs.  RetrySender::retry    *)
(* runs in one task for each batch that could not be sent: it writes a     *)
(* `.retry.partial` file, reserves the file's size in the shared counter   *)
(* disk_used (when there is a limit), and renames the file to `.retry`.    *)
(* The stream of Retry takes the `.retry` files that are old enough, one   *)
(* by one: it reads the file, removes it, gives its size back and yields   *)
(* the batch to be sent again.  After a restart the counter is computed    *)
(* from the directory.                                                     *)
(*                                                                         *)
(* A batch stands for its file as well: the names hold a fresh UUID.       *)
(***************************************************************************)
EXTENDS Integers, FiniteSetsExt

CONSTANTS
    Batches,
    Size,        \* the size of each batch's file
    Limit,       \* retry_disk_limit, in the same unit
    MaxAttempts, \* the code's 10
    MaxErrors,   \* bound: I/O errors
    MaxRestarts  \* bound: restarts of the process

ASSUME RetryDiskAssumption ==
    /\ Size \in [Batches -> Nat \ {0}]
    /\ Limit \in Nat /\ MaxAttempts \in Nat
    /\ MaxErrors \in Nat /\ MaxRestarts \in Nat

VARIABLES
    dir,      \* dir[b]: the file of b in the directory
    written,  \* the batches whose file holds all of their bytes
    used,     \* disk_used
    pc,       \* where the call of retry() for b is
    seen,     \* what the call of b loaded from disk_used
    attempts, \* its failed exchanges, plus one
    waiting,  \* the queue of paths to retry; its order is the directory's
    reader,   \* what the stream is doing
    handed,   \* history: how often b was given to be sent again
    lost,     \* history: files removed and not given on
    leaked,   \* history: files reserved whose rename failed
    errors, restarts

sender == <<pc, seen, attempts>>
stream == <<waiting, reader, handed, lost>>
bounds == <<errors, restarts>>
vars == <<dir, written, used, pc, seen, attempts, waiting, reader, handed, lost,
          leaked, errors, restarts>>

Stored == {b \in Batches : dir[b] \in {"fresh", "ripe"}}

TotalSize(S) == MapThenSumSet(LAMBDA b : Size[b], S)

Looking == [at |-> "looking"]
Busy(at, b) == [at |-> at, batch |-> b]

Init ==
    /\ dir = [b \in Batches |-> "absent"]
    /\ written = {}
    /\ used = 0
    /\ pc = [b \in Batches |-> "idle"]
    /\ seen = [b \in Batches |-> 0]
    /\ attempts = [b \in Batches |-> 1]
    /\ waiting = {}
    /\ reader = Looking
    /\ handed = [b \in Batches |-> 0]
    /\ lost = {}
    /\ leaked = {}
    /\ errors = 0
    /\ restarts = 0

IoError == errors < MaxErrors /\ errors' = errors + 1 /\ UNCHANGED restarts
GoesTo(b, place) == pc' = [pc EXCEPT ![b] = place]
---------------------------------------------------------------------------
(* RetrySender::retry, from one await or atomic operation to the next.     *)

CreatePartial(b) ==
    /\ pc[b] = "idle"
    /\ dir' = [dir EXCEPT ![b] = "partial"]
    /\ GoesTo(b, "writing")
    /\ UNCHANGED <<written, used, seen, attempts, stream, leaked, bounds>>

FinishWriting(b) ==
    /\ pc[b] = "writing"
    /\ written' = written \cup {b}
    /\ GoesTo(b, "loading")
    /\ UNCHANGED <<dir, used, seen, attempts, stream, leaked, bounds>>

(* Any failed write returns; what there is of the file stays.              *)
WritingFails(b) ==
    /\ pc[b] = "writing"
    /\ IoError
    /\ GoesTo(b, "over")
    /\ UNCHANGED <<dir, written, used, seen, attempts, stream, leaked>>

Fits(b, current) == current + Size[b] <= Limit

LoadUsed(b) ==
    /\ pc[b] = "loading"
    /\ Fits(b, used)
    /\ seen' = [seen EXCEPT ![b] = used]
    /\ GoesTo(b, "exchanging")
    /\ UNCHANGED <<dir, written, used, attempts, stream, leaked, bounds>>

(* The limit is reached: the partial file is removed and the batch with it.*)
LimitReached(b) ==
    /\ pc[b] = "loading"
    /\ ~Fits(b, used)
    /\ dir' = [dir EXCEPT ![b] = "absent"]
    /\ GoesTo(b, "over")
    /\ UNCHANGED <<written, used, seen, attempts, stream, leaked, bounds>>

(* Faulty variant: the sum is stored without comparing first.              *)
ReserveBlindly(b) ==
    /\ pc[b] = "exchanging"
    /\ used' = seen[b] + Size[b]
    /\ GoesTo(b, "renaming")
    /\ UNCHANGED <<dir, written, seen, attempts, stream, leaked, bounds>>

Reserve(b) ==
    /\ pc[b] = "exchanging"
    /\ used = seen[b]
    /\ used' = seen[b] + Size[b]
    /\ GoesTo(b, "renaming")
    /\ UNCHANGED <<dir, written, seen, attempts, stream, leaked, bounds>>

ReserveAgain(b) ==
    /\ pc[b] = "exchanging"
    /\ used # seen[b]
    /\ attempts[b] <= MaxAttempts
    /\ attempts' = [attempts EXCEPT ![b] = @ + 1]
    /\ GoesTo(b, "loading")
    /\ UNCHANGED <<dir, written, used, seen, stream, leaked, bounds>>

(* RetryLimitError: too many exchanges failed.                             *)
AttemptsExhausted(b) ==
    /\ pc[b] = "exchanging"
    /\ used # seen[b]
    /\ attempts[b] > MaxAttempts
    /\ dir' = [dir EXCEPT ![b] = "absent"]
    /\ GoesTo(b, "over")
    /\ UNCHANGED <<written, used, seen, attempts, stream, leaked, bounds>>

(* Either removal of the partial file fails.                               *)
RemovingPartialFails(b) ==
    /\ \/ pc[b] = "loading" /\ ~Fits(b, used)
       \/ pc[b] = "exchanging" /\ used # seen[b] /\ attempts[b] > MaxAttempts
    /\ IoError
    /\ GoesTo(b, "over")
    /\ UNCHANGED <<dir, written, used, seen, attempts, stream, leaked>>

Rename(b) ==
    /\ pc[b] = "renaming"
    /\ dir' = [dir EXCEPT ![b] = "fresh"]
    /\ GoesTo(b, "over")
    /\ UNCHANGED <<written, used, seen, attempts, stream, leaked, bounds>>

(* The rename fails: nothing takes the reservation back.                   *)
RenameFails(b) ==
    /\ pc[b] = "renaming"
    /\ IoError
    /\ leaked' = leaked \cup {b}
    /\ GoesTo(b, "over")
    /\ UNCHANGED <<dir, written, used, seen, attempts, stream>>
---------------------------------------------------------------------------
(* The stream of Retry.                                                    *)

Ripen(b) ==
    /\ dir[b] = "fresh"
    /\ dir' = [dir EXCEPT ![b] = "ripe"]
    /\ UNCHANGED <<written, used, sender, stream, leaked, bounds>>

(* Faulty variants: partial files are taken too; young files are taken and *)
(* old ones left.                                                          *)
FillWaitingAny ==
    /\ reader = Looking /\ waiting = {}
    /\ waiting' = {b \in Batches : dir[b] \in {"partial", "ripe"}}
    /\ waiting' # {}
    /\ UNCHANGED <<dir, written, used, sender, reader, handed, lost, leaked, bounds>>

FillWaitingYoung ==
    /\ reader = Looking /\ waiting = {}
    /\ waiting' = {b \in Batches : dir[b] = "fresh"}
    /\ waiting' # {}
    /\ UNCHANGED <<dir, written, used, sender, reader, handed, lost, leaked, bounds>>

(* fill_waiting, when the queue is empty; the stream sleeps if it stays so.*)
FillWaiting ==
    /\ reader = Looking /\ waiting = {}
    /\ waiting' = {b \in Batches : dir[b] = "ripe"}
    /\ waiting' # {}
    /\ UNCHANGED <<dir, written, used, sender, reader, handed, lost, leaked, bounds>>

Pop(b) ==
    /\ reader = Looking /\ b \in waiting
    /\ waiting' = waiting \ {b}
    /\ reader' = Busy("reading", b)
    /\ UNCHANGED <<dir, written, used, sender, handed, lost, leaked, bounds>>

(* read_from_disk: the contents and the size are in memory.                *)
ReadFile(b) ==
    /\ reader = Busy("reading", b)
    /\ reader' = Busy("removing", b)
    /\ UNCHANGED <<dir, written, used, sender, waiting, handed, lost, leaked, bounds>>

RemoveFile(b) ==
    /\ reader = Busy("removing", b)
    /\ dir' = [dir EXCEPT ![b] = "absent"]
    /\ reader' = Busy("subtracting", b)
    /\ UNCHANGED <<written, used, sender, waiting, handed, lost, leaked, bounds>>

(* Faulty variant: an error of the removal is ignored, whatever it is.     *)
ReadOrRemoveFailsUnnoticed(b) ==
    /\ reader \in {Busy("reading", b), Busy("removing", b)}
    /\ IoError
    /\ reader' = Busy("subtracting", b)
    /\ UNCHANGED <<dir, written, used, sender, waiting, handed, lost, leaked>>

(* The file cannot be read, or not be removed: it waits for another pass.  *)
ReadOrRemoveFails(b) ==
    /\ reader \in {Busy("reading", b), Busy("removing", b)}
    /\ IoError
    /\ reader' = Looking
    /\ UNCHANGED <<dir, written, used, sender, waiting, handed, lost, leaked>>

(* fetch_sub, then parse what was read and yield it.                       *)
GiveBackAndYield(b) ==
    /\ reader = Busy("subtracting", b)
    /\ used' = used - Size[b]
    /\ reader' = Looking
    /\ handed' = [handed EXCEPT ![b] = @ + 1]
    /\ UNCHANGED <<dir, written, sender, waiting, lost, leaked, bounds>>

(* The same with contents that do not parse.                               *)
GiveBackUnparsed(b) ==
    /\ reader = Busy("subtracting", b)
    /\ IoError
    /\ used' = used - Size[b]
    /\ reader' = Looking
    /\ lost' = lost \cup {b}
    /\ UNCHANGED <<dir, written, sender, waiting, handed, leaked>>
---------------------------------------------------------------------------
(* What every restart does, but for the counter.                           *)
ForgetCalls ==
    /\ restarts < MaxRestarts
    /\ pc' = [b \in Batches |-> IF pc[b] = "idle" THEN "idle" ELSE "over"]
    /\ waiting' = {}
    /\ reader' = Looking
    /\ lost' = lost \cup {b \in Batches : reader = Busy("subtracting", b)}
    /\ leaked' = {}
    /\ restarts' = restarts + 1
    /\ UNCHANGED <<dir, written, seen, attempts, handed, errors>>

(* Faulty variant: the counter starts from all the files.                  *)
RestartFromAll == ForgetCalls /\ used' = TotalSize({b \in Batches : dir[b] # "absent"})

(* The process stops, in any way, and RetrySender::new counts what the     *)
(* directory holds in `.retry` files.                                      *)
Restart == ForgetCalls /\ used' = TotalSize(Stored)
---------------------------------------------------------------------------
RetryCall(b) ==
    \/ CreatePartial(b) \/ FinishWriting(b) \/ WritingFails(b)
    \/ LoadUsed(b) \/ LimitReached(b)
    \/ Reserve(b) \/ ReserveAgain(b) \/ AttemptsExhausted(b) \/ RemovingPartialFails(b)
    \/ Rename(b) \/ RenameFails(b)

StreamStep ==
    \/ FillWaiting
    \/ \E b \in Batches :
          Pop(b) \/ ReadFile(b) \/ RemoveFile(b) \/ ReadOrRemoveFails(b)
          \/ GiveBackAndYield(b) \/ GiveBackUnparsed(b)

Next ==
    \/ \E b \in Batches : RetryCall(b) \/ Ripen(b)
    \/ StreamStep
    \/ Restart

(* Time passes, and the runtime polls the stream: retry_driver is an       *)
(* endless for_each over it.  Nothing is assumed about the calls.          *)
Spec == Init /\ [][Next]_vars
FairSpec == Spec /\ WF_vars(StreamStep) /\ \A b \in Batches : WF_vars(Ripen(b))
---------------------------------------------------------------------------
Reserved == {b \in Batches : pc[b] = "renaming"}
Removed == {b \in Batches : reader = Busy("subtracting", b)}

(* The counter is the size of the stored files, of those reserved and not  *)
(* yet renamed, of the one removed and not yet given back, and of those    *)
(* whose rename failed: calls, stream and restarts never make it drift.    *)
UsageAccounted ==
    used = TotalSize(Stored) + TotalSize(Reserved) + TotalSize(Removed) + TotalSize(leaked)

(* The `.retry` files never exceed the limit, whatever calls race for the  *)
(* last of the space and whatever a restart finds.                         *)
StoredWithinLimit == TotalSize(Stored) <= Limit

(* The stream never reads a file that is still being written, or that a    *)
(* crash or an error cut short.                                            *)
OnlyWholeFilesRead ==
    \A b \in Batches : reader \in [at : {"reading", "removing"}, batch : {b}] => b \in written

(* A stored batch is given to be sent again at most once, across restarts  *)
(* and errors of the removal too: the file goes before the batch is given. *)
HandedOnce ==
    \A b \in Batches : handed[b] <= 1 /\ (handed[b] = 1 => b \notin Stored \cup lost)

(* A stored batch is eventually sent again, or was lost between the        *)
(* removal of its file and its parsing: none waits in the directory for    *)
(* ever.                                                                   *)
StoredIsHandedOver ==
    \A b \in Batches : (b \in Stored) ~> (handed[b] > 0 \/ b \in lost)
=============================================================================
