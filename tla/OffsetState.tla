----------------------------- MODULE OffsetState -----------------------------
(***************************************************************************)
(* The offset store of common/state: send tasks stage the offsets of a     *)
(* batch before they send it and ask for the staged offsets to be flushed  *)
(* once the ingestion service has accepted the batch; one event loop (the  *)
(* fold in FileOffsetState::run) owns all the state and writes the         *)
(* database.  Everything between the tasks and the loop goes through one   *)
(* unbounded channel; a restart of the process keeps the database only.    *)
(*                                                                         *)
(* The lists of spans are opaque here: Absorb is SpanVec's insertion of    *)
(* every span of a list and BytesOf the bytes that a list covers.          *)
(* Absorb may add bytes of its own: SpanVec bridges gaps of one byte, and  *)
(* an empty line is one byte.                                              *)
(***************************************************************************)
EXTENDS Integers, Sequences, FiniteSets

CONSTANTS
    Files, Tasks, Batches,
    NoBatch,        \* a key that is not, or no longer, in the slot map
    SpanVecs,       \* the lists of spans
    NoSpans,        \* the empty list; also "no entry for this file"
    Absorb(_, _),   \* Absorb(v, w): v after inserting the spans of w
    BytesOf(_),     \* the bytes a list covers
    Content,        \* the OffsetMap of each batch: a list for each file
    MaxQueued,      \* bound: events in the channel
    MaxKeys,        \* bound: keys handed out in one run of the process
    MaxRestarts,    \* bound: restarts of the process
    MaxFailures     \* bound: failed database writes

(* S holds nothing that is not in T but bytes between two of T.            *)
OnlyBridges(S, T) == \A b \in S \ T : {b - 1, b + 1} \subseteq T

ASSUME OffsetStateAssumption ==
    /\ NoBatch \notin Batches
    /\ NoSpans \in SpanVecs
    /\ BytesOf(NoSpans) = {}
    /\ \A v \in SpanVecs : BytesOf(v) \subseteq Nat
    /\ \A v, w \in SpanVecs :
          /\ Absorb(v, w) \in SpanVecs
          /\ BytesOf(v) \cup BytesOf(w) \subseteq BytesOf(Absorb(v, w))
          /\ OnlyBridges(BytesOf(Absorb(v, w)), BytesOf(v) \cup BytesOf(w))
    /\ Content \in [Batches -> [Files -> SpanVecs]]
    /\ MaxQueued \in Nat /\ MaxKeys \in Nat
    /\ MaxRestarts \in Nat /\ MaxFailures \in Nat

VARIABLES
    chan,       \* the channel of FileOffsetEvents
    doomed,     \* the open WriteBatch: only deletions outlive an event
    state,      \* the working spans of each file
    pending,    \* the SlotMap of staged batches
    nextKey,    \* the key that SlotMap::insert returns next
    db,         \* the database: the spans stored for each file
    task,       \* what each send task is doing
    accepted,   \* history: the batches the service has accepted
    forgotten,  \* history: files whose stored spans `state` does not hold
    restarts, failures

loopVars == <<doomed, state, pending, nextKey>>
history == <<accepted, forgotten, restarts, failures>>
storeVars == <<chan, doomed, state, pending, nextKey, db, task, accepted, forgotten,
               restarts, failures>>

NoKey == 0  \* Option::None
Keys == 1 .. MaxKeys
NoStaged == [k \in Keys |-> NoBatch]

Update(t, b) == [op |-> "update", task |-> t, batch |-> b]
Flush(k) == [op |-> "flush", key |-> k]
Delete(f) == [op |-> "delete", file |-> f]
Clear == [op |-> "clear"]
GarbageCollect(R) == [op |-> "gc", retained |-> R]

Event == [op : {"update"}, task : Tasks, batch : Batches]
             \cup [op : {"flush"}, key : Keys \cup {NoKey}]
             \cup [op : {"delete"}, file : Files]
             \cup [op : {"clear"}]
             \cup [op : {"gc"}, retained : SUBSET Files]

(* A task is idle, waits for its key, waits for the answer to its request, *)
(* or has a request that the service accepted without knowing it yet.      *)
Idle == [at |-> "idle"]
Staging(b) == [at |-> "staging", batch |-> b]
Sending(b, k) == [at |-> "sending", batch |-> b, key |-> k]
Accepted(b, k) == [at |-> "accepted", batch |-> b, key |-> k]

TaskState == [at : {"idle"}]
                 \cup [at : {"staging"}, batch : Batches]
                 \cup [at : {"sending", "accepted"}, batch : Batches, key : Keys]

StoreInit ==
    /\ chan = <<>>
    /\ doomed = {}
    /\ state = [f \in Files |-> NoSpans]
    /\ pending = NoStaged
    /\ nextKey = 1
    /\ db = [f \in Files |-> NoSpans]
    /\ task = [t \in Tasks |-> Idle]
    /\ accepted = {}
    /\ forgotten = {}
    /\ restarts = 0
    /\ failures = 0
---------------------------------------------------------------------------
(* The senders of events.                                                  *)

Enqueue(e) == Len(chan) < MaxQueued /\ chan' = Append(chan, e)

(* Client::send: write_handle.update(offsets), then wait for the key.      *)
StageBatch(t, b) ==
    /\ task[t] = Idle
    /\ nextKey + Cardinality({u \in Tasks : task[u].at = "staging"}) <= MaxKeys
    /\ Enqueue(Update(t, b))
    /\ task' = [task EXCEPT ![t] = Staging(b)]
    /\ UNCHANGED <<loopVars, db, history>>

(* The service accepts the request; its answer is still on the way.        *)
ServiceAccepts(t) ==
    /\ task[t].at = "sending"
    /\ task' = [task EXCEPT ![t] = Accepted(task[t].batch, task[t].key)]
    /\ accepted' = accepted \cup {task[t].batch}
    /\ UNCHANGED <<chan, loopVars, db, forgotten, restarts, failures>>

(* Response::Sent: flush_handle.flush(update_key).                         *)
ConfirmSent(t) ==
    /\ task[t].at = "accepted"
    /\ Enqueue(Flush(task[t].key))
    /\ task' = [task EXCEPT ![t] = Idle]
    /\ UNCHANGED <<loopVars, db, history>>

(* Every other outcome of the request, a timeout that overtakes the answer *)
(* included: nothing is flushed and the staged offsets stay behind.        *)
GiveUp(t) ==
    /\ task[t].at \in {"sending", "accepted"}
    /\ task' = [task EXCEPT ![t] = Idle]
    /\ UNCHANGED <<chan, loopVars, db, history>>

(* The other calls of the handles.  do_gc_blocking is called each time the *)
(* file system cache is built, so on every restart of the tailer.          *)
CallFlushNone == Enqueue(Flush(NoKey)) /\ UNCHANGED <<loopVars, db, task, history>>
CallDelete(f) == Enqueue(Delete(f)) /\ UNCHANGED <<loopVars, db, task, history>>
CallClear == Enqueue(Clear) /\ UNCHANGED <<loopVars, db, task, history>>
CallGc(R) == Enqueue(GarbageCollect(R)) /\ UNCHANGED <<loopVars, db, task, history>>
---------------------------------------------------------------------------
(* The event loop.                                                         *)

Receive(op) == chan # <<>> /\ Head(chan).op = op /\ chan' = Tail(chan)

(* Update: stage the offsets and answer with their key.                    *)
HandleUpdate ==
    /\ Receive("update")
    /\ nextKey \in Keys
    /\ LET e == Head(chan)
       IN  /\ pending' = [pending EXCEPT ![nextKey] = e.batch]
           /\ task' = [task EXCEPT ![e.task] = Sending(e.batch, nextKey)]
    /\ nextKey' = nextKey + 1
    /\ UNCHANGED <<doomed, state, db, history>>

(* What is staged under a key: nothing for NoKey and for a stale key.      *)
IsStaged(key) == key \in Keys /\ pending[key] # NoBatch
Staged(key) == IF IsStaged(key) THEN Content[pending[key]] ELSE [f \in Files |-> NoSpans]
Unstage(key) == [k \in Keys |-> IF k = key THEN NoBatch ELSE pending[k]]

(* The working spans once the batch under the key has been merged in.      *)
MergedState(key) ==
    [f \in Files |-> IF Staged(key)[f] = NoSpans THEN state[f]
                     ELSE Absorb(state[f], Staged(key)[f])]

(* The database after the write: a put hides an earlier deletion.          *)
WrittenDb(key) ==
    [f \in Files |-> IF Staged(key)[f] # NoSpans THEN MergedState(key)[f]
                     ELSE IF f \in doomed THEN NoSpans
                     ELSE db[f]]

StillForgotten(key) == {f \in forgotten : Staged(key)[f] = NoSpans}

(* Faulty variants: the batch is stored but not merged into the state; the *)
(* key is taken out of the slot map before its batch is looked up.         *)
HandleFlushNotKept ==
    /\ Receive("flush")
    /\ db' = WrittenDb(Head(chan).key)
    /\ pending' = Unstage(Head(chan).key)
    /\ forgotten' = StillForgotten(Head(chan).key)
    /\ doomed' = {}
    /\ UNCHANGED <<state, nextKey, task, accepted, restarts, failures>>

HandleFlushRemovedFirst ==
    /\ Receive("flush")
    /\ pending' = Unstage(Head(chan).key)
    /\ db' = WrittenDb(NoKey)
    /\ doomed' = {}
    /\ UNCHANGED <<state, nextKey, task, history>>

(* Flush: merge the staged batch, if its key is still known, into the      *)
(* state and the open WriteBatch, and write that.                          *)
HandleFlush ==
    /\ Receive("flush")
    /\ state' = MergedState(Head(chan).key)
    /\ db' = WrittenDb(Head(chan).key)
    /\ pending' = Unstage(Head(chan).key)
    /\ forgotten' = StillForgotten(Head(chan).key)
    /\ doomed' = {}
    /\ UNCHANGED <<nextKey, task, accepted, restarts, failures>>

(* The same when db.write fails: the WriteBatch is gone, the state stays.  *)
HandleFlushFailing ==
    /\ failures < MaxFailures
    /\ Receive("flush")
    /\ state' = MergedState(Head(chan).key)
    /\ pending' = Unstage(Head(chan).key)
    /\ doomed' = {}
    /\ failures' = failures + 1
    /\ UNCHANGED <<nextKey, db, task, accepted, forgotten, restarts>>

(* Delete: the deletion waits in the WriteBatch for the next flush.        *)
HandleDelete ==
    /\ Receive("delete")
    /\ LET f == Head(chan).file
       IN  /\ state' = [state EXCEPT ![f] = NoSpans]
           /\ doomed' = doomed \cup {f}
           /\ forgotten' = forgotten \cup {f}
    /\ UNCHANGED <<pending, nextKey, db, task, accepted, restarts, failures>>

(* Clear: forget the staged batches and the open WriteBatch.               *)
HandleClear ==
    /\ Receive("clear")
    /\ pending' = NoStaged
    /\ doomed' = {}
    /\ UNCHANGED <<state, nextKey, db, task, history>>

(* Faulty variant: the slot map starts its keys afresh.                    *)
HandleGcFreshKeys ==
    /\ Receive("gc")
    /\ pending' = NoStaged
    /\ nextKey' = 1
    /\ doomed' = {}
    /\ UNCHANGED <<state, db, task, history>>

(* GarbageCollect: the same, and forget the files that are not retained.   *)
HandleGc ==
    /\ Receive("gc")
    /\ LET R == Head(chan).retained
       IN  /\ state' = [f \in Files |-> IF f \in R THEN state[f] ELSE NoSpans]
           /\ forgotten' = forgotten \cup (Files \ R)
    /\ pending' = NoStaged
    /\ doomed' = {}
    /\ UNCHANGED <<nextKey, db, task, accepted, restarts, failures>>

(* The process stops, in any way, and starts again: FileOffsetState::new   *)
(* and run() begin with empty state whatever the database holds.           *)
Restart ==
    /\ restarts < MaxRestarts
    /\ chan' = <<>>
    /\ doomed' = {}
    /\ state' = [f \in Files |-> NoSpans]
    /\ pending' = NoStaged
    /\ nextKey' = 1
    /\ task' = [t \in Tasks |-> Idle]
    /\ forgotten' = Files
    /\ restarts' = restarts + 1
    /\ UNCHANGED <<db, accepted, failures>>
---------------------------------------------------------------------------
Send(t) ==
    \/ \E b \in Batches : StageBatch(t, b)
    \/ ServiceAccepts(t) \/ ConfirmSent(t) \/ GiveUp(t)

Call ==
    \/ CallFlushNone \/ CallClear
    \/ \E f \in Files : CallDelete(f)
    \/ \E R \in SUBSET Files : CallGc(R)

Handle ==
    \/ HandleUpdate \/ HandleFlush \/ HandleFlushFailing
    \/ HandleDelete \/ HandleClear \/ HandleGc

StoreNext == (\E t \in Tasks : Send(t)) \/ Call \/ Handle \/ Restart

(* The loop is a task of the runtime, which polls it while there are       *)
(* events; nothing obliges anyone to send one.                             *)
StoreSpec == StoreInit /\ [][StoreNext]_storeVars
FairStoreSpec == StoreSpec /\ WF_storeVars(Handle)
---------------------------------------------------------------------------
TypeOK ==
    /\ chan \in Seq(Event)
    /\ doomed \subseteq Files
    /\ state \in [Files -> SpanVecs]
    /\ pending \in [Keys -> Batches \cup {NoBatch}]
    /\ nextKey \in 1 .. MaxKeys + 1
    /\ db \in [Files -> SpanVecs]
    /\ task \in [Tasks -> TaskState]
    /\ accepted \subseteq Batches
    /\ forgotten \subseteq Files
    /\ restarts \in 0 .. MaxRestarts
    /\ failures \in 0 .. MaxFailures

AcceptedBytes(f) == UNION {BytesOf(Content[b][f]) : b \in accepted}

(* The database claims no byte whose batch the service has not accepted,   *)
(* but for a single one between two accepted ones, which the merge adds    *)
(* (span.rs:107): no interleaving of stagings, flushes under keys that a   *)
(* clear or a garbage collection made stale, failed writes and restarts    *)
(* persists the offsets of a batch that is in flight or was given up.      *)
PersistedOnlyAccepted ==
    \A f \in Files : OnlyBridges(BytesOf(db[f]), AcceptedBytes(f))

(* A flush replaces the stored value of a file by the working spans, so    *)
(* these must hold everything stored already; otherwise the next flush     *)
(* would take progress back.  The files in `forgotten` are the exceptions  *)
(* the code makes: all of them at a restart (the loop does not load the    *)
(* database), those a garbage collection does not retain, deleted ones.    *)
MemoryCoversDisk ==
    \A f \in Files \ forgotten : BytesOf(db[f]) \subseteq BytesOf(state[f])

(* The flush of b is in the channel under a live key, with no event ahead  *)
(* of it that empties the slot map.                                        *)
FlushUnderway(b) ==
    \E i \in DOMAIN chan, k \in Keys :
        /\ chan[i] = Flush(k) /\ pending[k] = b
        /\ \A j \in 1 .. i - 1 : chan[j].op \notin {"clear", "gc"}

Persisted(b) == \A f \in Files : BytesOf(Content[b][f]) \subseteq BytesOf(db[f])

(* A batch confirmed under a live key reaches the database, unless the     *)
(* process restarts or a write fails first: no event gets lost or stuck.   *)
ConfirmedIsPersisted ==
    \A b \in Batches, r \in 0 .. MaxRestarts :
        (FlushUnderway(b) /\ restarts = r)
            ~> (Persisted(b) \/ restarts > r \/ failures > 0)
=============================================================================
