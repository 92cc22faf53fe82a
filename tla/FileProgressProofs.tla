------------------------- MODULE FileProgressProofs -------------------------
(***************************************************************************)
(* What the agent knows of its progress in a file, in the store and in the *)
(* file itself: OffsetState, for every number of files, tasks, batches and *)
(* keys and for every content of the batches, and TailedFile, for every    *)
(* number of lines, retries, delays, failing reads and changes of the      *)
(* metadata.  The two share no variable.                                   *)
(***************************************************************************)
EXTENDS OffsetState, TailedFile, SpanVecProofs, TLAPS

---------------------------------------------------------------------------
(* The offset store.                                                       *)

(* A key identifies one batch for as long as anyone can name it: it is     *)
(* older than nextKey, and what is staged under it is the batch of the     *)
(* task that holds it, or nothing once a clear or a collection removed it. *)
KeysOfTasks ==
    \A t \in Tasks : task[t].at \in {"sending", "accepted"} =>
        /\ task[t].key < nextKey
        /\ pending[task[t].key] \in {NoBatch, task[t].batch}

FreshKeysUnused == \A k \in Keys : k >= nextKey => pending[k] = NoBatch

AcceptedTasks == \A t \in Tasks : task[t].at = "accepted" => task[t].batch \in accepted

(* Every flush in the channel can only write an accepted batch.            *)
FlushesAreAccepted ==
    \A i \in 1 .. Len(chan) : (chan[i].op = "flush" /\ chan[i].key # NoKey) =>
        /\ chan[i].key < nextKey
        /\ pending[chan[i].key] \in accepted \cup {NoBatch}

(* Bytes that are accepted, or a single one between two that are.          *)
Sound(v, f) == OnlyBridges(BytesOf(v), AcceptedBytes(f))

StateOnlyAccepted == \A f \in Files : Sound(state[f], f)

IInv ==
    /\ TypeOK
    /\ FreshKeysUnused
    /\ KeysOfTasks
    /\ AcceptedTasks
    /\ FlushesAreAccepted
    /\ StateOnlyAccepted
    /\ PersistedOnlyAccepted
---------------------------------------------------------------------------
(* The channel as a sequence.                                              *)

LEMMA EnqueueTyped ==
    ASSUME NEW e \in Event, chan \in Seq(Event), Enqueue(e)
    PROVE  /\ chan' \in Seq(Event)
           /\ Len(chan') = Len(chan) + 1
           /\ \A i \in 1 .. Len(chan) : chan'[i] = chan[i]
           /\ chan'[Len(chan) + 1] = e
<1> DEFINE E == Event
<1>1. chan \in Seq(E) /\ e \in E /\ chan' = Append(chan, e)
  BY DEF Enqueue
<1> HIDE DEF E
<1>2. /\ chan' \in Seq(E)
      /\ Len(chan') = Len(chan) + 1
      /\ \A i \in 1 .. Len(chan) : chan'[i] = chan[i]
      /\ chan'[Len(chan) + 1] = e
  BY <1>1
<1> QED BY <1>2 DEF E

LEMMA ReceiveTyped ==
    ASSUME NEW op, chan \in Seq(Event), Receive(op)
    PROVE  /\ chan' \in Seq(Event)
           /\ Len(chan') = Len(chan) - 1
           /\ \A i \in 1 .. Len(chan') : chan'[i] = chan[i + 1] /\ i + 1 \in 1 .. Len(chan)
           /\ Head(chan) = chan[1] /\ 1 \in 1 .. Len(chan)
           /\ Head(chan) \in Event /\ Head(chan).op = op
<1> DEFINE E == Event
<1>1. chan \in Seq(E) /\ chan # <<>> /\ chan' = Tail(chan) /\ Head(chan).op = op
  BY DEF Receive
<1> HIDE DEF E
<1>2. /\ chan' \in Seq(E)
      /\ Len(chan') = Len(chan) - 1
      /\ \A i \in 1 .. Len(chan') : chan'[i] = chan[i + 1] /\ i + 1 \in 1 .. Len(chan)
      /\ Head(chan) = chan[1] /\ 1 \in 1 .. Len(chan)
      /\ Head(chan) \in E
  BY <1>1
<1> QED BY <1>1, <1>2 DEF E

(* What the constructors of events and task states build.                  *)
LEMMA EventForms ==
    /\ \A t \in Tasks, b \in Batches :
          Update(t, b) \in Event /\ Update(t, b).op = "update"
    /\ \A k \in Keys \cup {NoKey} :
          Flush(k) \in Event /\ Flush(k).op = "flush" /\ Flush(k).key = k
    /\ \A f \in Files : Delete(f) \in Event /\ Delete(f).op = "delete"
    /\ Clear \in Event /\ Clear.op = "clear"
    /\ \A R \in SUBSET Files : GarbageCollect(R) \in Event /\ GarbageCollect(R).op = "gc"
BY DEF Event, Update, Flush, Delete, Clear, GarbageCollect

LEMMA EventFields ==
    ASSUME NEW e \in Event
    PROVE  /\ e.op = "update" => e.task \in Tasks /\ e.batch \in Batches
           /\ e.op = "flush" => e.key \in Keys \cup {NoKey}
           /\ e.op = "delete" => e.file \in Files
           /\ e.op = "gc" => e.retained \in SUBSET Files
BY DEF Event

LEMMA TaskForms ==
    /\ Idle \in TaskState /\ Idle.at = "idle"
    /\ \A b \in Batches : Staging(b) \in TaskState /\ Staging(b).at = "staging"
    /\ \A b \in Batches, k \in Keys :
          /\ Sending(b, k) \in TaskState /\ Sending(b, k).at = "sending"
          /\ Sending(b, k).batch = b /\ Sending(b, k).key = k
          /\ Accepted(b, k) \in TaskState /\ Accepted(b, k).at = "accepted"
          /\ Accepted(b, k).batch = b /\ Accepted(b, k).key = k
BY DEF TaskState, Idle, Staging, Sending, Accepted

LEMMA TaskFields ==
    ASSUME NEW x \in TaskState, x.at \in {"sending", "accepted"}
    PROVE  x.batch \in Batches /\ x.key \in Keys
BY DEF TaskState
---------------------------------------------------------------------------
(* The parts of IInv that several kinds of step keep for the same reason.  *)

LEMMA EnqueueKeepsFlushes ==
    ASSUME TypeOK, FlushesAreAccepted, NEW e \in Event, Enqueue(e),
           (e.op = "flush" /\ e.key # NoKey) =>
               (e.key < nextKey /\ pending[e.key] \in accepted \cup {NoBatch}),
           UNCHANGED <<nextKey, pending, accepted>>
    PROVE  FlushesAreAccepted'
<1>1. /\ Len(chan') = Len(chan) + 1 /\ Len(chan) \in Nat
      /\ \A i \in 1 .. Len(chan) : chan'[i] = chan[i]
      /\ chan'[Len(chan) + 1] = e
  BY EnqueueTyped DEF TypeOK
<1>2. SUFFICES ASSUME NEW i \in 1 .. Len(chan'),
                      chan'[i].op = "flush", chan'[i].key # NoKey
               PROVE  /\ chan'[i].key < nextKey
                      /\ pending[chan'[i].key] \in accepted \cup {NoBatch}
  BY DEF FlushesAreAccepted
<1>3. CASE i = Len(chan) + 1
  BY <1>1, <1>2, <1>3
<1>4. CASE i \in 1 .. Len(chan)
  BY <1>1, <1>2, <1>4 DEF FlushesAreAccepted
<1> QED BY <1>1, <1>3, <1>4

LEMMA ReceiveKeepsFlushes ==
    ASSUME TypeOK, FlushesAreAccepted, NEW op, Receive(op),
           nextKey' \in Int, nextKey' >= nextKey,
           \A k \in Keys : k < nextKey => pending'[k] \in {pending[k], NoBatch},
           accepted' = accepted
    PROVE  FlushesAreAccepted'
<1>1. /\ chan' \in Seq(Event)
      /\ \A i \in 1 .. Len(chan') : chan'[i] = chan[i + 1] /\ i + 1 \in 1 .. Len(chan)
  BY ReceiveTyped DEF TypeOK
<1>2. SUFFICES ASSUME NEW i \in 1 .. Len(chan'),
                      chan'[i].op = "flush", chan'[i].key # NoKey
               PROVE  /\ chan'[i].key < nextKey'
                      /\ pending'[chan'[i].key] \in accepted \cup {NoBatch}
  BY DEF FlushesAreAccepted
<1>3. chan'[i] \in Event
  <2> DEFINE E == Event
  <2>1. chan' \in Seq(E)
    BY <1>1
  <2> HIDE DEF E
  <2>2. chan'[i] \in E
    BY <2>1, <1>2
  <2> QED BY <2>2 DEF E
<1>4. chan'[i].key \in Keys
  BY <1>2, <1>3, EventFields
<1>5. /\ chan'[i].key < nextKey
      /\ pending[chan'[i].key] \in accepted \cup {NoBatch}
  BY <1>1, <1>2 DEF FlushesAreAccepted
<1>6. nextKey \in Int /\ chan'[i].key \in Int
  BY <1>4 DEF TypeOK, Keys
<1> QED BY <1>4, <1>5, <1>6

(* Taking batches out of the slot map cannot give a key another batch.     *)
LEMMA RemovalKeepsKeys ==
    ASSUME TypeOK, FreshKeysUnused, KeysOfTasks, AcceptedTasks,
           nextKey' = nextKey, task' = task, accepted' = accepted,
           \A k \in Keys : pending'[k] \in {pending[k], NoBatch}
    PROVE  FreshKeysUnused' /\ KeysOfTasks' /\ AcceptedTasks'
<1>1. FreshKeysUnused'
  BY DEF FreshKeysUnused, Keys
<1>2. ASSUME NEW t \in Tasks, task[t].at \in {"sending", "accepted"}
      PROVE  /\ task[t].key < nextKey
             /\ pending'[task[t].key] \in {NoBatch, task[t].batch}
  <2>1. task[t].key \in Keys
    BY <1>2, TaskFields DEF TypeOK
  <2> QED BY <1>2, <2>1 DEF KeysOfTasks
<1> QED BY <1>1, <1>2 DEF KeysOfTasks, AcceptedTasks

(* Bridges do not pile up: next to a byte that a merge adds is none that   *)
(* an earlier merge added, as the neighbours of that one are accepted.     *)
LEMMA BridgingStays ==
    ASSUME NEW A, NEW S, NEW T, NEW R \in SUBSET Int,
           OnlyBridges(S, A), OnlyBridges(T, A), OnlyBridges(R, S \cup T)
    PROVE  OnlyBridges(R, A)
<1>1. SUFFICES ASSUME NEW b \in R, b \notin A
               PROVE  b - 1 \in A /\ b + 1 \in A
  BY DEF OnlyBridges
<1>2. CASE b \in S \cup T
  BY <1>1, <1>2 DEF OnlyBridges
<1>3. CASE b \notin S \cup T
  <2>1. b - 1 \in S \cup T /\ b + 1 \in S \cup T
    BY <1>3 DEF OnlyBridges
  <2>2. (b - 1) + 1 = b /\ (b + 1) - 1 = b
    OBVIOUS
  <2>3. b - 1 \notin A => (b - 1) + 1 \in A
    BY <2>1 DEF OnlyBridges
  <2>4. b + 1 \notin A => (b + 1) - 1 \in A
    BY <2>1 DEF OnlyBridges
  <2> QED BY <1>1, <2>2, <2>3, <2>4
<1> QED BY <1>2, <1>3

LEMMA BytesKept ==
    ASSUME accepted \subseteq accepted', state' = state, db' = db,
           StateOnlyAccepted, PersistedOnlyAccepted
    PROVE  StateOnlyAccepted' /\ PersistedOnlyAccepted'
<1>1. \A f \in Files : AcceptedBytes(f) \subseteq AcceptedBytes(f)'
  BY DEF AcceptedBytes
<1>2. ASSUME NEW f \in Files, NEW v, Sound(v, f)
      PROVE  OnlyBridges(BytesOf(v), AcceptedBytes(f)')
  BY <1>1, <1>2 DEF Sound, OnlyBridges
<1>3. ASSUME NEW f \in Files
      PROVE  /\ OnlyBridges(BytesOf(state[f]), AcceptedBytes(f)')
             /\ OnlyBridges(BytesOf(db[f]), AcceptedBytes(f)')
  BY <1>2 DEF StateOnlyAccepted, PersistedOnlyAccepted, Sound
<1> QED BY <1>3 DEF StateOnlyAccepted, PersistedOnlyAccepted, Sound

LEMMA NoSpansSound == \A f \in Files : Sound(NoSpans, f)
BY OffsetStateAssumption DEF Sound, OnlyBridges

LEMMA ClearedSlotMap == \A k \in Keys : NoStaged[k] = NoBatch
BY DEF NoStaged

(* Merging and storing the batch of a key yields only accepted bytes if    *)
(* what is staged under the key is an accepted batch, or nothing.          *)
LEMMA FlushBytes ==
    ASSUME TypeOK, StateOnlyAccepted, PersistedOnlyAccepted,
           NEW key \in Keys \cup {NoKey},
           key # NoKey => pending[key] \in accepted \cup {NoBatch}
    PROVE  /\ MergedState(key) \in [Files -> SpanVecs]
           /\ WrittenDb(key) \in [Files -> SpanVecs]
           /\ \A f \in Files :
                 Sound(MergedState(key)[f], f) /\ Sound(WrittenDb(key)[f], f)
<1>1. Staged(key) \in [Files -> SpanVecs]
  BY OffsetStateAssumption DEF TypeOK, Staged, IsStaged, Keys
<1>2. ASSUME NEW f \in Files
      PROVE  Sound(Staged(key)[f], f)
  <2>1. CASE IsStaged(key)
    <3>1. key # NoKey
      BY <2>1 DEF IsStaged, Keys, NoKey
    <3>2. pending[key] \in accepted /\ Staged(key) = Content[pending[key]]
      BY <2>1, <3>1 DEF IsStaged, Staged
    <3>3. BytesOf(Staged(key)[f]) \subseteq AcceptedBytes(f)
      BY <3>2 DEF AcceptedBytes
    <3> QED BY <3>3 DEF Sound, OnlyBridges
  <2>2. CASE ~IsStaged(key)
    BY <2>2, NoSpansSound DEF Staged
  <2> QED BY <2>1, <2>2
<1>3. ASSUME NEW f \in Files
      PROVE  /\ MergedState(key)[f] \in SpanVecs
             /\ Sound(MergedState(key)[f], f)
  <2>1. state[f] \in SpanVecs /\ Sound(state[f], f)
    BY DEF TypeOK, StateOnlyAccepted
  <2>2. Staged(key)[f] \in SpanVecs
    BY <1>1
  <2> DEFINE S == BytesOf(state[f])
             T == BytesOf(Staged(key)[f])
             v == Absorb(state[f], Staged(key)[f])
  <2>3. v \in SpanVecs /\ OnlyBridges(BytesOf(v), S \cup T)
    BY <2>1, <2>2, OffsetStateAssumption
  <2>4. BytesOf(v) \in SUBSET Int
    BY <2>3, OffsetStateAssumption
  <2>5. OnlyBridges(S, AcceptedBytes(f)) /\ OnlyBridges(T, AcceptedBytes(f))
    BY <1>2, <2>1 DEF Sound
  <2>6. OnlyBridges(BytesOf(v), AcceptedBytes(f))
    <3> HIDE DEF S, T, v
    <3> QED BY <2>3, <2>4, <2>5, BridgingStays
  <2>7. MergedState(key)[f] \in {state[f], Absorb(state[f], Staged(key)[f])}
    BY DEF MergedState
  <2> QED BY <2>1, <2>3, <2>6, <2>7 DEF Sound
<1>4. ASSUME NEW f \in Files
      PROVE  /\ WrittenDb(key)[f] \in SpanVecs
             /\ Sound(WrittenDb(key)[f], f)
  <2>1. db[f] \in SpanVecs /\ Sound(db[f], f)
    BY DEF TypeOK, PersistedOnlyAccepted, Sound
  <2>2. WrittenDb(key)[f] \in {MergedState(key)[f], NoSpans, db[f]}
    BY DEF WrittenDb
  <2> QED BY <1>3, <2>1, <2>2, NoSpansSound, OffsetStateAssumption
<1>5. MergedState(key) \in [Files -> SpanVecs]
  BY <1>3 DEF MergedState
<1>6. WrittenDb(key) \in [Files -> SpanVecs]
  BY <1>4 DEF WrittenDb
<1> QED BY <1>3, <1>4, <1>5, <1>6
---------------------------------------------------------------------------
(* Every action keeps IInv.                                                *)

LEMMA InitIInv == StoreInit => IInv
<1> SUFFICES ASSUME StoreInit PROVE IInv
  OBVIOUS
<1>1. TypeOK
  <2>1. nextKey \in 1 .. MaxKeys + 1
    BY OffsetStateAssumption DEF StoreInit
  <2>2. chan \in Seq(Event)
    BY DEF StoreInit
  <2> QED BY <2>1, <2>2, OffsetStateAssumption
          DEF StoreInit, TypeOK, NoStaged, Idle, TaskState
<1>2. FreshKeysUnused /\ KeysOfTasks /\ AcceptedTasks
  BY DEF StoreInit, FreshKeysUnused, KeysOfTasks, AcceptedTasks, NoStaged, Idle
<1>3. FlushesAreAccepted
  BY DEF StoreInit, FlushesAreAccepted
<1>4. StateOnlyAccepted /\ PersistedOnlyAccepted
  BY NoSpansSound DEF StoreInit, StateOnlyAccepted, PersistedOnlyAccepted, Sound
<1> QED BY <1>1, <1>2, <1>3, <1>4 DEF IInv

(* Staging a batch: the task holds no key yet.                             *)
LEMMA StageBatchStep ==
    ASSUME IInv, NEW t \in Tasks, NEW b \in Batches, StageBatch(t, b)
    PROVE  IInv'
<1> USE DEF IInv
<1>1. /\ Update(t, b) \in Event /\ Update(t, b).op = "update"
      /\ Enqueue(Update(t, b)) /\ chan' \in Seq(Event)
  BY EventForms, EnqueueTyped DEF StageBatch, TypeOK
<1>2. task' \in [Tasks -> TaskState]
  BY TaskForms DEF StageBatch, TypeOK
<1>3. TypeOK'
  BY <1>1, <1>2 DEF StageBatch, TypeOK, loopVars, history
<1>4. KeysOfTasks' /\ AcceptedTasks' /\ FreshKeysUnused'
  BY TaskForms DEF StageBatch, TypeOK, KeysOfTasks, AcceptedTasks, FreshKeysUnused,
                   loopVars, history
<1>5. FlushesAreAccepted'
  BY <1>1, EnqueueKeepsFlushes DEF StageBatch, loopVars, history
<1>6. StateOnlyAccepted' /\ PersistedOnlyAccepted'
  BY BytesKept DEF StageBatch, loopVars, history
<1> QED BY <1>3, <1>4, <1>5, <1>6

(* The service accepts: the set of accepted batches grows.                 *)
LEMMA ServiceAcceptsStep ==
    ASSUME IInv, NEW t \in Tasks, ServiceAccepts(t)
    PROVE  IInv'
<1> USE DEF IInv
<1>1. task[t].batch \in Batches /\ task[t].key \in Keys
  BY TaskFields DEF ServiceAccepts, TypeOK
<1>2. task' \in [Tasks -> TaskState]
  BY <1>1, TaskForms DEF ServiceAccepts, TypeOK
<1>3. TypeOK'
  BY <1>1, <1>2 DEF ServiceAccepts, TypeOK, loopVars
<1>4. KeysOfTasks' /\ AcceptedTasks' /\ FreshKeysUnused'
  BY <1>1, TaskForms DEF ServiceAccepts, TypeOK, KeysOfTasks, AcceptedTasks,
                         FreshKeysUnused, loopVars
<1>5. FlushesAreAccepted'
  BY DEF ServiceAccepts, FlushesAreAccepted, loopVars
<1>6. StateOnlyAccepted' /\ PersistedOnlyAccepted'
  BY BytesKept DEF ServiceAccepts, loopVars
<1> QED BY <1>3, <1>4, <1>5, <1>6

(* Confirming: the task's key stands for its batch, which was accepted.    *)
LEMMA ConfirmSentStep ==
    ASSUME IInv, NEW t \in Tasks, ConfirmSent(t)
    PROVE  IInv'
<1> USE DEF IInv
<1> DEFINE k == task[t].key
<1>1. k \in Keys
  BY TaskFields DEF ConfirmSent, TypeOK
<1>2. /\ Flush(k) \in Event /\ Flush(k).key = k
      /\ Enqueue(Flush(k)) /\ chan' \in Seq(Event)
  BY <1>1, EventForms, EnqueueTyped DEF ConfirmSent, TypeOK
<1>3. task' \in [Tasks -> TaskState]
  BY TaskForms DEF ConfirmSent, TypeOK
<1>4. TypeOK'
  BY <1>2, <1>3 DEF ConfirmSent, TypeOK, loopVars, history
<1>5. KeysOfTasks' /\ AcceptedTasks' /\ FreshKeysUnused'
  BY TaskForms DEF ConfirmSent, TypeOK, KeysOfTasks, AcceptedTasks, FreshKeysUnused,
                   loopVars, history
<1>6. k < nextKey /\ pending[k] \in accepted \cup {NoBatch}
  BY DEF ConfirmSent, KeysOfTasks, AcceptedTasks
<1>7. FlushesAreAccepted'
  BY <1>2, <1>6, EnqueueKeepsFlushes DEF ConfirmSent, loopVars, history
<1>8. StateOnlyAccepted' /\ PersistedOnlyAccepted'
  BY BytesKept DEF ConfirmSent, loopVars, history
<1> QED BY <1>4, <1>5, <1>7, <1>8

LEMMA GiveUpStep ==
    ASSUME IInv, NEW t \in Tasks, GiveUp(t)
    PROVE  IInv'
<1> USE DEF IInv
<1>1. task' \in [Tasks -> TaskState]
  BY TaskForms DEF GiveUp, TypeOK
<1>2. TypeOK'
  BY <1>1 DEF GiveUp, TypeOK, loopVars, history
<1>3. KeysOfTasks' /\ AcceptedTasks' /\ FreshKeysUnused'
  BY TaskForms DEF GiveUp, TypeOK, KeysOfTasks, AcceptedTasks, FreshKeysUnused,
                   loopVars, history
<1>4. FlushesAreAccepted'
  BY DEF GiveUp, FlushesAreAccepted, loopVars, history
<1>5. StateOnlyAccepted' /\ PersistedOnlyAccepted'
  BY BytesKept DEF GiveUp, loopVars, history
<1> QED BY <1>2, <1>3, <1>4, <1>5

(* The other calls put an event in the channel that names no staged batch. *)
LEMMA CallStep ==
    ASSUME IInv, Call
    PROVE  IInv'
<1> USE DEF IInv
<1>1. PICK e \in Event : Enqueue(e) /\ ~(e.op = "flush" /\ e.key # NoKey)
  <2>1. CASE CallFlushNone
    BY <2>1, EventForms DEF CallFlushNone
  <2>2. CASE CallClear
    BY <2>2, EventForms DEF CallClear
  <2>3. CASE \E f \in Files : CallDelete(f)
    BY <2>3, EventForms DEF CallDelete
  <2>4. CASE \E R \in SUBSET Files : CallGc(R)
    BY <2>4, EventForms DEF CallGc
  <2> QED BY <2>1, <2>2, <2>3, <2>4 DEF Call
<1>2. UNCHANGED <<loopVars, db, task, history>>
  BY DEF Call, CallFlushNone, CallClear, CallDelete, CallGc
<1>3. TypeOK'
  BY <1>1, <1>2, EnqueueTyped DEF TypeOK, loopVars, history
<1>4. KeysOfTasks' /\ AcceptedTasks' /\ FreshKeysUnused'
  BY <1>2 DEF KeysOfTasks, AcceptedTasks, FreshKeysUnused, loopVars, history
<1>5. FlushesAreAccepted'
  BY <1>1, <1>2, EnqueueKeepsFlushes DEF loopVars, history
<1>6. StateOnlyAccepted' /\ PersistedOnlyAccepted'
  BY <1>2, BytesKept DEF loopVars, history
<1> QED BY <1>3, <1>4, <1>5, <1>6

(* An update takes a key that nothing in the channel can name yet.         *)
LEMMA HandleUpdateStep ==
    ASSUME IInv, HandleUpdate
    PROVE  IInv'
<1> USE DEF IInv
<1> DEFINE e == Head(chan)
<1>1. chan' \in Seq(Event) /\ e.task \in Tasks /\ e.batch \in Batches
  BY ReceiveTyped, EventFields DEF HandleUpdate, TypeOK
<1>2. /\ nextKey \in Keys /\ nextKey' = nextKey + 1
      /\ pending' = [pending EXCEPT ![nextKey] = e.batch]
      /\ task' = [task EXCEPT ![e.task] = Sending(e.batch, nextKey)]
  BY DEF HandleUpdate
<1>3. task' \in [Tasks -> TaskState]
  BY <1>1, <1>2, TaskForms DEF TypeOK
<1>4. nextKey' \in 1 .. MaxKeys + 1 /\ nextKey \in Int
  BY <1>2, OffsetStateAssumption DEF Keys
<1>5. TypeOK'
  BY <1>1, <1>2, <1>3, <1>4 DEF HandleUpdate, TypeOK, history
<1>6. FreshKeysUnused'
  BY <1>2, <1>4 DEF FreshKeysUnused, TypeOK, Keys
<1>7. ASSUME NEW t \in Tasks, task'[t].at \in {"sending", "accepted"}
      PROVE  /\ task'[t].key < nextKey'
             /\ pending'[task'[t].key] \in {NoBatch, task'[t].batch}
  <2>1. CASE t = e.task
    <3>1. task'[t] = Sending(e.batch, nextKey)
      BY <1>1, <1>2, <2>1 DEF TypeOK
    <3>2. task'[t].key = nextKey /\ task'[t].batch = e.batch
      BY <1>1, <1>2, <3>1, TaskForms
    <3> QED BY <1>2, <1>4, <3>2 DEF TypeOK
  <2>2. CASE t # e.task
    <3>1. task'[t] = task[t]
      BY <1>2, <2>2 DEF TypeOK
    <3>2. task[t].key \in Keys
      BY <1>7, <3>1, TaskFields DEF TypeOK
    <3>3. /\ task[t].key < nextKey
          /\ pending[task[t].key] \in {NoBatch, task[t].batch}
      BY <1>7, <3>1 DEF KeysOfTasks
    <3> QED BY <1>2, <1>4, <3>1, <3>2, <3>3 DEF TypeOK, Keys
  <2> QED BY <2>1, <2>2
<1>8. KeysOfTasks'
  BY <1>7 DEF KeysOfTasks
<1>9. AcceptedTasks'
  BY <1>1, <1>2, TaskForms DEF AcceptedTasks, HandleUpdate, TypeOK, history
<1>10. FlushesAreAccepted'
  <2>1. \A k \in Keys : k < nextKey => pending'[k] = pending[k]
    BY <1>2, <1>4 DEF TypeOK, Keys
  <2>2. nextKey' \in Int /\ nextKey' >= nextKey
    BY <1>2, <1>4
  <2> QED BY <2>1, <2>2, ReceiveKeepsFlushes DEF HandleUpdate, history
<1>11. StateOnlyAccepted' /\ PersistedOnlyAccepted'
  BY BytesKept DEF HandleUpdate, history
<1> QED BY <1>5, <1>6, <1>8, <1>9, <1>10, <1>11

(* Both kinds of flush: the batch under the key is accepted, so merging it *)
(* adds accepted bytes only, and its key leaves the slot map.              *)
LEMMA FlushStep ==
    ASSUME IInv, HandleFlush \/ HandleFlushFailing
    PROVE  IInv'
<1> USE DEF IInv
<1> DEFINE key == Head(chan).key
<1>1. /\ Receive("flush") /\ doomed' = {} /\ nextKey' = nextKey
      /\ task' = task /\ accepted' = accepted /\ restarts' = restarts
      /\ state' = MergedState(key) /\ pending' = Unstage(key)
      /\ db' \in {db, WrittenDb(key)}
      /\ forgotten' \in {forgotten, StillForgotten(key)}
  BY DEF HandleFlush, HandleFlushFailing
<1>2. /\ chan' \in Seq(Event) /\ key \in Keys \cup {NoKey}
      /\ Head(chan) = chan[1] /\ 1 \in 1 .. Len(chan) /\ chan[1].op = "flush"
  BY <1>1, ReceiveTyped, EventFields DEF TypeOK
<1>3. key # NoKey => pending[key] \in accepted \cup {NoBatch}
  BY <1>2 DEF FlushesAreAccepted
<1>4. /\ MergedState(key) \in [Files -> SpanVecs]
      /\ WrittenDb(key) \in [Files -> SpanVecs]
      /\ \A f \in Files :
            Sound(MergedState(key)[f], f) /\ Sound(WrittenDb(key)[f], f)
  BY <1>2, <1>3, FlushBytes
<1>5. pending' \in [Keys -> Batches \cup {NoBatch}]
  BY <1>1 DEF Unstage, TypeOK
<1>6. \A k \in Keys : pending'[k] \in {pending[k], NoBatch}
  BY <1>1 DEF Unstage
<1>7. failures' \in 0 .. MaxFailures
  BY OffsetStateAssumption DEF HandleFlush, HandleFlushFailing, TypeOK
<1>8. TypeOK'
  BY <1>1, <1>2, <1>4, <1>5, <1>7 DEF TypeOK, StillForgotten
<1>9. FreshKeysUnused' /\ KeysOfTasks' /\ AcceptedTasks'
  BY <1>1, <1>6, RemovalKeepsKeys
<1>10. FlushesAreAccepted'
  <2>1. nextKey' \in Int /\ nextKey' >= nextKey
    BY <1>1 DEF TypeOK
  <2> QED BY <1>1, <1>6, <2>1, ReceiveKeepsFlushes
<1>11. \A f \in Files : AcceptedBytes(f)' = AcceptedBytes(f)
  BY <1>1 DEF AcceptedBytes
<1>12. ASSUME NEW f \in Files
       PROVE  /\ OnlyBridges(BytesOf(state'[f]), AcceptedBytes(f)')
              /\ OnlyBridges(BytesOf(db'[f]), AcceptedBytes(f)')
  BY <1>1, <1>4, <1>11 DEF PersistedOnlyAccepted, Sound
<1>13. StateOnlyAccepted' /\ PersistedOnlyAccepted'
  BY <1>12 DEF StateOnlyAccepted, PersistedOnlyAccepted, Sound
<1> QED BY <1>8, <1>9, <1>10, <1>13

(* The events that only forget: a deletion, a clear, a collection.         *)
LEMMA ForgettingStep ==
    ASSUME IInv, HandleDelete \/ HandleClear \/ HandleGc
    PROVE  IInv'
<1> USE DEF IInv
<1>1. PICK op \in {"delete", "clear", "gc"} : Receive(op)
  BY DEF HandleDelete, HandleClear, HandleGc
<1>2. /\ nextKey' = nextKey /\ db' = db /\ task' = task /\ accepted' = accepted
      /\ restarts' = restarts /\ failures' = failures
      /\ pending' \in {pending, NoStaged}
  BY DEF HandleDelete, HandleClear, HandleGc, history
<1>3. /\ chan' \in Seq(Event) /\ Head(chan) \in Event /\ Head(chan).op = op
  BY <1>1, ReceiveTyped DEF TypeOK
<1>4. /\ doomed' \subseteq Files /\ forgotten' \subseteq Files
      /\ state' \in [Files -> SpanVecs]
      /\ \A f \in Files : state'[f] \in {state[f], NoSpans}
  <2>1. CASE HandleDelete
    <3>1. Head(chan).file \in Files
      BY <2>1, <1>3, EventFields DEF HandleDelete, Receive
    <3> QED BY <2>1, <3>1, OffsetStateAssumption DEF HandleDelete, TypeOK
  <2>2. CASE HandleClear
    BY <2>2 DEF HandleClear, TypeOK, history
  <2>3. CASE HandleGc
    BY <2>3, OffsetStateAssumption DEF HandleGc, TypeOK
  <2> QED BY <2>1, <2>2, <2>3
<1>5. pending' \in [Keys -> Batches \cup {NoBatch}]
  BY <1>2 DEF TypeOK, NoStaged
<1>6. \A k \in Keys : pending'[k] \in {pending[k], NoBatch}
  BY <1>2, ClearedSlotMap
<1>7. TypeOK'
  BY <1>2, <1>3, <1>4, <1>5 DEF TypeOK
<1>8. FreshKeysUnused' /\ KeysOfTasks' /\ AcceptedTasks'
  BY <1>2, <1>6, RemovalKeepsKeys
<1>9. FlushesAreAccepted'
  <2>1. nextKey' \in Int /\ nextKey' >= nextKey
    BY <1>2 DEF TypeOK
  <2> QED BY <1>1, <1>2, <1>6, <2>1, ReceiveKeepsFlushes
<1>10. \A f \in Files : AcceptedBytes(f)' = AcceptedBytes(f)
  BY <1>2 DEF AcceptedBytes
<1>11. ASSUME NEW f \in Files
       PROVE  /\ OnlyBridges(BytesOf(state'[f]), AcceptedBytes(f)')
              /\ OnlyBridges(BytesOf(db'[f]), AcceptedBytes(f)')
  <2>1. Sound(state'[f], f) /\ Sound(db'[f], f)
    BY <1>2, <1>4, NoSpansSound DEF StateOnlyAccepted, PersistedOnlyAccepted, Sound
  <2> QED BY <1>10, <2>1 DEF Sound
<1>12. StateOnlyAccepted' /\ PersistedOnlyAccepted'
  BY <1>11 DEF StateOnlyAccepted, PersistedOnlyAccepted, Sound
<1> QED BY <1>7, <1>8, <1>9, <1>12

(* A restart starts the keys afresh, but nobody is left to name the old    *)
(* ones: the channel, the slot map and the tasks go with the process.      *)
LEMMA RestartStep ==
    ASSUME IInv, Restart
    PROVE  IInv'
<1> USE DEF IInv
<1>1. TypeOK'
  <2>1. chan' \in Seq(Event)
    BY DEF Restart
  <2>2. nextKey' \in 1 .. MaxKeys + 1 /\ restarts' \in 0 .. MaxRestarts
    BY OffsetStateAssumption DEF Restart, TypeOK
  <2>3. pending' \in [Keys -> Batches \cup {NoBatch}]
    BY DEF Restart, NoStaged
  <2>4. task' \in [Tasks -> TaskState]
    BY TaskForms DEF Restart
  <2> QED BY <2>1, <2>2, <2>3, <2>4, OffsetStateAssumption DEF Restart, TypeOK
<1>2. FreshKeysUnused' /\ KeysOfTasks' /\ AcceptedTasks'
  BY ClearedSlotMap, TaskForms DEF Restart, FreshKeysUnused, KeysOfTasks, AcceptedTasks
<1>3. FlushesAreAccepted'
  BY DEF Restart, FlushesAreAccepted
<1>4. StateOnlyAccepted' /\ PersistedOnlyAccepted'
  <2>1. /\ state' = [f \in Files |-> NoSpans] /\ db' = db
        /\ \A f \in Files : AcceptedBytes(f)' = AcceptedBytes(f)
    BY DEF Restart, AcceptedBytes
  <2>2. ASSUME NEW f \in Files
        PROVE  /\ OnlyBridges(BytesOf(state'[f]), AcceptedBytes(f)')
               /\ OnlyBridges(BytesOf(db'[f]), AcceptedBytes(f)')
    BY <2>1, NoSpansSound DEF StateOnlyAccepted, PersistedOnlyAccepted, Sound
  <2> QED BY <2>2 DEF StateOnlyAccepted, PersistedOnlyAccepted, Sound
<1> QED BY <1>1, <1>2, <1>3, <1>4

LEMMA StutterStep == ASSUME IInv, UNCHANGED storeVars PROVE IInv'
BY DEF storeVars, IInv, TypeOK, FreshKeysUnused, KeysOfTasks, AcceptedTasks,
       FlushesAreAccepted, StateOnlyAccepted, PersistedOnlyAccepted, Sound, AcceptedBytes

LEMMA NextIInv == ASSUME IInv, [StoreNext]_storeVars PROVE IInv'
<1>1. CASE \E t \in Tasks : Send(t)
  BY <1>1, StageBatchStep, ServiceAcceptsStep, ConfirmSentStep, GiveUpStep DEF Send
<1>2. CASE Call
  BY <1>2, CallStep
<1>3. CASE Handle
  BY <1>3, HandleUpdateStep, FlushStep, ForgettingStep DEF Handle
<1>4. CASE Restart
  BY <1>4, RestartStep
<1>5. CASE UNCHANGED storeVars
  BY <1>5, StutterStep
<1> QED BY <1>1, <1>2, <1>3, <1>4, <1>5 DEF StoreNext

LEMMA AlwaysIInv == StoreSpec => []IInv
BY InitIInv, NextIInv, PTL DEF StoreSpec

(* The variables of the offset store keep their types.                     *)
THEOREM OffsetStateTypeOK == StoreSpec => []TypeOK
<1>1. IInv => TypeOK
  BY DEF IInv
<1> QED BY <1>1, AlwaysIInv, PTL

(* Whatever the tasks, the loop and the restarts do, a byte that the       *)
(* database claims is one of a batch that the service has accepted, or a   *)
(* single byte with accepted ones on both sides.                           *)
THEOREM OnlyAcceptedIsPersisted == StoreSpec => []PersistedOnlyAccepted
<1>1. IInv => PersistedOnlyAccepted
  BY DEF IInv
<1> QED BY <1>1, AlwaysIInv, PTL
---------------------------------------------------------------------------
(* The working spans and the database.                                     *)

LEMMA FlushCovers ==
    ASSUME TypeOK, MemoryCoversDisk, HandleFlush
    PROVE  MemoryCoversDisk'
<1> DEFINE key == Head(chan).key
<1>1. SUFFICES ASSUME NEW f \in Files, f \notin forgotten'
               PROVE  BytesOf(db'[f]) \subseteq BytesOf(state'[f])
  BY DEF MemoryCoversDisk
<1>2. /\ state' = MergedState(key) /\ db' = WrittenDb(key)
      /\ forgotten' = StillForgotten(key)
  BY DEF HandleFlush
<1>3. CASE Staged(key)[f] # NoSpans
  BY <1>2, <1>3 DEF WrittenDb
<1>4. CASE Staged(key)[f] = NoSpans
  <2>1. f \notin forgotten
    BY <1>1, <1>2, <1>4 DEF StillForgotten
  <2>2. state'[f] = state[f] /\ db'[f] \in {NoSpans, db[f]}
    BY <1>2, <1>4 DEF MergedState, WrittenDb
  <2> QED BY <2>1, <2>2, OffsetStateAssumption DEF MemoryCoversDisk
<1> QED BY <1>3, <1>4

LEMMA FlushFailingCovers ==
    ASSUME TypeOK, MemoryCoversDisk, HandleFlushFailing
    PROVE  MemoryCoversDisk'
<1> DEFINE key == Head(chan).key
<1>1. /\ state' = MergedState(key) /\ db' = db /\ forgotten' = forgotten
      /\ key \in Keys \cup {NoKey}
  BY ReceiveTyped, EventFields DEF HandleFlushFailing, TypeOK
<1>2. Staged(key) \in [Files -> SpanVecs]
  BY OffsetStateAssumption DEF TypeOK, Staged, IsStaged, Keys
<1>3. ASSUME NEW f \in Files PROVE BytesOf(state[f]) \subseteq BytesOf(state'[f])
  <2>1. state'[f] \in {state[f], Absorb(state[f], Staged(key)[f])}
    BY <1>1 DEF MergedState
  <2>2. state[f] \in SpanVecs /\ Staged(key)[f] \in SpanVecs
    BY <1>2 DEF TypeOK
  <2>3. BytesOf(state[f]) \subseteq BytesOf(Absorb(state[f], Staged(key)[f]))
    BY <2>2, OffsetStateAssumption
  <2> QED BY <2>1, <2>3
<1> QED BY <1>1, <1>3 DEF MemoryCoversDisk

LEMMA NextCovers ==
    ASSUME TypeOK, MemoryCoversDisk, [StoreNext]_storeVars
    PROVE  MemoryCoversDisk'
<1>1. CASE \E t \in Tasks : Send(t)
  BY <1>1 DEF Send, StageBatch, ServiceAccepts, ConfirmSent, GiveUp,
              MemoryCoversDisk, loopVars, history
<1>2. CASE Call
  BY <1>2 DEF Call, CallFlushNone, CallClear, CallDelete, CallGc,
              MemoryCoversDisk, loopVars, history
<1>3. CASE HandleUpdate \/ HandleClear
  BY <1>3 DEF HandleUpdate, HandleClear, MemoryCoversDisk, history
<1>4. CASE HandleFlush \/ HandleFlushFailing
  BY <1>4, FlushCovers, FlushFailingCovers
<1>5. CASE HandleDelete
  BY <1>5 DEF HandleDelete, MemoryCoversDisk, TypeOK
<1>6. CASE HandleGc
  BY <1>6 DEF HandleGc, MemoryCoversDisk
<1>7. CASE Restart
  BY <1>7 DEF Restart, MemoryCoversDisk
<1>8. CASE UNCHANGED storeVars
  BY <1>8 DEF storeVars, MemoryCoversDisk
<1> QED BY <1>1, <1>2, <1>3, <1>4, <1>5, <1>6, <1>7, <1>8 DEF StoreNext, Handle

(* For every file whose spans the code has not chosen to forget, the next  *)
(* flush cannot take back what is stored: it writes at least that.         *)
THEOREM FlushesOnlyAdd == StoreSpec => []MemoryCoversDisk
<1>1. StoreInit => MemoryCoversDisk
  BY DEF StoreInit, MemoryCoversDisk
<1>2. IInv /\ MemoryCoversDisk /\ [StoreNext]_storeVars => MemoryCoversDisk'
  BY NextCovers DEF IInv
<1> QED BY <1>1, <1>2, AlwaysIInv, PTL DEF StoreSpec

---------------------------------------------------------------------------
(* What OffsetStateAssumption asks of the lists and of their merge holds   *)
(* of SpanVec: Lists for SpanVecs, <<>> for NoSpans, InsertAll for Absorb, *)
(* Covered for BytesOf.                                                    *)

LEMMA CoveredIsNat == ASSUME NEW s \in Lists PROVE Covered(s) \subseteq Nat
<1>1. SUFFICES ASSUME NEW b \in Covered(s) PROVE b \in Nat
  OBVIOUS
<1>2. DOMAIN s = 1 .. Len(s) /\ Len(s) \in Nat /\ \A i \in 1 .. Len(s) : s[i] \in Spans
  BY DEF Lists
<1>3. PICK i \in 1 .. Len(s) : b \in SpanBytes(s[i])
  BY <1>2, CoveredBy
<1> QED BY <1>2, <1>3 DEF SpanBytes, Spans

(* Inserting every span of one ordered list into another gives an ordered  *)
(* list that loses no byte of either and adds only single bytes between    *)
(* two of theirs.                                                          *)
THEOREM InsertAllBridgesOnly ==
    /\ <<>> \in Lists /\ Covered(<<>>) = {}
    /\ \A v \in Lists : Covered(v) \subseteq Nat
    /\ \A v, w \in Lists :
          /\ InsertAll(v, w) \in Lists
          /\ Covered(v) \cup Covered(w) \subseteq Covered(InsertAll(v, w))
          /\ OnlyBridges(Covered(InsertAll(v, w)), Covered(v) \cup Covered(w))
<1>1. <<>> \in Lists /\ Covered(<<>>) = {}
  BY DEF Lists, Ordered, Covered
<1>2. ASSUME NEW v \in Lists, NEW w \in Lists
      PROVE  /\ InsertAll(v, w) \in Lists
             /\ Covered(v) \cup Covered(w) \subseteq Covered(InsertAll(v, w))
             /\ OnlyBridges(Covered(InsertAll(v, w)), Covered(v) \cup Covered(w))
  <2>1. w \in Seq(Spans) /\ Agrees(Covered(v), Covered(v))
    BY DEF Lists, Agrees
  <2>2. AllKept(v, w, Covered(v))
    BY <2>1, InsertAllKeeps
  <2> QED BY <2>2 DEF AllKept, Agrees, OnlyBridges
<1> QED BY <1>1, <1>2, CoveredIsNat
---------------------------------------------------------------------------
(* The tailed file: what holds in every state that is in step.             *)

(* Sequences and parts of sequences.                                       *)

Sequence(s) == s \in Seq({s[i] : i \in DOMAIN s})

LEMMA SequenceProperties ==
  ASSUME NEW s, Sequence(s)
  PROVE  Len(s) \in Nat /\ DOMAIN s = 1 .. Len(s)
  BY LenProperties DEF Sequence

LEMMA FunctionIsSequence ==
  ASSUME NEW n \in Nat, NEW s, DOMAIN s = 1 .. n, s = [i \in 1 .. n |-> s[i]]
  PROVE  Sequence(s) /\ Len(s) = n
  <1>1. s \in [1 .. n -> {s[i] : i \in 1 .. n}]
    <2> DEFINE S == {s[i] : i \in 1 .. n}
    <2>1. \A i \in 1 .. n : s[i] \in S
      OBVIOUS
    <2> HIDE DEF S
    <2>2. s \in [1 .. n -> S]
      BY <2>1
    <2>. QED
      BY <2>2 DEF S
  <1>2. s \in Seq({s[i] : i \in 1 .. n})
    BY <1>1, SeqDef
  <1>3. Len(s) \in Nat /\ DOMAIN s = 1 .. Len(s)
    BY <1>2, LenProperties
  <1>4. Len(s) = n
    <2>1. 1 .. Len(s) = 1 .. n
      BY <1>3
    <2>. QED
      BY <1>3, <2>1
  <1>. QED
    BY <1>2, <1>4 DEF Sequence

LEMMA AppendIsSequence ==
  ASSUME NEW s, Sequence(s), NEW e
  PROVE  /\ Sequence(Append(s, e)) /\ Len(Append(s, e)) = Len(s) + 1
         /\ \A i \in 1 .. Len(s) : Append(s, e)[i] = s[i]
         /\ Append(s, e)[Len(s) + 1] = e
  <1> DEFINE S == {s[i] : i \in DOMAIN s} \cup {e}
             t == Append(s, e)
  <1>1. s \in Seq(S) /\ e \in S
    BY SeqMonotonic DEF Sequence
  <1> HIDE DEF S
  <1>2. /\ t \in Seq(S) /\ Len(t) = Len(s) + 1
        /\ \A i \in 1 .. Len(s) : t[i] = s[i]
        /\ t[Len(s) + 1] = e
    BY <1>1, AppendProperties
  <1>3. Len(t) \in Nat /\ DOMAIN t = 1 .. Len(t) /\ t \in [1 .. Len(t) -> S]
    BY <1>2, LenProperties
  <1> HIDE DEF t
  <1>4. t = [i \in 1 .. Len(t) |-> t[i]]
    BY <1>3
  <1>5. Sequence(t)
    BY <1>3, <1>4, FunctionIsSequence
  <1>. QED
    BY <1>2, <1>5 DEF t

\* The elements of a finite set of places, in their order.
Enumerates(f, S, n) ==
    /\ f \in [1 .. n -> S]
    /\ \A i, j \in 1 .. n : i < j => f[i] < f[j]

LEMMA EnumerationExists ==
  ASSUME NEW n \in Nat, NEW S \in SUBSET (1 .. n)
  PROVE  /\ Cardinality(S) \in Nat
         /\ \E f : Enumerates(f, S, Cardinality(S))
  <1> DEFINE Bad == {k \in Nat : \E T \in SUBSET (1 .. k) : ~ \E f : Enumerates(f, T, Cardinality(T))}
  <1>1. \A k \in Nat : \A T \in SUBSET (1 .. k) : IsFiniteSet(T) /\ Cardinality(T) \in Nat
    <2> SUFFICES ASSUME NEW k \in Nat, NEW T \in SUBSET (1 .. k)
                 PROVE  IsFiniteSet(T) /\ Cardinality(T) \in Nat
      OBVIOUS
    <2>1. IsFiniteSet(1 .. k)
      BY FS_Interval
    <2>2. IsFiniteSet(T)
      BY <2>1, FS_Subset
    <2>. QED
      BY <2>2, FS_CardinalityType
  <1>2. Bad = {}
    <2> SUFFICES ASSUME Bad # {} PROVE FALSE
      OBVIOUS
    <2>0. Bad \in SUBSET Nat
      OBVIOUS
    <2> HIDE DEF Bad
    <2>1. PICK k \in Bad : \A m \in Bad : k <= m
      BY <2>0, SmallestNumber
    <2>1a. k \in Nat
      BY <2>0
    <2>2. PICK T \in SUBSET (1 .. k) : ~ \E f : Enumerates(f, T, Cardinality(T))
      BY <2>1 DEF Bad
    <2> DEFINE R == T \ {k}
               c == Cardinality(R)
    <2>3. CASE k = 0
      <3>1. T = {} /\ Cardinality(T) = 0
        <4>1. 1 .. k = {}
          BY <2>3
        <4>2. T = {}
          BY <4>1
        <4>. QED
          BY <4>2, FS_EmptySet
      <3>2. Enumerates([i \in 1 .. 0 |-> 0], T, 0)
        BY <3>1 DEF Enumerates
      <3>. QED
        BY <2>2, <3>1, <3>2
    <2>4. CASE k > 0
      <3>1. k - 1 \in Nat /\ k - 1 \notin Bad
        <4>1. k - 1 \in Bad => k <= k - 1
          BY <2>1
        <4>. QED
          BY <2>0, <2>1, <2>4, <4>1
      <3>2. R \in SUBSET (1 .. k - 1)
        BY <2>1a
      <3>3. PICK f : Enumerates(f, R, c)
        BY <3>1, <3>2 DEF Bad
      <3>4. c \in Nat
        BY <1>1, <3>1, <3>2
      <3>5. CASE k \notin T
        <4>1. R = T
          BY <3>5
        <4>. QED
          BY <2>2, <3>3, <4>1
      <3>6. CASE k \in T
        <4>1. Cardinality(T) = c + 1
          <5>1. IsFiniteSet(T) /\ Cardinality(T) \in Nat
            BY <1>1, <2>1a
          <5>2. c = Cardinality(T) - 1
            BY <3>6, <5>1, FS_RemoveElement
          <5>. QED
            BY <5>1, <5>2
        <4> DEFINE h == [i \in 1 .. c + 1 |-> IF i = c + 1 THEN k ELSE f[i]]
        <4>2. \A i \in 1 .. c : f[i] \in R /\ f[i] \in 1 .. k - 1
          BY <3>2, <3>3, <3>4 DEF Enumerates
        <4>3. \A i \in 1 .. c + 1 : i = c + 1 \/ i \in 1 .. c
          BY <3>4
        <4>4. h \in [1 .. c + 1 -> T]
          BY <3>6, <4>2, <4>3
        <4> HIDE DEF R, c
        <4>5. ASSUME NEW i \in 1 .. c + 1, NEW j \in 1 .. c + 1, i < j PROVE h[i] < h[j]
          <5>1. i \in 1 .. c
            BY <3>4, <4>5
          <5>2. CASE j = c + 1
            BY <2>1a, <3>4, <4>2, <5>1, <5>2
          <5>3. CASE j \in 1 .. c
            <6>1. f[i] < f[j]
              BY <3>3, <4>5, <5>1, <5>3 DEF Enumerates
            <6>. QED
              BY <3>4, <5>1, <5>3, <6>1
          <5>. QED
            BY <4>3, <5>2, <5>3
        <4>6. Enumerates(h, T, c + 1)
          BY <4>4, <4>5 DEF Enumerates
        <4>. QED
          BY <2>2, <4>1, <4>6
      <3>. QED
        BY <3>5, <3>6
    <2>. QED
      BY <2>1a, <2>3, <2>4
  <1>3. n \notin Bad
    BY <1>2
  <1>. QED
    BY <1>1, <1>3

\* At(s, S) is a sequence of elements of s at places of S.
TakenFrom(t, s, S) == Sequence(t) /\ \A i \in 1 .. Len(t) : \E k \in S : t[i] = s[k]

LEMMA AtPlaces ==
  ASSUME NEW n \in Nat, NEW S \in SUBSET (1 .. n), NEW s
  PROVE  TakenFrom(At(s, S), s, S)
  <1> DEFINE c == Cardinality(S)
             ok(f) == \A i, j \in DOMAIN f : i < j => f[i] < f[j]
             place == CHOOSE f \in [1 .. c -> S] : ok(f)
             t == [i \in 1 .. c |-> s[place[i]]]
  <1>1. c \in Nat /\ \E f : Enumerates(f, S, c)
    BY EnumerationExists
  <1>2. \E f \in [1 .. c -> S] : ok(f)
    <2>1. PICK f : Enumerates(f, S, c)
      BY <1>1
    <2>2. f \in [1 .. c -> S] /\ DOMAIN f = 1 .. c
      BY <2>1 DEF Enumerates
    <2>3. ok(f)
      BY <2>1, <2>2 DEF Enumerates
    <2>. QED
      BY <2>2, <2>3
  <1> HIDE DEF ok
  <1>3. place \in [1 .. c -> S]
    BY <1>2
  <1>4. At(s, S) = t
    BY DEF At, ok
  <1> HIDE DEF c, place
  <1>5. t = [i \in 1 .. c |-> t[i]] /\ DOMAIN t = 1 .. c
    OBVIOUS
  <1>6. \A i \in 1 .. c : place[i] \in S /\ t[i] = s[place[i]]
    BY <1>3
  <1> HIDE DEF t
  <1>7. Sequence(t) /\ Len(t) = c
    BY <1>1, <1>5, FunctionIsSequence
  <1>. QED
    BY <1>4, <1>6, <1>7 DEF c, TakenFrom
---------------------------------------------------------------------------
(* Lists of whole lines.  A line takes the bytes 2k and 2k + 1.            *)

EvenBounds(s) == \A i \in DOMAIN s : ~ Feed(s[i].start) /\ ~ Feed(s[i].end)
Lined(s) == Tidy(s) /\ EvenBounds(s)

\* A set of bytes that has both bytes of a line or none.
WholeSet(B) == \A b \in B : IF Feed(b) THEN b - 1 \in B ELSE b + 1 \in B

\* Of a tidy list all spans are apart, not only neighbours.
Apart(s) ==
    /\ Len(s) \in Nat /\ DOMAIN s = 1 .. Len(s)
    /\ \A i \in 1 .. Len(s) : /\ s[i] \in Spans
                              /\ s[i].start \in Nat /\ s[i].end \in Nat /\ s[i].start < s[i].end
                              /\ s[i].end <= 2 * MaxLines
    /\ \A i, j \in 1 .. Len(s) : i < j => s[i].end < s[j].start

LEMMA TidyIsApart ==
  ASSUME NEW s, Tidy(s)
  PROVE  Apart(s)
  <1>1. Len(s) \in Nat /\ DOMAIN s = 1 .. Len(s) /\ s \in Seq(SpansUpTo(2 * MaxLines))
    BY LenProperties DEF Tidy
  <1>2. 2 * MaxLines \in Nat
    BY TailedFileAssumption
  <1>3. \A i \in 1 .. Len(s) : s[i] \in SpansUpTo(2 * MaxLines)
    BY <1>1, ElementOfSeq
  <1>4. \A i \in 1 .. Len(s) :
           /\ s[i] \in Spans
           /\ s[i].start \in Nat /\ s[i].end \in Nat /\ s[i].start < s[i].end
           /\ s[i].end <= 2 * MaxLines
    BY <1>2, <1>3 DEF SpansUpTo, Spans
  <1>5. ASSUME NEW i \in 1 .. Len(s), NEW k \in 1 .. Len(s), i < k PROVE s[i].end < s[k].start
    <2> DEFINE Bad == {j \in Nat : i < j /\ j <= Len(s) /\ ~ (s[i].end < s[j].start)}
    <2>1. Bad = {}
      <3> SUFFICES ASSUME Bad # {} PROVE FALSE
        OBVIOUS
      <3>0. Bad \in SUBSET Nat
        OBVIOUS
      <3> HIDE DEF Bad
      <3>1. PICK j \in Bad : \A m \in Bad : j <= m
        BY <3>0, SmallestNumber
      <3>2. j \in Nat /\ i < j /\ j <= Len(s) /\ ~ (s[i].end < s[j].start)
        BY <3>1 DEF Bad
      <3>3. j - 1 \in 1 .. Len(s) - 1 /\ (j - 1) + 1 = j /\ j - 1 \in 1 .. Len(s) /\ j \in 1 .. Len(s)
        BY <1>1, <3>2
      <3>4. s[j - 1].end < s[j].start
        BY <1>1, <3>3 DEF Tidy
      <3>5. CASE i = j - 1
        BY <3>2, <3>4, <3>5
      <3>6. CASE i < j - 1
        <4>1. j - 1 \notin Bad
          <5>1. j - 1 \in Bad => j <= j - 1
            BY <3>1
          <5>. QED
            BY <3>2, <5>1
        <4>2. s[i].end < s[j - 1].start
          BY <3>2, <3>3, <3>6, <4>1 DEF Bad
        <4>. QED
          BY <1>4, <3>2, <3>3, <3>4, <4>2
      <3>. QED
        BY <3>2, <3>5, <3>6
    <2>2. k \in Nat /\ k <= Len(s)
      BY <1>1
    <2>. QED
      BY <1>5, <2>1, <2>2
  <1>. QED
    BY <1>1, <1>4, <1>5 DEF Apart

LEMMA ApartIsTidy ==
  ASSUME NEW s \in Seq(SpansUpTo(2 * MaxLines)),
         \A i, j \in 1 .. Len(s) : i < j => s[i].end < s[j].start
  PROVE  Tidy(s)
  <1>1. Len(s) \in Nat
    BY LenProperties
  <1>2. \A i \in 1 .. Len(s) - 1 : i \in 1 .. Len(s) /\ i + 1 \in 1 .. Len(s) /\ i < i + 1
    BY <1>1
  <1>. QED
    BY <1>2 DEF Tidy

LEMMA ApartIsList ==
  ASSUME NEW s, Tidy(s)
  PROVE  s \in Lists
  <1>1. Apart(s)
    BY TidyIsApart
  <1>2. s \in Seq(Spans)
    <2>1. SpansUpTo(2 * MaxLines) \subseteq Spans
      BY TailedFileAssumption DEF SpansUpTo, Spans
    <2>. QED
      BY <2>1, SeqMonotonic DEF Tidy
  <1>3. \A i, j \in 1 .. Len(s) : i < j => s[i].start < s[j].start
    BY <1>1 DEF Apart
  <1>. QED
    BY <1>2, <1>3 DEF Lists, Ordered

LEMMA ApartCovers ==
  ASSUME NEW s, Apart(s), NEW b
  PROVE  b \in Covered(s) <=>
           \E i \in 1 .. Len(s) : b \in Nat /\ s[i].start <= b /\ b < s[i].end
  <1>1. b \in Covered(s) <=> \E i \in 1 .. Len(s) : b \in SpanBytes(s[i])
    BY CoveredBy DEF Apart
  <1>2. \A i \in 1 .. Len(s) : b \in SpanBytes(s[i]) <=> b \in Nat /\ s[i].start <= b /\ b < s[i].end
    BY DEF SpanBytes, Apart
  <1>. QED
    BY <1>1, <1>2

LEMMA LinedCoversWhole ==
  ASSUME NEW s, Lined(s)
  PROVE  WholeSet(Covered(s)) /\ Covered(s) \subseteq Nat
  <1>1. Apart(s)
    BY TidyIsApart DEF Lined
  <1>2. ASSUME NEW b \in Covered(s)
        PROVE  /\ b \in Nat
               /\ Feed(b) => b - 1 \in Covered(s)
               /\ ~ Feed(b) => b + 1 \in Covered(s)
    <2>1. PICK i \in 1 .. Len(s) : b \in Nat /\ s[i].start <= b /\ b < s[i].end
      BY <1>1, <1>2, ApartCovers
    <2>2. s[i].start \in Nat /\ s[i].end \in Nat /\ ~ Feed(s[i].start) /\ ~ Feed(s[i].end)
      BY <1>1 DEF Apart, Lined, EvenBounds
    <2>3. Feed(b) => b - 1 \in Nat /\ s[i].start <= b - 1 /\ b - 1 < s[i].end
      BY <2>1, <2>2 DEF Feed
    <2>4. ~ Feed(b) => b + 1 \in Nat /\ s[i].start <= b + 1 /\ b + 1 < s[i].end
      BY <2>1, <2>2 DEF Feed
    <2>. QED
      BY <1>1, <2>1, <2>3, <2>4, ApartCovers
  <1>. QED
    BY <1>2 DEF WholeSet

LEMMA WholeIsLined ==
  ASSUME NEW s, Tidy(s), WholeSet(Covered(s))
  PROVE  Lined(s)
  <1>1. Apart(s)
    BY TidyIsApart
  <1>2. ASSUME NEW i \in 1 .. Len(s) PROVE ~ Feed(s[i].start) /\ ~ Feed(s[i].end)
    <2>1. s[i].start \in Nat /\ s[i].end \in Nat /\ s[i].start < s[i].end
      BY <1>1 DEF Apart
    <2>2. \A j \in 1 .. Len(s) : j < i \/ j = i \/ i < j
      BY <1>1 DEF Apart
    <2>3. \A j \in 1 .. Len(s) : j < i => s[j].end < s[i].start
      BY <1>1 DEF Apart
    <2>4. \A j \in 1 .. Len(s) : i < j => s[i].end < s[j].start
      BY <1>1 DEF Apart
    <2>5. \A j \in 1 .. Len(s) : s[j].start \in Nat /\ s[j].end \in Nat /\ s[j].start < s[j].end
      BY <1>1 DEF Apart
    <2>6. s[i].start \in Covered(s)
      BY <1>1, <2>1, ApartCovers
    <2>7. s[i].end - 1 \in Covered(s)
      <3>1. s[i].end - 1 \in Nat /\ s[i].start <= s[i].end - 1 /\ s[i].end - 1 < s[i].end
        BY <2>1
      <3>. QED
        BY <1>1, <3>1, ApartCovers
    <2>8. s[i].start - 1 \notin Covered(s)
      <3> SUFFICES ASSUME NEW j \in 1 .. Len(s), s[j].start <= s[i].start - 1,
                          s[i].start - 1 < s[j].end
                   PROVE  FALSE
        BY <1>1, ApartCovers
      <3>. QED
        BY <2>1, <2>2, <2>3, <2>4, <2>5
    <2>9. s[i].end \notin Covered(s)
      <3> SUFFICES ASSUME NEW j \in 1 .. Len(s), s[j].start <= s[i].end, s[i].end < s[j].end
                   PROVE  FALSE
        BY <1>1, ApartCovers
      <3>. QED
        BY <2>1, <2>2, <2>3, <2>4, <2>5
    <2>10. Feed(s[i].end) => ~ Feed(s[i].end - 1) /\ (s[i].end - 1) + 1 = s[i].end
      BY <2>1 DEF Feed
    <2>11. ~ Feed(s[i].start)
      BY <2>6, <2>8 DEF WholeSet
    <2>12. ~ Feed(s[i].end)
      BY <2>7, <2>9, <2>10 DEF WholeSet
    <2>. QED
      BY <2>11, <2>12
  <1>. QED
    BY <1>1, <1>2 DEF Lined, EvenBounds, Apart

LEMMA WholeRest ==
  ASSUME NEW A \in SUBSET Nat, NEW B \in SUBSET Nat, WholeSet(A), WholeSet(B)
  PROVE  WholeSet(A \ B) /\ WholeSet(A \cup B)
  <1>1. \A b \in Nat : /\ Feed(b) => b - 1 \in Int /\ ~ Feed(b - 1) /\ (b - 1) + 1 = b
                       /\ ~ Feed(b) => Feed(b + 1) /\ (b + 1) - 1 = b
    BY DEF Feed
  <1>2. WholeSet(A \cup B)
    BY DEF WholeSet
  <1>3. ASSUME NEW b \in A \ B PROVE IF Feed(b) THEN b - 1 \in A \ B ELSE b + 1 \in A \ B
    <2>1. CASE Feed(b)
      <3>1. b - 1 \in A
        BY <2>1 DEF WholeSet
      <3>2. b - 1 \notin B
        BY <1>1, <1>3, <2>1 DEF WholeSet
      <3>. QED
        BY <2>1, <3>1, <3>2
    <2>2. CASE ~ Feed(b)
      <3>1. b + 1 \in A
        BY <2>2 DEF WholeSet
      <3>2. b + 1 \notin B
        BY <1>1, <1>3, <2>2 DEF WholeSet
      <3>. QED
        BY <2>2, <3>1, <3>2
    <2>. QED
      BY <2>1, <2>2
  <1>. QED
    BY <1>2, <1>3 DEF WholeSet

\* The bytes of a line.
LineAt(k) == Span(2 * k, 2 * k + 2)

LEMMA LineIsWhole ==
  ASSUME NEW k \in Nat
  PROVE  /\ LineAt(k).start = 2 * k /\ LineAt(k).end = 2 * k + 2
         /\ LineAt(k) \in Spans
         /\ SpanBytes(LineAt(k)) = {2 * k, 2 * k + 1}
         /\ SpanBytes(LineAt(k)) \in SUBSET Nat
         /\ WholeSet(SpanBytes(LineAt(k)))
  <1>1. LineAt(k).start = 2 * k /\ LineAt(k).end = 2 * k + 2
    BY DEF LineAt, Span
  <1>2. LineAt(k) \in Spans
    BY DEF LineAt, Span, Spans
  <1>3. SpanBytes(LineAt(k)) = {2 * k, 2 * k + 1}
    BY <1>1 DEF SpanBytes
  <1>4. ~ Feed(2 * k) /\ Feed(2 * k + 1) /\ (2 * k + 1) - 1 = 2 * k
    BY DEF Feed
  <1>5. WholeSet({2 * k, 2 * k + 1})
    BY <1>4 DEF WholeSet
  <1>. QED
    BY <1>1, <1>2, <1>3, <1>5
---------------------------------------------------------------------------
(* insert() of a line: the list stays tidy.                                *)

FileSpans == SpansUpTo(2 * MaxLines)

LEMMA TidyReplaced ==
  ASSUME NEW s, Tidy(s), NEW k \in 1 .. Len(s), NEW h \in FileSpans,
         k > 1 => s[k - 1].end < h.start,
         k < Len(s) => h.end < s[k + 1].start
  PROVE  Tidy(ReplaceAt(s, k, h)) /\ Len(ReplaceAt(s, k, h)) = Len(s)
         /\ ReplaceAt(s, k, h)[k] = h
  <1> DEFINE t == ReplaceAt(s, k, h)
  <1>1. s \in Seq(FileSpans) /\ Len(s) \in Nat
    BY LenProperties DEF Tidy, FileSpans
  <1>2. /\ t \in Seq(FileSpans) /\ Len(t) = Len(s)
        /\ \A j \in 1 .. Len(s) : t[j] = IF j = k THEN h ELSE s[j]
    BY <1>1, ExceptSeq DEF ReplaceAt
  <1>3. \A j \in 1 .. Len(s) - 1 : s[j].end < s[j + 1].start
    BY DEF Tidy
  <1> HIDE DEF t
  <1>4. ASSUME NEW j \in 1 .. Len(s) - 1 PROVE t[j].end < t[j + 1].start
    <2>1. j \in 1 .. Len(s) /\ j + 1 \in 1 .. Len(s) /\ j \in Nat
      BY <1>1
    <2>2. CASE j = k
      BY <1>1, <1>2, <2>1, <2>2
    <2>3. CASE j + 1 = k
      <3>1. k > 1 /\ k - 1 = j
        BY <2>1, <2>3
      <3>. QED
        BY <1>2, <2>1, <2>3, <3>1
    <2>4. CASE j # k /\ j + 1 # k
      BY <1>2, <1>3, <2>1, <2>4
    <2>. QED
      BY <2>2, <2>3, <2>4
  <1>5. Tidy(t)
    BY <1>2, <1>4 DEF Tidy, FileSpans
  <1>. QED
    BY <1>2, <1>5 DEF t

LEMMA TidyInserted ==
  ASSUME NEW s, Tidy(s), NEW k \in 1 .. Len(s) + 1, NEW e \in FileSpans,
         k > 1 => s[k - 1].end < e.start,
         k <= Len(s) => e.end < s[k].start
  PROVE  Tidy(InsertAt(s, k, e))
  <1> DEFINE t == InsertAt(s, k, e)
  <1>1. s \in Seq(FileSpans) /\ Len(s) \in Nat
    BY LenProperties DEF Tidy, FileSpans
  <1>2. /\ t \in Seq(FileSpans) /\ Len(t) = Len(s) + 1
        /\ \A j \in 1 .. Len(s) + 1 : t[j] = IF j < k THEN s[j] ELSE IF j = k THEN e ELSE s[j - 1]
    BY <1>1, InsertedAt
  <1>3. \A j \in 1 .. Len(s) - 1 : s[j].end < s[j + 1].start
    BY DEF Tidy
  <1> HIDE DEF t
  <1>4. ASSUME NEW j \in 1 .. Len(s) PROVE t[j].end < t[j + 1].start
    <2>1. j \in 1 .. Len(s) + 1 /\ j + 1 \in 1 .. Len(s) + 1 /\ j \in Nat /\ k \in Nat
      BY <1>1
    <2>2. CASE j = k
      <3>1. (j + 1) - 1 = j /\ ~ (j + 1 < k) /\ j + 1 # k /\ ~ (j < k)
        BY <2>1, <2>2
      <3>2. t[j] = e /\ t[j + 1] = s[j]
        BY <1>2, <2>1, <2>2, <3>1
      <3>. QED
        BY <1>1, <2>1, <2>2, <3>2
    <2>3. CASE j + 1 = k
      <3>1. j < k /\ k > 1 /\ k - 1 = j
        BY <2>1, <2>3
      <3>2. t[j] = s[j] /\ t[j + 1] = e
        BY <1>2, <2>1, <2>3, <3>1
      <3>. QED
        BY <3>1, <3>2
    <2>4. CASE j + 1 < k
      <3>1. j < k /\ j \in 1 .. Len(s) - 1
        BY <1>1, <2>1, <2>4
      <3>2. t[j] = s[j] /\ t[j + 1] = s[j + 1]
        BY <1>2, <2>1, <2>4, <3>1
      <3>. QED
        BY <1>3, <3>1, <3>2
    <2>5. CASE j > k
      <3>1. j - 1 \in 1 .. Len(s) - 1 /\ (j - 1) + 1 = j /\ (j + 1) - 1 = j /\ ~ (j < k) /\ j # k
            /\ ~ (j + 1 < k) /\ j + 1 # k
        BY <1>1, <2>1, <2>5
      <3>2. t[j] = s[j - 1] /\ t[j + 1] = s[j]
        BY <1>2, <2>1, <2>5, <3>1
      <3>. QED
        BY <1>3, <3>1, <3>2
    <2>. QED
      BY <2>1, <2>2, <2>3, <2>4, <2>5
  <1>5. Len(t) - 1 = Len(s)
    BY <1>1, <1>2
  <1>6. Tidy(t)
    BY <1>2, <1>4, <1>5 DEF Tidy, FileSpans
  <1>. QED
    BY <1>6 DEF t

LEMMA TidyAbsorbed ==
  ASSUME NEW s, Tidy(s), NEW k \in 1 .. Len(s) - 1, NEW h \in FileSpans,
         k > 1 => s[k - 1].end < h.start,
         k + 1 < Len(s) => h.end < s[k + 2].start
  PROVE  /\ Tidy(RemoveAt(ReplaceAt(s, k, h), k + 1))
         /\ Len(RemoveAt(ReplaceAt(s, k, h), k + 1)) = Len(s) - 1
         /\ RemoveAt(ReplaceAt(s, k, h), k + 1)[k] = h
  <1> DEFINE r == ReplaceAt(s, k, h)
             t == RemoveAt(r, k + 1)
  <1>1. s \in Seq(FileSpans) /\ Len(s) \in Nat
    BY LenProperties DEF Tidy, FileSpans
  <1>2. k \in 1 .. Len(s) /\ k + 1 \in 1 .. Len(s)
    BY <1>1
  <1>3. /\ r \in Seq(FileSpans) /\ Len(r) = Len(s)
        /\ \A j \in 1 .. Len(s) : r[j] = IF j = k THEN h ELSE s[j]
    BY <1>1, <1>2, ExceptSeq DEF ReplaceAt
  <1> HIDE DEF r
  <1>4. /\ t \in Seq(FileSpans) /\ Len(t) = Len(s) - 1
        /\ \A j \in 1 .. Len(s) - 1 : t[j] = IF j < k + 1 THEN r[j] ELSE r[j + 1]
    BY <1>2, <1>3, RemovedAt
  <1> HIDE DEF t
  <1>5. \A j \in 1 .. Len(s) - 1 : s[j].end < s[j + 1].start
    BY DEF Tidy
  <1>6. ASSUME NEW j \in 1 .. Len(s) - 1
        PROVE  t[j] = IF j < k THEN s[j] ELSE IF j = k THEN h ELSE s[j + 1]
    <2>1. j \in 1 .. Len(s) /\ j + 1 \in 1 .. Len(s) /\ j \in Nat /\ k \in Nat
      BY <1>1, <1>2
    <2>2. t[j] = IF j < k + 1 THEN r[j] ELSE r[j + 1]
      BY <1>4
    <2>3. CASE j < k + 1
      <3>1. j < k \/ j = k
        BY <2>1, <2>3
      <3>. QED
        BY <1>3, <2>1, <2>2, <2>3, <3>1
    <2>4. CASE ~ (j < k + 1)
      <3>1. ~ (j < k) /\ j # k /\ j + 1 # k
        BY <2>1, <2>4
      <3>. QED
        BY <1>3, <2>1, <2>2, <2>4, <3>1
    <2>. QED
      BY <2>3, <2>4
  <1>7. ASSUME NEW j \in 1 .. Len(s) - 2 PROVE t[j].end < t[j + 1].start
    <2>1. j \in 1 .. Len(s) - 1 /\ j + 1 \in 1 .. Len(s) - 1 /\ j \in Nat /\ (j + 1) + 1 = j + 2
      BY <1>1
    <2>2. CASE j = k
      <3>1. ~ (j + 1 < k) /\ j + 1 # k /\ k + 1 < Len(s) /\ ~ (j < k)
        BY <1>1, <2>1, <2>2
      <3>. QED
        BY <1>6, <2>1, <2>2, <3>1
    <2>3. CASE j + 1 = k
      <3>1. j < k /\ k > 1 /\ k - 1 = j /\ ~ (k < k)
        BY <2>1, <2>3
      <3>2. t[j] = s[j] /\ t[j + 1] = h
        BY <1>6, <2>1, <2>3, <3>1
      <3>. QED
        BY <3>1, <3>2
    <2>4. CASE j + 1 < k
      <3>1. j < k
        BY <1>2, <2>1, <2>4
      <3>. QED
        BY <1>5, <1>6, <2>1, <2>4, <3>1
    <2>5. CASE j > k
      <3>1. ~ (j < k) /\ j # k /\ ~ (j + 1 < k) /\ j + 1 # k
        BY <1>2, <2>1, <2>5
      <3>2. t[j] = s[j + 1] /\ t[j + 1] = s[(j + 1) + 1]
        BY <1>6, <2>1, <3>1
      <3>. QED
        BY <1>5, <2>1, <3>2
    <2>. QED
      BY <1>2, <2>1, <2>2, <2>3, <2>4, <2>5
  <1>8. (Len(s) - 1) - 1 = Len(s) - 2
    BY <1>1
  <1>9. Tidy(t)
    BY <1>4, <1>7, <1>8 DEF Tidy, FileSpans
  <1>10. t[k] = h
    BY <1>2, <1>6
  <1>. QED
    BY <1>4, <1>9, <1>10 DEF t, r

\* A turn after which the list stays as it is: the loop has ended, or the span to
\* place is in the list, next to the cursor, and apart from its neighbours.
Rests(c) ==
    /\ c \in Cursors /\ c.idx <= Len(c.spans)
    /\ ~ c.done => Lined(c.spans) /\ (IsLeft(c) \/ IsRight(c))

\* Neighbours of a lined list are not merged.
LEMMA LinedUnMerged ==
  ASSUME NEW s, Lined(s), NEW i \in 1 .. Len(s) - 1
  PROVE  MergeRight(s[i], s[i + 1]).kind = "UnMerged"
  <1>1. Apart(s)
    BY TidyIsApart DEF Lined
  <1>2. i \in 1 .. Len(s) /\ i + 1 \in 1 .. Len(s) /\ i < i + 1
    BY <1>1 DEF Apart
  <1>3. s[i].end < s[i + 1].start /\ s[i].end \in Nat /\ s[i + 1].start \in Nat
        /\ s[i] \in Spans /\ s[i + 1] \in Spans /\ s[i].start < s[i].end /\ s[i].start \in Nat
    BY <1>1, <1>2 DEF Apart
  <1>4. ~ Feed(s[i].end) /\ ~ Feed(s[i + 1].start)
    BY <1>1, <1>2 DEF Lined, EvenBounds, Apart
  <1>5. ~ (s[i].end + 1 >= s[i + 1].start)
    BY <1>3, <1>4 DEF Feed
  <1>6. s[i] # s[i + 1]
    BY <1>3
  <1>. QED
    BY <1>5, <1>6 DEF MergeRight

LEMMA SameMerge ==
  ASSUME NEW e
  PROVE  /\ MergeRight(e, e) = [kind |-> "Identity", span |-> e]
         /\ Merge(e, e) = [kind |-> "Identity", span |-> e]
  BY DEF MergeRight, Merge

LEMMA RestStays ==
  ASSUME NEW c, Rests(c)
  PROVE  Rests(InsertStep(c)) /\ InsertStep(c).spans = c.spans
  <1>1. /\ c \in Cursors /\ c.idx \in Nat /\ c.idx <= Len(c.spans) /\ c.done \in BOOLEAN
        /\ Len(c.spans) \in Nat /\ c.spans \in Lists
    <2>1. c \in Cursors /\ c.idx <= Len(c.spans)
      BY DEF Rests
    <2>2. c.idx \in Nat /\ c.done \in BOOLEAN /\ c.spans \in Lists
      BY <2>1 DEF Cursors
    <2>3. Len(c.spans) \in Nat
      BY <2>2, LenProperties DEF Lists
    <2>. QED
      BY <2>1, <2>2, <2>3
  <1>2. CASE c.done
    <2>1. InsertStep(c) = c
      BY <1>2 DEF InsertStep
    <2>. QED
      BY <2>1
  <1>3. CASE ~ c.done
    <2>1. Lined(c.spans) /\ (IsLeft(c) \/ IsRight(c))
      BY <1>3 DEF Rests
    <2>2. /\ Placed(c, c.spans) \in Cursors /\ Placed(c, c.spans).spans = c.spans
          /\ Placed(c, c.spans).done = TRUE /\ Placed(c, c.spans).idx = c.idx
      BY <1>1 DEF Placed, Cursors
    <2>3. c.spans # <<>>
      BY <1>1, <2>1 DEF IsLeft, IsRight
    <2>4. InsertStep(c) = Placed(c, c.spans)
      <3>1. CASE c.idx = 0
        <4>1. c.spans[1] = c.elem
          BY <2>1, <3>1 DEF IsLeft, IsRight
        <4>2. PairStep(c, 1) = Placed(c, c.spans)
          BY <4>1, SameMerge DEF PairStep
        <4>. QED
          BY <1>3, <2>3, <3>1, <4>2 DEF InsertStep
      <3>2. CASE c.idx # 0 /\ c.idx = Len(c.spans)
        <4>1. c.spans[c.idx] = c.elem
          BY <2>1, <3>2 DEF IsLeft, IsRight
        <4>2. PairStep(c, c.idx) = Placed(c, c.spans)
          BY <4>1, SameMerge DEF PairStep
        <4>. QED
          BY <1>3, <2>3, <3>2, <4>2 DEF InsertStep
      <3>3. CASE c.idx # 0 /\ c.idx # Len(c.spans)
        <4> DEFINE m == Coalesce(c.elem, c.spans[c.idx], c.spans[c.idx + 1])
        <4>1. c.idx \in 1 .. Len(c.spans) - 1
          BY <1>1, <3>3
        <4>2. MergeRight(c.spans[c.idx], c.spans[c.idx + 1]).kind = "UnMerged"
          BY <2>1, <4>1, LinedUnMerged
        <4>3. CASE c.spans[c.idx] = c.elem
          <5>1. m.left.kind = "Identity" /\ m.left.span = c.spans[c.idx]
            BY <4>3, SameMerge DEF Coalesce
          <5>2. m.right.kind = "UnMerged"
            BY <4>2, <5>1 DEF Coalesce
          <5> HIDE DEF m
          <5>3. TripleStep(c) = Placed(c, c.spans)
            BY <5>1, <5>2 DEF TripleStep, m
          <5>. QED
            BY <1>3, <2>3, <3>3, <5>3 DEF InsertStep
        <4>4. CASE c.spans[c.idx + 1] = c.elem
          <5>1. m.left.kind = "UnMerged"
            BY <4>2, <4>4 DEF Coalesce
          <5>2. m.right.kind = "Identity"
            BY <4>4, <5>1, SameMerge DEF Coalesce
          <5> HIDE DEF m
          <5>3. TripleStep(c) = Placed(c, c.spans)
            BY <5>1, <5>2 DEF TripleStep, m
          <5>. QED
            BY <1>3, <2>3, <3>3, <5>3 DEF InsertStep
        <4>. QED
          BY <2>1, <4>3, <4>4 DEF IsLeft, IsRight
      <3>. QED
        BY <3>1, <3>2, <3>3
    <2>. QED
      BY <1>1, <2>2, <2>4 DEF Rests
  <1>. QED
    BY <1>1, <1>2, <1>3

\* When it rests after the first turn, that turn is all insert() does.
LEMMA FirstTurnDecides ==
  ASSUME NEW s, Len(s) \in Nat, NEW e, NEW c,
         c = InsertStep(Placing(s, e, InsertionPoint(s, e))), Rests(c)
  PROVE  Insert(s, e) = c.spans
  <1> DEFINE n == Len(s) + 3
             first == Placing(s, e, InsertionPoint(s, e))
             g == CHOOSE g : Turns(g, n, first)
             Bad == {k \in Nat : k \in 1 .. n /\ ~ (Rests(g[1 .. k]) /\ g[1 .. k].spans = c.spans)}
  <1>1. n \in Nat /\ n >= 1
    OBVIOUS
  <1>2. Turns(g, n, first)
    <2> HIDE DEF n, first
    <2>1. \E h : Turns(h, n, first)
      BY <1>1, TurnsExist
    <2>. QED
      BY <2>1
  <1>3. InsertRun(s, e) = g[1 .. n]
    BY RunIsFold
  <1> HIDE DEF g
  <1>4. \A t \in SUBSET (1 .. n) : g[t] = IF t = {} THEN first ELSE InsertStep(g[t \ {Max(t)}])
    <2> HIDE DEF n, first
    <2>. QED
      BY <1>2, TurnOfTurns
  <1>5. c = InsertStep(first)
    OBVIOUS
  <1> HIDE DEF n, first
  <1>6. ASSUME NEW k \in 1 .. n
        PROVE  g[1 .. k] = InsertStep(IF k = 1 THEN first ELSE g[1 .. k - 1])
    <2>1. 1 .. k \in SUBSET (1 .. n) /\ k \in 1 .. k /\ (1 .. k) \ {k} = 1 .. k - 1 /\ k \in Nat
      BY <1>1
    <2>2. Max(1 .. k) = k
      BY <2>1, LastTurn
    <2>3. g[1 .. k] = InsertStep(g[1 .. k - 1])
      BY <1>4, <2>1, <2>2
    <2>4. k = 1 => 1 .. k - 1 = {} /\ {} \in SUBSET (1 .. n)
      OBVIOUS
    <2>5. k = 1 => g[1 .. k - 1] = first
      BY <1>4, <2>4
    <2>. QED
      BY <2>3, <2>5
  <1>7. Bad = {}
    <2> SUFFICES ASSUME Bad # {} PROVE FALSE
      OBVIOUS
    <2>0. Bad \in SUBSET Nat
      OBVIOUS
    <2> HIDE DEF Bad
    <2>1. PICK k \in Bad : \A m \in Bad : k <= m
      BY <2>0, SmallestNumber
    <2>2. k \in 1 .. n /\ k \in Nat /\ ~ (Rests(g[1 .. k]) /\ g[1 .. k].spans = c.spans)
      BY <2>1 DEF Bad
    <2>3. CASE k = 1
      BY <1>5, <1>6, <2>2, <2>3
    <2>4. CASE k # 1
      <3>1. k - 1 \in 1 .. n /\ k - 1 \in Nat /\ k - 1 \notin Bad
        <4>1. k - 1 \in Bad => k <= k - 1
          BY <2>1
        <4>. QED
          BY <1>1, <2>2, <2>4, <4>1
      <3>2. Rests(g[1 .. k - 1]) /\ g[1 .. k - 1].spans = c.spans
        BY <3>1 DEF Bad
      <3>3. Rests(InsertStep(g[1 .. k - 1])) /\ InsertStep(g[1 .. k - 1]).spans = c.spans
        BY <3>2, RestStays
      <3>4. g[1 .. k] = InsertStep(g[1 .. k - 1])
        BY <1>6, <2>2, <2>4
      <3>. QED
        BY <2>2, <3>3, <3>4
    <2>. QED
      BY <2>3, <2>4
  <1>8. n \in 1 .. n /\ n \in Nat
    BY <1>1
  <1>9. g[1 .. n].spans = c.spans
    <2>1. n \notin Bad
      BY <1>7
    <2>. QED
      BY <1>8, <2>1
  <1>. QED
    BY <1>3, <1>9 DEF Insert

LEMMA MergeOutcomes ==
  ASSUME NEW l \in Spans, NEW r \in Spans
  PROVE  \/ Merge(l, r).kind = "Identity" /\ l = r
         \/ /\ Merge(l, r).kind = "Merged" /\ l # r
            /\ Merge(l, r).span \in Spans
            /\ Merge(l, r).span.start = IF l.start <= r.start THEN l.start ELSE r.start
            /\ Merge(l, r).span.end = IF l.end >= r.end THEN l.end ELSE r.end
         \/ /\ Merge(l, r).kind = "UnMerged" /\ l # r
            /\ l.end + 1 < r.start \/ r.end + 1 < l.start
  <1>1. /\ l.start \in Nat /\ l.end \in Nat /\ l.start < l.end
        /\ r.start \in Nat /\ r.end \in Nat /\ r.start < r.end
    BY DEF Spans
  <1>2. CASE l = r
    BY <1>2, SameMerge
  <1>3. CASE l # r /\ l.start <= r.start /\ l.end + 1 >= r.start
    <2>1. MergeRight(l, r) = [kind |-> "Merged", span |-> Hull(l, r)]
      BY <1>3 DEF MergeRight
    <2>2. Merge(l, r) = [kind |-> "Merged", span |-> Hull(l, r)]
      BY <2>1 DEF Merge
    <2>. QED
      BY <1>1, <1>3, <2>2, HullOfTwo
  <1>4. CASE l # r /\ ~ (l.start <= r.start /\ l.end + 1 >= r.start)
    <2>1. MergeRight(l, r) = [kind |-> "UnMerged", span |-> l]
      BY <1>4 DEF MergeRight
    <2>2. CASE r.start <= l.start /\ r.end + 1 >= l.start
      <3>1. MergeRight(r, l) = [kind |-> "Merged", span |-> Hull(r, l)]
        BY <1>4, <2>2 DEF MergeRight
      <3>2. Merge(l, r) = [kind |-> "Merged", span |-> Hull(r, l)]
        BY <2>1, <3>1 DEF Merge
      <3>3. /\ Hull(r, l) \in Spans /\ Hull(r, l).start = r.start
            /\ Hull(r, l).end = IF r.end >= l.end THEN r.end ELSE l.end
        BY <2>2, HullOfTwo
      <3>. QED
        BY <1>1, <1>4, <2>2, <3>2, <3>3
    <2>3. CASE ~ (r.start <= l.start /\ r.end + 1 >= l.start)
      <3>1. MergeRight(r, l) = [kind |-> "UnMerged", span |-> r]
        BY <1>4, <2>3 DEF MergeRight
      <3>2. Merge(l, r) = [kind |-> "UnMerged", span |-> l]
        BY <2>1, <3>1 DEF Merge
      <3>. QED
        BY <1>1, <1>4, <2>3, <3>2
    <2>. QED
      BY <2>2, <2>3
  <1>. QED
    BY <1>2, <1>3, <1>4

\* After its first turn the loop that inserts a line rests, and the list is tidy.
AfterTurn(c) == Tidy(c.spans) /\ (c.done \/ IsLeft(c) \/ IsRight(c))

LEMMA PlacedAfter ==
  ASSUME NEW s, NEW e, NEW i, NEW t, Tidy(t)
  PROVE  AfterTurn(Placed(Placing(s, e, i), t))
  BY DEF AfterTurn, Placed, Placing

LEMMA MovedAfter ==
  ASSUME NEW s, NEW e, NEW i, NEW t, Tidy(t), NEW h, NEW j \in Nat,
         \/ j > 0 /\ t[j] = h
         \/ j < Len(t) /\ t[j + 1] = h
  PROVE  AfterTurn(MovedOn(Placing(s, e, i), t, h, j))
  BY DEF AfterTurn, MovedOn, Placing, IsLeft, IsRight

LEMMA FirstTurnTidy ==
  ASSUME NEW s, Lined(s), NEW k \in Lines, NEW i, SplitAt(s, LineAt(k), i)
  PROVE  AfterTurn(InsertStep(Placing(s, LineAt(k), i)))
  <1> DEFINE e == LineAt(k)
             p == Placing(s, e, i)
             c == InsertStep(p)
  <1>1. p.spans = s /\ p.elem = e /\ p.idx = i /\ p.done = FALSE
    BY DEF Placing
  <1>2. k \in Nat /\ 2 * k + 2 <= 2 * MaxLines /\ MaxLines \in Nat
    BY TailedFileAssumption DEF Lines
  <1>3. e.start = 2 * k /\ e.end = 2 * k + 2 /\ e \in Spans /\ e \in FileSpans
        /\ e.start \in Nat /\ e.end \in Nat /\ e.end = e.start + 2 /\ ~ Feed(e.start)
    <2>1. e.start = 2 * k /\ e.end = 2 * k + 2 /\ e \in Spans
      BY <1>2, LineIsWhole
    <2>2. e \in FileSpans
      BY <1>2 DEF LineAt, Span, FileSpans, SpansUpTo
    <2>3. ~ Feed(2 * k)
      BY <1>2 DEF Feed
    <2>. QED
      BY <1>2, <2>1, <2>2, <2>3
  <1>4. Apart(s) /\ Tidy(s) /\ s \in Seq(FileSpans)
    BY TidyIsApart DEF Lined, Tidy, FileSpans
  <1>5. Len(s) \in Nat /\ i \in 0 .. Len(s)
    BY <1>4 DEF SplitAt, Apart
  <1>6. \A j \in 1 .. Len(s) : /\ s[j] \in Spans /\ s[j].start \in Nat /\ s[j].end \in Nat
                               /\ s[j].start + 2 <= s[j].end /\ s[j].end <= 2 * MaxLines
    <2> SUFFICES ASSUME NEW j \in 1 .. Len(s) PROVE s[j].start + 2 <= s[j].end
      BY <1>4 DEF Apart
    <2>1. s[j].start \in Nat /\ s[j].end \in Nat /\ s[j].start < s[j].end
          /\ ~ Feed(s[j].start) /\ ~ Feed(s[j].end)
      BY <1>4 DEF Apart, Lined, EvenBounds
    <2>. QED
      BY <2>1 DEF Feed
  <1>7. \A j, m \in 1 .. Len(s) : j < m => s[j].end < s[m].start
    BY <1>4 DEF Apart
  <1>8. (\A j \in 1 .. i : s[j].start < e.start) /\ (\A j \in i + 1 .. Len(s) : e.start <= s[j].start)
    BY DEF SplitAt
  <1>9. \A h \in Spans : h.end <= 2 * MaxLines => h \in FileSpans
    BY <1>2 DEF Spans, FileSpans, SpansUpTo
  <1> HIDE DEF e
  <1>10. CASE s = <<>>
    <2>1. c = Placed(p, <<e>>)
      BY <1>1, <1>10 DEF InsertStep
    <2>2. Tidy(<<e>>)
      BY <1>3 DEF Tidy, FileSpans
    <2>. QED
      BY <2>1, <2>2, PlacedAfter DEF e
  <1>11. CASE s # <<>> /\ i = 0
    <2> DEFINE a == s[1]
               m == Merge(a, e)
    <2>1. Len(s) > 0 /\ 1 \in 1 .. Len(s) /\ 1 \in 1 .. Len(s) + 1 /\ 1 \in i + 1 .. Len(s)
      BY <1>4, <1>5, <1>11, EmptySeq
    <2>2. a \in Spans /\ e.start <= a.start /\ a.start \in Nat /\ a.end \in Nat /\ a.start + 2 <= a.end
          /\ a.end <= 2 * MaxLines
      BY <1>6, <1>8, <2>1
    <2>3. c = PairStep(p, 1)
      BY <1>1, <1>11 DEF InsertStep
    <2>4. \/ m.kind = "Identity" /\ a = e
          \/ /\ m.kind = "Merged" /\ a # e /\ m.span \in Spans
             /\ m.span.start = IF a.start <= e.start THEN a.start ELSE e.start
             /\ m.span.end = IF a.end >= e.end THEN a.end ELSE e.end
          \/ /\ m.kind = "UnMerged" /\ a # e
             /\ a.end + 1 < e.start \/ e.end + 1 < a.start
      BY <1>3, <2>2, MergeOutcomes
    <2> HIDE DEF m
    <2>5. CASE m.kind = "Identity"
      <3>1. c = Placed(p, s)
        BY <1>1, <2>3, <2>5 DEF PairStep, m
      <3>. QED
        BY <1>4, <3>1, PlacedAfter DEF e
    <2>6. CASE m.kind = "Merged"
      <3>1. c = Placed(p, ReplaceAt(s, 1, m.span))
        BY <1>1, <2>3, <2>6 DEF PairStep, m
      <3>2. m.span \in Spans /\ m.span.end = a.end
        BY <1>3, <2>2, <2>4, <2>6
      <3>3. m.span \in FileSpans
        BY <1>9, <2>2, <3>2
      <3>4. 1 < Len(s) => m.span.end < s[1 + 1].start
        BY <1>5, <1>7, <3>2
      <3>5. Tidy(ReplaceAt(s, 1, m.span))
        BY <1>4, <2>1, <3>3, <3>4, TidyReplaced
      <3>. QED
        BY <3>1, <3>5, PlacedAfter DEF e
    <2>7. CASE m.kind = "UnMerged"
      <3>1. c = Placed(p, InsertAt(s, 1, e))
        BY <1>1, <1>11, <2>3, <2>7 DEF PairStep, m
      <3>2. e.end < a.start
        BY <1>3, <2>2, <2>4, <2>7
      <3>3. Tidy(InsertAt(s, 1, e))
        BY <1>3, <1>4, <2>1, <3>2, TidyInserted
      <3>. QED
        BY <3>1, <3>3, PlacedAfter DEF e
    <2>. QED
      BY <2>4, <2>5, <2>6, <2>7
  <1>12. CASE s # <<>> /\ i # 0 /\ i = Len(s)
    <2> DEFINE a == s[i]
               m == Merge(a, e)
    <2>1. Len(s) > 0 /\ i \in 1 .. Len(s) /\ i + 1 \in 1 .. Len(s) + 1 /\ i \in 1 .. i
          /\ (i + 1) - 1 = i /\ ~ (i + 1 <= Len(s)) /\ ~ (i < Len(s))
      BY <1>5, <1>12
    <2>2. a \in Spans /\ a.start < e.start /\ a.start \in Nat /\ a.end \in Nat /\ a.start + 2 <= a.end
          /\ a.end <= 2 * MaxLines
      BY <1>6, <1>8, <2>1
    <2>3. c = PairStep(p, i)
      BY <1>1, <1>12 DEF InsertStep
    <2>4. \/ m.kind = "Identity" /\ a = e
          \/ /\ m.kind = "Merged" /\ a # e /\ m.span \in Spans
             /\ m.span.start = IF a.start <= e.start THEN a.start ELSE e.start
             /\ m.span.end = IF a.end >= e.end THEN a.end ELSE e.end
          \/ /\ m.kind = "UnMerged" /\ a # e
             /\ a.end + 1 < e.start \/ e.end + 1 < a.start
      BY <1>3, <2>2, MergeOutcomes
    <2> HIDE DEF m
    <2>5. CASE m.kind = "Identity"
      <3>1. c = Placed(p, s)
        BY <1>1, <2>3, <2>5 DEF PairStep, m
      <3>. QED
        BY <1>4, <3>1, PlacedAfter DEF e
    <2>6. CASE m.kind = "Merged"
      <3>1. c = Placed(p, ReplaceAt(s, i, m.span))
        BY <1>1, <2>3, <2>6 DEF PairStep, m
      <3>2. m.span \in Spans /\ m.span.start = a.start /\ m.span.end <= 2 * MaxLines
        BY <1>2, <1>3, <2>2, <2>4, <2>6
      <3>3. m.span \in FileSpans
        BY <1>9, <3>2
      <3>4. i > 1 => s[i - 1].end < m.span.start
        <4>1. i > 1 => i - 1 \in 1 .. Len(s) /\ i - 1 < i
          BY <1>5
        <4>. QED
          BY <1>7, <2>1, <3>2, <4>1
      <3>5. Tidy(ReplaceAt(s, i, m.span))
        BY <1>4, <2>1, <3>3, <3>4, TidyReplaced
      <3>. QED
        BY <3>1, <3>5, PlacedAfter DEF e
    <2>7. CASE m.kind = "UnMerged"
      <3>1. c = Placed(p, InsertAt(s, i + 1, e))
        BY <1>1, <2>3, <2>7 DEF PairStep, m
      <3>2. a.end < e.start
        BY <1>3, <2>2, <2>4, <2>7
      <3>3. Tidy(InsertAt(s, i + 1, e))
        BY <1>3, <1>4, <2>1, <3>2, TidyInserted
      <3>. QED
        BY <3>1, <3>3, PlacedAfter DEF e
    <2>. QED
      BY <2>4, <2>5, <2>6, <2>7
  <1>13. CASE s # <<>> /\ i # 0 /\ i # Len(s)
    <2> DEFINE a == s[i]
               b == s[i + 1]
               m == Coalesce(e, a, b)
               l == MergeRight(a, e)
               r == MergeRight(IF l.kind = "UnMerged" THEN e ELSE l.span, b)
    <2>1. i \in 1 .. Len(s) - 1 /\ i \in 1 .. Len(s) /\ i + 1 \in 1 .. Len(s) /\ i < i + 1
          /\ i \in 1 .. i /\ i + 1 \in i + 1 .. Len(s) /\ i \in Nat /\ i > 0
          /\ i + 1 > 1 /\ (i + 1) - 1 = i /\ i < Len(s) /\ i + 1 \in 1 .. Len(s) + 1
      BY <1>5, <1>13
    <2>2. /\ a \in Spans /\ a.start < e.start /\ a.start \in Nat /\ a.end \in Nat
          /\ a.start + 2 <= a.end /\ a.end <= 2 * MaxLines
          /\ b \in Spans /\ e.start <= b.start /\ b.start \in Nat /\ b.end \in Nat
          /\ b.start + 2 <= b.end /\ b.end <= 2 * MaxLines /\ a.end < b.start
      BY <1>6, <1>7, <1>8, <2>1
    <2>3. c = TripleStep(p)
      BY <1>1, <1>13 DEF InsertStep
    <2>4. m.left = l /\ m.right = r
      BY DEF Coalesce
    <2>5. i > 1 => s[i - 1].end < a.start
      <3>1. i > 1 => i - 1 \in 1 .. Len(s) /\ i - 1 < i
        BY <1>5
      <3>. QED
        BY <1>7, <2>1, <3>1
    <2>6. i + 1 < Len(s) => b.end < s[i + 2].start
      <3>1. i + 1 < Len(s) => i + 2 \in 1 .. Len(s) /\ i + 1 < i + 2
        BY <1>5
      <3>. QED
        BY <1>7, <2>1, <3>1
    <2>7. \/ l.kind = "Identity" /\ l.span = a /\ a = e
          \/ /\ l.kind = "Merged" /\ l.span = Hull(a, e)
             /\ a # e /\ a.start <= e.start /\ a.end + 1 >= e.start
          \/ /\ l.kind = "UnMerged" /\ l.span = a
             /\ a # e /\ ~ (a.start <= e.start /\ a.end + 1 >= e.start)
      BY <1>3, <2>2, MergeRightOutcomes
    <2>8. CASE l.kind = "Merged"
      <3> DEFINE h == l.span
      <3>1. h \in Spans /\ h.start = a.start /\ h.end = IF a.end >= e.end THEN a.end ELSE e.end
        BY <1>3, <2>2, <2>7, <2>8, HullOfTwo
      <3>2. h.start \in Nat /\ h.end \in Nat /\ h.start < b.start /\ h.end <= b.end
            /\ h.end <= 2 * MaxLines
        BY <1>2, <1>3, <2>2, <3>1
      <3>3. r = MergeRight(h, b)
        BY <2>8
      <3> HIDE DEF h, l
      <3>4. \/ r.kind = "Identity" /\ r.span = h /\ h = b
            \/ /\ r.kind = "Merged" /\ r.span = Hull(h, b)
               /\ h # b /\ h.start <= b.start /\ h.end + 1 >= b.start
            \/ /\ r.kind = "UnMerged" /\ r.span = h
               /\ h # b /\ ~ (h.start <= b.start /\ h.end + 1 >= b.start)
        BY <2>2, <3>1, <3>3, MergeRightOutcomes
      <3> HIDE DEF r
      <3>5. CASE r.kind = "Merged"
        <4>1. r.span \in Spans /\ r.span.start = a.start /\ r.span.end = b.end
          BY <2>2, <3>1, <3>2, <3>4, <3>5, HullOfTwo
        <4>2. r.span \in FileSpans
          BY <1>9, <2>2, <4>1
        <4>3. c = MovedOn(p, RemoveAt(ReplaceAt(s, i, r.span), i + 1), r.span, i)
          BY <1>1, <2>3, <2>4, <2>8, <3>5 DEF TripleStep
        <4>4. /\ Tidy(RemoveAt(ReplaceAt(s, i, r.span), i + 1))
              /\ RemoveAt(ReplaceAt(s, i, r.span), i + 1)[i] = r.span
          BY <1>4, <2>1, <2>5, <2>6, <4>1, <4>2, TidyAbsorbed
        <4>. QED
          BY <2>1, <4>3, <4>4, MovedAfter DEF e
      <3>6. CASE r.kind = "UnMerged"
        <4>1. h.end < b.start
          BY <2>2, <3>2, <3>4, <3>6
        <4>2. h \in FileSpans
          BY <1>9, <3>1, <3>2
        <4>3. c = MovedOn(p, ReplaceAt(s, i, h), h, i - 1)
          BY <1>1, <2>3, <2>4, <2>8, <3>6 DEF TripleStep, h
        <4>4. /\ Tidy(ReplaceAt(s, i, h)) /\ Len(ReplaceAt(s, i, h)) = Len(s)
              /\ ReplaceAt(s, i, h)[i] = h
          BY <1>4, <2>1, <2>5, <3>1, <4>1, <4>2, TidyReplaced
        <4>5. i - 1 \in Nat /\ (i - 1) + 1 = i /\ i - 1 < Len(s)
          BY <2>1
        <4>. QED
          BY <4>3, <4>4, <4>5, MovedAfter DEF e
      <3>7. r.kind # "Identity"
        BY <2>2, <3>2, <3>4
      <3>. QED
        BY <3>4, <3>5, <3>6, <3>7
    <2>9. CASE l.kind = "UnMerged"
      <3>1. r = MergeRight(e, b) /\ a.end < e.start
        BY <1>3, <2>2, <2>7, <2>9
      <3> HIDE DEF l
      <3>2. \/ r.kind = "Identity" /\ r.span = e /\ e = b
            \/ /\ r.kind = "Merged" /\ r.span = Hull(e, b)
               /\ e # b /\ e.start <= b.start /\ e.end + 1 >= b.start
            \/ /\ r.kind = "UnMerged" /\ r.span = e
               /\ e # b /\ ~ (e.start <= b.start /\ e.end + 1 >= b.start)
        BY <1>3, <2>2, <3>1, MergeRightOutcomes
      <3> HIDE DEF r
      <3>3. CASE r.kind = "Identity"
        <4>1. c = Placed(p, s)
          BY <1>1, <2>3, <2>4, <2>9, <3>3 DEF TripleStep
        <4>. QED
          BY <1>4, <4>1, PlacedAfter DEF e
      <3>4. CASE r.kind = "Merged"
        <4>1. r.span \in Spans /\ r.span.start = e.start /\ r.span.end = b.end
          BY <1>3, <2>2, <3>2, <3>4, HullOfTwo
        <4>2. r.span \in FileSpans
          BY <1>9, <2>2, <4>1
        <4>3. c = MovedOn(p, ReplaceAt(s, i + 1, r.span), r.span, i)
          BY <1>1, <2>3, <2>4, <2>9, <3>4 DEF TripleStep
        <4>4. s[(i + 1) - 1].end < r.span.start
              /\ (i + 1 < Len(s) => r.span.end < s[(i + 1) + 1].start)
          <5>1. (i + 1) + 1 = i + 2
            BY <2>1
          <5>. QED
            BY <2>1, <2>6, <3>1, <4>1, <5>1
        <4>5. /\ Tidy(ReplaceAt(s, i + 1, r.span)) /\ Len(ReplaceAt(s, i + 1, r.span)) = Len(s)
              /\ ReplaceAt(s, i + 1, r.span)[i + 1] = r.span
          BY <1>4, <2>1, <4>2, <4>4, TidyReplaced
        <4>. QED
          BY <2>1, <4>3, <4>5, MovedAfter DEF e
      <3>5. CASE r.kind = "UnMerged"
        <4>1. e.end < b.start
          BY <1>3, <2>2, <3>2, <3>5
        <4>2. c = Placed(p, InsertAt(s, i + 1, e))
          BY <1>1, <2>3, <2>4, <2>9, <3>5 DEF TripleStep
        <4>3. Tidy(InsertAt(s, i + 1, e))
          BY <1>3, <1>4, <2>1, <3>1, <4>1, TidyInserted
        <4>. QED
          BY <4>2, <4>3, PlacedAfter DEF e
      <3>. QED
        BY <3>2, <3>3, <3>4, <3>5
    <2>10. l.kind # "Identity"
      BY <1>3, <2>2, <2>7
    <2>. QED
      BY <2>7, <2>8, <2>9, <2>10
  <1>. QED
    BY <1>10, <1>11, <1>12, <1>13

\* insert() of a line into a list of lines adds the line, and the list is one of
\* lines again.
InsertsLine(s, k) ==
    /\ Lined(Insert(s, LineAt(k)))
    /\ Covered(Insert(s, LineAt(k))) = Covered(s) \cup SpanBytes(LineAt(k))

LEMMA LineInserted ==
  ASSUME NEW s, Lined(s), NEW k \in Lines
  PROVE  InsertsLine(s, k)
  <1> DEFINE e == LineAt(k)
             i == InsertionPoint(s, e)
             p == Placing(s, e, i)
             I == Covered(s) \cup SpanBytes(e)
             n == Len(s) + 3
  <1>1. s \in Lists /\ Len(s) \in Nat /\ k \in Nat
    BY ApartIsList, TailedFileAssumption DEF Lined, Lists, Lines
  <1>2. e \in Spans /\ SpanBytes(e) \in SUBSET Nat /\ WholeSet(SpanBytes(e))
    BY <1>1, LineIsWhole
  <1>3. SplitAt(s, e, i)
    BY <1>1, <1>2, PointSplits
  <1>4. AfterTurn(InsertStep(p))
    BY <1>3, FirstTurnTidy
  <1>5. WholeSet(I) /\ I \in SUBSET Nat
    BY <1>2, LinedCoversWhole, WholeRest
  <1> HIDE DEF e, I
  <1>6. i \in Nat /\ i <= Len(s) /\ n \in Nat /\ Len(s) + 2 <= n
    BY <1>1, <1>3 DEF SplitAt
  <1>7. Turning(p, I, n)
    <2> HIDE DEF i, n
    <2>1. /\ p \in Cursors /\ p.spans = s /\ p.elem = e /\ p.idx = i /\ p.done = FALSE
      BY <1>1, <1>2, <1>6 DEF Placing, Cursors
    <2>2. Unplaced(p)
      BY <1>3, <2>1 DEF Unplaced, SplitAt
    <2>3. Agrees(Covered(p.spans) \cup SpanBytes(p.elem), I)
      BY <2>1 DEF Agrees, I
    <2>. QED
      BY <1>6, <2>1, <2>2, <2>3 DEF Turning
  <1> HIDE DEF p
  <1>8. PICK c : c = InsertStep(p)
    OBVIOUS
  <1>9. Turning(c, I, n - 1)
    <2> HIDE DEF n
    <2>1. n \in Int
      BY <1>6
    <2>. QED
      BY <1>7, <1>8, <2>1, InsertTurn
  <1>10. c \in Cursors /\ c.idx <= Len(c.spans) /\ Agrees(Covered(c.spans), I)
    <2>1. c \in Cursors /\ c.idx <= Len(c.spans) /\ c.done \in BOOLEAN
      BY <1>9 DEF Turning, Cursors
    <2>2. CASE c.done
      BY <1>9, <2>1, <2>2 DEF Turning
    <2>3. CASE ~ c.done
      <3>1. Covered(c.spans) \cup SpanBytes(c.elem) = Covered(c.spans)
        BY <1>4, <1>8, <2>1, <2>3, FoundCovers DEF AfterTurn
      <3>2. Agrees(Covered(c.spans) \cup SpanBytes(c.elem), I)
        BY <1>9, <2>3 DEF Turning
      <3>. QED
        BY <2>1, <3>1, <3>2
    <2>. QED
      BY <2>2, <2>3
  <1>11. Covered(c.spans) = I
    <2>1. \A b \in Covered(c.spans) \ I : b - 1 \in I /\ b + 1 \in I
      BY <1>10 DEF Agrees
    <2>2. ASSUME NEW b \in Covered(c.spans), b \notin I PROVE FALSE
      <3>1. b - 1 \in I /\ b + 1 \in I
        BY <2>1, <2>2
      <3>2. b \in Nat
        <4>1. Apart(c.spans)
          BY <1>4, <1>8, TidyIsApart DEF AfterTurn
        <4>. QED
          BY <2>2, <4>1, ApartCovers
      <3>3. /\ Feed(b) => ~ Feed(b - 1) /\ (b - 1) + 1 = b
            /\ ~ Feed(b) => Feed(b + 1) /\ (b + 1) - 1 = b
        BY <3>2 DEF Feed
      <3>. QED
        BY <1>5, <2>2, <3>1, <3>3 DEF WholeSet
    <2>. QED
      BY <1>10, <2>2 DEF Agrees
  <1>12. Lined(c.spans)
    BY <1>4, <1>5, <1>8, <1>11, WholeIsLined DEF AfterTurn
  <1>13. Rests(c)
    BY <1>4, <1>8, <1>10, <1>12 DEF Rests, AfterTurn
  <1>14. Insert(s, e) = c.spans
    BY <1>1, <1>8, <1>13, FirstTurnDecides DEF p
  <1>. QED
    BY <1>11, <1>12, <1>14 DEF InsertsLine, e, I

\* The list of a reader that has gone straight on: one span from the start.
From0(o) == IF o = 0 THEN <<>> ELSE <<Span(0, o)>>

LEMMA From0IsList ==
  ASSUME NEW o \in Nat
  PROVE  From0(o) \in Lists /\ Len(From0(o)) = IF o = 0 THEN 0 ELSE 1
  <1>1. CASE o = 0
    <2>1. From0(o) = <<>> /\ <<>> \in Seq(Spans) /\ Len(<<>>) = 0
      BY <1>1 DEF From0
    <2>2. \A i \in 1 .. 0 : FALSE
      OBVIOUS
    <2>3. Ordered(<<>>)
      BY <2>1, <2>2 DEF Ordered
    <2>4. <<>> \in Lists
      BY <2>1, <2>3 DEF Lists
    <2>. QED
      BY <1>1, <2>1, <2>4
  <1>2. CASE o # 0
    <2>1. Span(0, o) \in Spans
      BY <1>2 DEF Span, Spans
    <2>2. From0(o) = <<Span(0, o)>> /\ <<Span(0, o)>> \in Seq(Spans) /\ Len(<<Span(0, o)>>) = 1
      BY <1>2, <2>1 DEF From0
    <2>. QED
      BY <1>2, <2>2 DEF Lists, Ordered
  <1>. QED
    BY <1>1, <1>2

LEMMA TailInserted ==
  ASSUME NEW o \in Nat, NEW b \in Nat, NEW a \in Nat, b <= o, o < a
  PROVE  Insert(From0(o), Span(b, a)) = From0(a)
  <1> DEFINE s == From0(o)
             e == Span(b, a)
             i == InsertionPoint(s, e)
             p == Placing(s, e, i)
             c == InsertStep(p)
  <1>1. s \in Lists /\ Len(s) = (IF o = 0 THEN 0 ELSE 1) /\ Len(s) \in Nat
    BY From0IsList
  <1>2. e \in Spans /\ e.start = b /\ e.end = a
    BY DEF Span, Spans
  <1>3. SplitAt(s, e, i)
    BY <1>1, <1>2, PointSplits
  <1>4. i \in 0 .. Len(s) /\ i \in Nat
    BY <1>1, <1>3 DEF SplitAt
  <1>5. From0(a) = <<Span(0, a)>> /\ From0(a) \in Lists /\ Len(From0(a)) = 1
    BY From0IsList DEF From0
  <1> HIDE DEF i
  <1>6. /\ p \in Cursors /\ p.spans = s /\ p.elem = e /\ p.idx = i /\ p.done = FALSE
    BY <1>1, <1>2, <1>4 DEF Placing, Cursors
  <1>7. c = Placed(p, From0(a))
    <2>1. CASE o = 0
      <3>1. s = <<>> /\ e = Span(0, a)
        BY <2>1 DEF From0
      <3>. QED
        BY <1>5, <1>6, <3>1 DEF InsertStep
    <2>2. CASE o # 0
      <3>1. s = <<Span(0, o)>> /\ s[1] = Span(0, o) /\ Len(s) = 1 /\ s # <<>>
        BY <2>2 DEF From0
      <3> DEFINE m == Merge(s[1], e)
      <3>2. s[1] \in Spans /\ s[1].start = 0 /\ s[1].end = o
        BY <2>2, <3>1 DEF Span, Spans
      <3>3. m.kind = "Merged" /\ m.span = Span(0, a)
        <4>1. s[1] # e /\ s[1].start <= e.start /\ s[1].end + 1 >= e.start
          BY <1>2, <3>2
        <4>2. MergeRight(s[1], e) = [kind |-> "Merged", span |-> Hull(s[1], e)]
          BY <4>1 DEF MergeRight
        <4>3. m = [kind |-> "Merged", span |-> Hull(s[1], e)]
          BY <4>2 DEF Merge
        <4>4. Hull(s[1], e).start = 0 /\ Hull(s[1], e).end = a
          BY <1>2, <3>2, <4>1, HullOfTwo
        <4>5. Hull(s[1], e) = Span(0, a)
          BY <4>4 DEF Hull, Span
        <4>. QED
          BY <4>3, <4>5
      <3> HIDE DEF m, s
      <3>4. PairStep(p, 1) = Placed(p, ReplaceAt(s, 1, Span(0, a)))
        BY <1>6, <3>3 DEF PairStep, m
      <3>5. ReplaceAt(s, 1, Span(0, a)) = From0(a)
        BY <1>5, <3>1 DEF ReplaceAt
      <3>6. i = 0 \/ i = 1
        BY <1>4, <3>1
      <3> HIDE DEF p
      <3>7. c = PairStep(p, 1)
        BY <1>6, <3>1, <3>6 DEF InsertStep
      <3>. QED
        BY <3>4, <3>5, <3>7
    <2>. QED
      BY <2>1, <2>2
  <1> HIDE DEF p, c
  <1>8. c \in Cursors /\ c.spans = From0(a) /\ c.done = TRUE /\ c.idx = i
    BY <1>5, <1>6, <1>7 DEF Placed, Cursors
  <1>9. Rests(c)
    <2>1. i <= Len(From0(a))
      BY <1>1, <1>4, <1>5
    <2>. QED
      BY <1>8, <2>1 DEF Rests
  <1>. QED
    BY <1>1, <1>8, <1>9, FirstTurnDecides DEF c, p, i
---------------------------------------------------------------------------
(* Retry buckets.  What commit() and retry() make of them, and what tail() *)
(* takes out of them, is made of the same lists but for the line at hand.  *)

Bucket(b) == b = [time |-> b.time, retries |-> b.retries, spans |-> b.spans, tried |-> b.tried]
LinedBuckets(bs) ==
    Sequence(bs) /\ \A i \in 1 .. Len(bs) : Bucket(bs[i]) /\ Lined(bs[i].spans)

\* The bytes of the lines that wait.
Waiting(bs) == UNION {Covered(bs[i].spans) : i \in 1 .. Len(bs)}

LEMMA BucketsAt ==
  ASSUME NEW n \in Nat, NEW S \in SUBSET (1 .. n), NEW bs, NEW W,
         \A i \in S : Bucket(bs[i]) /\ Lined(bs[i].spans) /\ Covered(bs[i].spans) \subseteq W
  PROVE  LinedBuckets(At(bs, S)) /\ Waiting(At(bs, S)) \subseteq W
  <1> DEFINE t == At(bs, S)
  <1>1. Sequence(t) /\ \A i \in 1 .. Len(t) : \E k \in S : t[i] = bs[k]
    <2> HIDE DEF t
    <2>1. TakenFrom(At(bs, S), bs, S)
      BY AtPlaces
    <2>2. TakenFrom(t, bs, S)
      BY <2>1 DEF t
    <2>. QED
      BY <2>2 DEF TakenFrom
  <1> HIDE DEF t
  <1>2. \A i \in 1 .. Len(t) : Bucket(t[i]) /\ Lined(t[i].spans) /\ Covered(t[i].spans) \subseteq W
    BY <1>1
  <1>3. LinedBuckets(t) /\ Waiting(t) \subseteq W
    BY <1>1, <1>2 DEF LinedBuckets, Waiting
  <1>. QED
    BY <1>3 DEF t

LEMMA WithoutSpan ==
  ASSUME NEW b, Bucket(b), NEW x
  PROVE  Bucket(Without(b, x)) /\ Without(b, x).spans = RemoveSpan(b.spans, x)
  <1> DEFINE l == RemoveSpan(b.spans, x)
             c == [time |-> b.time, retries |-> b.retries, spans |-> l, tried |-> b.tried]
  <1>1. Without(b, x) = [b EXCEPT !.spans = l]
    BY DEF Without
  <1> HIDE DEF l
  <1>2. [b EXCEPT !.spans = l] = c
    BY DEF Bucket
  <1>3. Bucket(c) /\ c.spans = l
    BY DEF Bucket
  <1>. QED
    BY <1>1, <1>2, <1>3 DEF l

\* An exact removal leaves a list of lines.
LEMMA ExactLeavesLines ==
  ASSUME NEW s, Lined(s), NEW k \in Nat, NEW t, Tidy(t),
         Covered(t) = Covered(s) \ SpanBytes(LineAt(k))
  PROVE  Lined(t)
  <1>1. WholeSet(Covered(s)) /\ Covered(s) \in SUBSET Nat
    BY LinedCoversWhole
  <1>2. WholeSet(SpanBytes(LineAt(k))) /\ SpanBytes(LineAt(k)) \in SUBSET Nat
    BY LineIsWhole
  <1>3. WholeSet(Covered(t))
    BY <1>1, <1>2, WholeRest
  <1>. QED
    BY <1>3, WholeIsLined

LEMMA CommitKeeps ==
  ASSUME NEW bs, LinedBuckets(bs), NEW k \in Lines, Commit(bs, LineAt(k)).exact
  PROVE  /\ LinedBuckets(Commit(bs, LineAt(k)).buckets)
         /\ Waiting(Commit(bs, LineAt(k)).buckets) \subseteq Waiting(bs) \ SpanBytes(LineAt(k))
  <1> DEFINE x == LineAt(k)
             left == [i \in DOMAIN bs |-> Without(bs[i], x)]
             S == {i \in Own(bs) : left[i].spans # <<>>}
             W == Waiting(bs) \ SpanBytes(x)
  <1>1. Len(bs) \in Nat /\ DOMAIN bs = 1 .. Len(bs) /\ k \in Nat
    BY SequenceProperties, TailedFileAssumption DEF LinedBuckets, Lines
  <1>2. Commit(bs, x).buckets = At(left, S) /\ Exact(bs, left, Own(bs), x)
    BY DEF Commit
  <1>3. Own(bs) \in SUBSET (1 .. Len(bs))
    BY <1>1 DEF Own
  <1>4. ASSUME NEW i \in S
        PROVE  Bucket(left[i]) /\ Lined(left[i].spans) /\ Covered(left[i].spans) \subseteq W
    <2>1. i \in 1 .. Len(bs) /\ i \in Own(bs)
      BY <1>3
    <2>2. Bucket(bs[i]) /\ Lined(bs[i].spans)
      BY <2>1 DEF LinedBuckets
    <2>3. left[i] = Without(bs[i], x)
      BY <1>1, <2>1
    <2>4. Tidy(left[i].spans) /\ Covered(left[i].spans) = Covered(bs[i].spans) \ SpanBytes(x)
      BY <1>2, <2>1 DEF Exact
    <2> HIDE DEF left
    <2>5. Lined(left[i].spans)
      BY <1>1, <2>2, <2>4, ExactLeavesLines
    <2>6. Covered(left[i].spans) \subseteq W
      BY <2>1, <2>4 DEF Waiting
    <2>. QED
      BY <2>2, <2>3, <2>5, <2>6, WithoutSpan
  <1>5. S \in SUBSET (1 .. Len(bs))
    BY <1>3
  <1> HIDE DEF left, S, W, x
  <1>6. LinedBuckets(At(left, S)) /\ Waiting(At(left, S)) \subseteq W
    BY <1>1, <1>4, <1>5, BucketsAt
  <1>. QED
    BY <1>2, <1>6 DEF W, x

\* One line as a list.
LEMMA LineAlone ==
  ASSUME NEW k \in Lines
  PROVE  Lined(<<LineAt(k)>>) /\ Covered(<<LineAt(k)>>) = SpanBytes(LineAt(k))
  <1> DEFINE e == LineAt(k)
  <1>1. k \in Nat /\ 2 * k + 2 <= 2 * MaxLines /\ MaxLines \in Nat
    BY TailedFileAssumption DEF Lines
  <1>2. e \in SpansUpTo(2 * MaxLines)
    BY <1>1 DEF LineAt, Span, SpansUpTo
  <1>3. e.start = 2 * k /\ e.end = 2 * k + 2 /\ ~ Feed(2 * k) /\ ~ Feed(2 * k + 2)
    BY <1>1, LineIsWhole DEF Feed
  <1> HIDE DEF e
  <1>4. Tidy(<<e>>)
    BY <1>2 DEF Tidy
  <1>5. EvenBounds(<<e>>)
    BY <1>3 DEF EvenBounds
  <1>6. Covered(<<e>>) = SpanBytes(e)
    BY DEF Covered
  <1>. QED
    BY <1>4, <1>5, <1>6 DEF Lined, e

LEMMA PutOffKeeps ==
  ASSUME NEW bs, LinedBuckets(bs), NEW k \in Lines, NEW time, NEW n, NEW i \in {New} \cup 1 .. Len(bs)
  PROVE  /\ LinedBuckets(PutOff(bs, LineAt(k), time, n, i))
         /\ Waiting(PutOff(bs, LineAt(k), time, n, i)) \subseteq Waiting(bs) \cup SpanBytes(LineAt(k))
  <1> DEFINE x == LineAt(k)
             put == PutOff(bs, x, time, n, i)
             W == Waiting(bs) \cup SpanBytes(x)
  <1>1. Len(bs) \in Nat /\ DOMAIN bs = 1 .. Len(bs) /\ Sequence(bs)
    BY SequenceProperties DEF LinedBuckets
  <1>2. \A j \in 1 .. Len(bs) : Bucket(bs[j]) /\ Lined(bs[j].spans) /\ Covered(bs[j].spans) \subseteq W
    BY DEF LinedBuckets, Waiting
  <1>3. CASE i = New
    <2> DEFINE b == [time |-> time, retries |-> n, spans |-> <<x>>, tried |-> <<>>]
    <2>1. put = Append(bs, b)
      BY <1>3 DEF PutOff
    <2>2. Bucket(b) /\ b.spans = <<x>>
      BY DEF Bucket
    <2>3. Lined(b.spans) /\ Covered(b.spans) \subseteq W
      BY <2>2, LineAlone
    <2> HIDE DEF b, put, W, x
    <2>4. /\ Sequence(put) /\ Len(put) = Len(bs) + 1
          /\ \A j \in 1 .. Len(bs) : put[j] = bs[j]
          /\ put[Len(bs) + 1] = b
      BY <1>1, <2>1, AppendIsSequence
    <2>5. \A j \in 1 .. Len(bs) + 1 : j \in 1 .. Len(bs) \/ j = Len(bs) + 1
      BY <1>1
    <2>6. \A j \in 1 .. Len(put) : Bucket(put[j]) /\ Lined(put[j].spans) /\ Covered(put[j].spans) \subseteq W
      BY <1>2, <2>2, <2>3, <2>4, <2>5
    <2>7. LinedBuckets(put) /\ Waiting(put) \subseteq W
      BY <2>4, <2>6 DEF LinedBuckets, Waiting
    <2>. QED
      BY <2>7 DEF put, W, x
  <1>4. CASE i # New
    <2> DEFINE l == Insert(bs[i].spans, x)
               b == [time |-> bs[i].time, retries |-> bs[i].retries, spans |-> l,
                     tried |-> bs[i].tried]
    <2>1. i \in 1 .. Len(bs)
      BY <1>4
    <2>2. put = [bs EXCEPT ![i].spans = l]
      BY <1>4 DEF PutOff
    <2>3. InsertsLine(bs[i].spans, k)
      BY <1>2, <2>1, LineInserted
    <2>4. Lined(l) /\ Covered(l) \subseteq W
      BY <1>2, <2>1, <2>3 DEF InsertsLine
    <2> HIDE DEF l, W, x
    <2>5. put = [j \in 1 .. Len(bs) |-> IF j = i THEN b ELSE bs[j]]
      BY <1>1, <1>2, <2>1, <2>2 DEF Bucket
    <2>6. Bucket(b) /\ b.spans = l
      BY DEF Bucket
    <2> HIDE DEF b, put
    <2>7. DOMAIN put = 1 .. Len(bs) /\ put = [j \in 1 .. Len(bs) |-> put[j]]
      BY <2>5
    <2>8. Sequence(put) /\ Len(put) = Len(bs)
      BY <1>1, <2>7, FunctionIsSequence
    <2>9. \A j \in 1 .. Len(put) : Bucket(put[j]) /\ Lined(put[j].spans) /\ Covered(put[j].spans) \subseteq W
      BY <1>2, <2>4, <2>5, <2>6, <2>8
    <2>10. LinedBuckets(put) /\ Waiting(put) \subseteq W
      BY <2>8, <2>9 DEF LinedBuckets, Waiting
    <2>. QED
      BY <2>10 DEF put, W, x
  <1>. QED
    BY <1>3, <1>4

LEMMA RetryKeeps ==
  ASSUME NEW bs, LinedBuckets(bs), NEW k \in Lines, NEW i \in {New} \cup 1 .. Len(bs),
         Retry(bs, LineAt(k), i).exact
  PROVE  /\ LinedBuckets(Retry(bs, LineAt(k), i).buckets)
         /\ Waiting(Retry(bs, LineAt(k), i).buckets) \subseteq Waiting(bs) \cup SpanBytes(LineAt(k))
  <1> DEFINE x == LineAt(k)
             n == NextTry(bs, x)
             taken == {j \in DOMAIN bs : Due(bs[j]) /\ ~ContainsSpan(bs[j].tried, x)}
             left == [j \in DOMAIN bs |-> IF j \in taken THEN Without(bs[j], x) ELSE bs[j]]
             put == PutOff(left, x, delay * n, n, i)
             W == Waiting(bs) \cup SpanBytes(x)
  <1>1. Len(bs) \in Nat /\ DOMAIN bs = 1 .. Len(bs) /\ k \in Nat
    BY SequenceProperties, TailedFileAssumption DEF LinedBuckets, Lines
  <1>2. Retry(bs, x, i).buckets = At(put, Own(put)) /\ Exact(bs, left, taken, x)
    BY DEF Retry
  <1>3. DOMAIN left = 1 .. Len(bs) /\ left = [j \in 1 .. Len(bs) |-> left[j]]
    BY <1>1
  <1>4. Sequence(left) /\ Len(left) = Len(bs)
    <2> HIDE DEF left
    <2>. QED
      BY <1>1, <1>3, FunctionIsSequence
  <1>5. ASSUME NEW j \in 1 .. Len(bs)
        PROVE  Bucket(left[j]) /\ Lined(left[j].spans) /\ Covered(left[j].spans) \subseteq Covered(bs[j].spans)
    <2>1. Bucket(bs[j]) /\ Lined(bs[j].spans)
      BY DEF LinedBuckets
    <2>2. CASE j \in taken
      <3>1. left[j] = Without(bs[j], x)
        BY <1>1, <2>2
      <3>2. Tidy(left[j].spans) /\ Covered(left[j].spans) = Covered(bs[j].spans) \ SpanBytes(x)
        BY <1>2, <2>2 DEF Exact
      <3> HIDE DEF left
      <3>3. Lined(left[j].spans)
        BY <1>1, <2>1, <3>2, ExactLeavesLines
      <3>. QED
        BY <2>1, <3>1, <3>2, <3>3, WithoutSpan
    <2>3. CASE j \notin taken
      <3>1. left[j] = bs[j]
        BY <1>1, <2>3
      <3>. QED
        BY <2>1, <3>1
    <2>. QED
      BY <2>2, <2>3
  <1> HIDE DEF left
  <1>6. LinedBuckets(left) /\ Waiting(left) \subseteq Waiting(bs)
    BY <1>4, <1>5 DEF LinedBuckets, Waiting
  <1>7. LinedBuckets(put) /\ Waiting(put) \subseteq W
    BY <1>4, <1>6, PutOffKeeps
  <1> HIDE DEF put, W, x
  <1>8. Len(put) \in Nat /\ DOMAIN put = 1 .. Len(put)
    BY <1>7, SequenceProperties DEF LinedBuckets
  <1>9. Own(put) \in SUBSET (1 .. Len(put))
    BY <1>8 DEF Own
  <1>10. \A j \in Own(put) : Bucket(put[j]) /\ Lined(put[j].spans) /\ Covered(put[j].spans) \subseteq W
    <2>1. \A j \in 1 .. Len(put) : Bucket(put[j]) /\ Lined(put[j].spans) /\ Covered(put[j].spans) \subseteq W
      BY <1>7 DEF LinedBuckets, Waiting
    <2>. QED
      BY <1>9, <2>1
  <1>11. LinedBuckets(At(put, Own(put))) /\ Waiting(At(put, Own(put))) \subseteq W
    BY <1>8, <1>9, <1>10, BucketsAt
  <1>. QED
    BY <1>2, <1>11 DEF W, x

\* A place for the line: a bucket there is, or a new one.
LEMMA PlacesInRange ==
  ASSUME NEW bs, LinedBuckets(bs), NEW time, NEW n
  PROVE  Places(bs, time, n) \subseteq {New} \cup 1 .. Len(bs)
  <1> DEFINE same == {i \in DOMAIN bs : bs[i].time = time /\ bs[i].retries = n}
  <1>1. Len(bs) \in Nat /\ DOMAIN bs = 1 .. Len(bs)
    BY SequenceProperties DEF LinedBuckets
  <1>2. same \in SUBSET Nat /\ same \subseteq 1 .. Len(bs)
    BY <1>1
  <1>3. ASSUME same # {} PROVE Min(same) \in same
    <2> HIDE DEF same
    <2>1. \E m \in same : \A j \in same : m <= j
      BY <1>2, <1>3, SmallestNumber
    <2>. QED
      BY <2>1 DEF Min
  <1>4. \/ Places(bs, time, n) = same \cup {New}
        \/ Places(bs, time, n) = {New}
        \/ same # {} /\ Places(bs, time, n) = {Min(same)}
    BY DEF Places
  <1> HIDE DEF same
  <1>5. CASE Places(bs, time, n) = same \cup {New}
    BY <1>2, <1>5
  <1>6. CASE Places(bs, time, n) = {New}
    BY <1>6
  <1>7. CASE same # {} /\ Places(bs, time, n) = {Min(same)}
    BY <1>2, <1>3, <1>7
  <1>. QED
    BY <1>4, <1>5, <1>6, <1>7
---------------------------------------------------------------------------
(* Giving lines back.                                                      *)

Inner(r) == r = [offsets |-> r.offsets, offset |-> r.offset, held |-> r.held, pos |-> r.pos,
                 buf |-> r.buf, buckets |-> r.buckets]

SameReader(r, q) ==
    r.offset = q.offset /\ r.held = q.held /\ r.pos = q.pos /\ r.buf = q.buf

LEMMA WithBuckets ==
  ASSUME NEW r, Inner(r), NEW bs
  PROVE  /\ Inner([r EXCEPT !.buckets = bs]) /\ SameReader([r EXCEPT !.buckets = bs], r)
         /\ [r EXCEPT !.buckets = bs].offsets = r.offsets
         /\ [r EXCEPT !.buckets = bs].buckets = bs
  <1> DEFINE c == [offsets |-> r.offsets, offset |-> r.offset, held |-> r.held, pos |-> r.pos,
                   buf |-> r.buf, buckets |-> bs]
  <1>1. [r EXCEPT !.buckets = bs] = c
    BY DEF Inner
  <1>2. Inner(c) /\ SameReader(c, r) /\ c.offsets = r.offsets /\ c.buckets = bs
    BY DEF Inner, SameReader
  <1>. QED
    BY <1>1, <1>2

LEMMA WithLists ==
  ASSUME NEW r, Inner(r), NEW os, NEW bs, NEW q, q = [r EXCEPT !.offsets = os, !.buckets = bs]
  PROVE  Inner(q) /\ SameReader(q, r) /\ q.offsets = os /\ q.buckets = bs
  <1> DEFINE c == [offsets |-> os, offset |-> r.offset, held |-> r.held, pos |-> r.pos,
                   buf |-> r.buf, buckets |-> bs]
  <1>1. q = c
    BY DEF Inner
  <1>2. Inner(c) /\ SameReader(c, r) /\ c.offsets = os /\ c.buckets = bs
    BY DEF Inner, SameReader
  <1>. QED
    BY <1>1, <1>2

LEMMA ReopenShape ==
  ASSUME NEW tf, Inner(tf)
  PROVE  Inner(Reopen(tf)) /\ SameReader(Reopen(tf), tf)
  <1>1. \E os, bs : Reopen(tf) = [tf EXCEPT !.offsets = os, !.buckets = bs]
    BY DEF Reopen
  <1>2. PICK q : q = Reopen(tf)
    OBVIOUS
  <1>3. PICK os, bs : q = [tf EXCEPT !.offsets = os, !.buckets = bs]
    BY <1>1, <1>2
  <1>4. Inner(q) /\ SameReader(q, tf)
    BY <1>3, WithLists
  <1>. QED
    BY <1>2, <1>4

LEMMA ReopenBuckets ==
  ASSUME NEW tf, Inner(tf), LinedBuckets(tf.buckets)
  PROVE  /\ LinedBuckets(Reopen(tf).buckets)
         /\ Waiting(Reopen(tf).buckets) \subseteq Waiting(tf.buckets)
  <1> DEFINE bs == tf.buckets
             os == FoldLeft(LAMBDA offsets, b : IF Due(b) THEN GivenBack(offsets, b).offsets
                                                ELSE offsets, tf.offsets, bs)
             tried(b) == GivenBack(tf.offsets, b).tried
             left == [i \in DOMAIN bs |->
                         IF Due(bs[i]) THEN [bs[i] EXCEPT !.tried = tried(bs[i])] ELSE bs[i]]
             S == {i \in DOMAIN bs : Due(bs[i]) => bs[i].spans # <<>>}
  <1>1. Reopen(tf) = [tf EXCEPT !.offsets = os, !.buckets = At(left, S)]
    BY DEF Reopen
  <1>2. Reopen(tf).buckets = At(left, S)
    <2> DEFINE at == At(left, S)
    <2> HIDE DEF os, at
    <2>1. Reopen(tf) = [tf EXCEPT !.offsets = os, !.buckets = at]
      BY <1>1 DEF os, at
    <2>2. Reopen(tf).buckets = at
      BY <2>1 DEF Inner
    <2>. QED
      BY <2>2 DEF at
  <1>3. Len(bs) \in Nat /\ DOMAIN bs = 1 .. Len(bs)
    BY SequenceProperties DEF LinedBuckets
  <1>4. S \in SUBSET (1 .. Len(bs))
    BY <1>3
  <1>5. ASSUME NEW i \in S
        PROVE  Bucket(left[i]) /\ Lined(left[i].spans) /\ Covered(left[i].spans) \subseteq Waiting(bs)
    <2> DEFINE t == tried(bs[i])
               c == [time |-> bs[i].time, retries |-> bs[i].retries, spans |-> bs[i].spans, tried |-> t]
    <2>1. i \in 1 .. Len(bs) /\ i \in DOMAIN bs
      BY <1>3, <1>4
    <2>2. Bucket(bs[i]) /\ Lined(bs[i].spans) /\ Covered(bs[i].spans) \subseteq Waiting(bs)
      BY <2>1 DEF LinedBuckets, Waiting
    <2>3. left[i] = IF Due(bs[i]) THEN [bs[i] EXCEPT !.tried = t] ELSE bs[i]
      BY <2>1
    <2> HIDE DEF t, left, tried
    <2>4. [bs[i] EXCEPT !.tried = t] = c
      BY <2>2 DEF Bucket
    <2>5. Bucket(c) /\ c.spans = bs[i].spans
      BY DEF Bucket
    <2>6. left[i] = c \/ left[i] = bs[i]
      BY <2>3, <2>4
    <2> HIDE DEF c
    <2>. QED
      BY <2>2, <2>5, <2>6
  <1>6. LinedBuckets(At(left, S)) /\ Waiting(At(left, S)) \subseteq Waiting(bs)
    <2> HIDE DEF left, S
    <2>. QED
      BY <1>3, <1>4, <1>5, BucketsAt
  <1>. QED
    BY <1>2, <1>6

\* Whole lines are given back, of those that wait.
LEMMA GivenWhole ==
  ASSUME NEW tf, LinedBuckets(tf.buckets)
  PROVE  WholeSet(Given(tf)) /\ Given(tf) \subseteq Waiting(tf.buckets) /\ Given(tf) \in SUBSET Nat
  <1> DEFINE bs == tf.buckets
             back(b) == {j \in DOMAIN b.spans : ~ContainsSpan(b.tried, b.spans[j])}
             due == {i \in DOMAIN bs : Due(bs[i])}
             from(i, b) == i \in due /\ \E j \in back(bs[i]) : b \in SpanBytes(bs[i].spans[j])
  <1>1. Len(bs) \in Nat /\ DOMAIN bs = 1 .. Len(bs)
    BY SequenceProperties DEF LinedBuckets
  <1>2. \A b : b \in Given(tf) <=> \E i \in due : \E j \in back(bs[i]) : b \in SpanBytes(bs[i].spans[j])
    BY DEF Given
  <1> HIDE DEF due, back
  <1>3. ASSUME NEW b \in Given(tf)
        PROVE  /\ b \in Nat /\ b \in Waiting(bs)
               /\ Feed(b) => b - 1 \in Given(tf)
               /\ ~ Feed(b) => b + 1 \in Given(tf)
    <2>1. PICK i \in due : \E j \in back(bs[i]) : b \in SpanBytes(bs[i].spans[j])
      BY <1>2, <1>3
    <2>2. PICK j \in back(bs[i]) : b \in SpanBytes(bs[i].spans[j])
      BY <2>1
    <2>3. i \in 1 .. Len(bs) /\ j \in DOMAIN bs[i].spans
      BY <1>1 DEF due, back
    <2>4. Lined(bs[i].spans) /\ Apart(bs[i].spans)
      BY <2>3, TidyIsApart DEF LinedBuckets, Lined
    <2>5. j \in 1 .. Len(bs[i].spans)
      BY <2>3, <2>4 DEF Apart
    <2> DEFINE x == bs[i].spans[j]
    <2>6. x.start \in Nat /\ x.end \in Nat /\ ~ Feed(x.start) /\ ~ Feed(x.end)
      BY <2>3, <2>4, <2>5 DEF Apart, Lined, EvenBounds
    <2> HIDE DEF x
    <2>7. b \in Nat /\ x.start <= b /\ b < x.end
      BY <2>2, <2>6 DEF SpanBytes, x
    <2>8. Feed(b) => b - 1 \in SpanBytes(x)
      BY <2>6, <2>7 DEF SpanBytes, Feed
    <2>9. ~ Feed(b) => b + 1 \in SpanBytes(x)
      BY <2>6, <2>7 DEF SpanBytes, Feed
    <2>10. b \in Covered(bs[i].spans)
      BY <2>2, <2>3 DEF Covered
    <2>11. b \in Waiting(bs)
      BY <2>3, <2>10 DEF Waiting
    <2>12. \A c : c \in SpanBytes(x) => c \in Given(tf)
      BY <1>2 DEF x
    <2>. QED
      BY <2>7, <2>8, <2>9, <2>11, <2>12
  <1>. QED
    BY <1>3 DEF WholeSet

LEMMA ReopenedOffsets ==
  ASSUME NEW tf, NEW f, Lined(tf.offsets), LinedBuckets(tf.buckets), Reopened(tf, f)
  PROVE  /\ Lined(f.offsets) /\ Covered(f.offsets) \subseteq Covered(tf.offsets)
         /\ Covered(tf.offsets) \ Waiting(tf.buckets) \subseteq Covered(f.offsets)
  <1>1. CASE Given(tf) = {} /\ f.offsets = tf.offsets
    BY <1>1
  <1>2. CASE Tidy(f.offsets) /\ Covered(f.offsets) = Covered(tf.offsets) \ Given(tf)
    <2>1. WholeSet(Given(tf)) /\ Given(tf) \subseteq Waiting(tf.buckets) /\ Given(tf) \in SUBSET Nat
      BY GivenWhole
    <2>2. WholeSet(Covered(tf.offsets)) /\ Covered(tf.offsets) \in SUBSET Nat
      BY LinedCoversWhole
    <2>3. WholeSet(Covered(f.offsets))
      BY <1>2, <2>1, <2>2, WholeRest
    <2>4. Lined(f.offsets)
      BY <1>2, <2>3, WholeIsLined
    <2>. QED
      BY <1>2, <2>1, <2>4
  <1>. QED
    BY <1>1, <1>2 DEF Reopened

\* The first gap of a list of lines.
LEMMA FirstGapOfLines ==
  ASSUME NEW s, Lined(s), NEW gap, gap = FirstGap(s)
  PROVE  /\ gap.start \in Nat /\ ~ Feed(gap.start)
         /\ \A b \in Nat : b < gap.start => b \in Covered(s)
         /\ gap.start > 0 => gap.start - 1 \in Covered(s)
         /\ \/ gap.end = NoEnd /\ \A b \in Covered(s) : b < gap.start
            \/ /\ gap.end # NoEnd /\ gap.end \in Nat /\ Feed(gap.end) /\ gap.start < gap.end
               /\ \A b \in Covered(s) : b < gap.start \/ b > gap.end
  <1>1. Apart(s)
    BY TidyIsApart DEF Lined
  <1>2. Len(s) \in Nat /\ DOMAIN s = 1 .. Len(s) /\ s \in Seq(SpansUpTo(2 * MaxLines))
    BY <1>1 DEF Apart, Lined, Tidy
  <1>3. \A i \in 1 .. Len(s) : /\ s[i].start \in Nat /\ s[i].end \in Nat /\ s[i].start < s[i].end
                               /\ ~ Feed(s[i].start) /\ ~ Feed(s[i].end)
    BY <1>1, <1>2 DEF Apart, Lined, EvenBounds
  <1>4. \A i, j \in 1 .. Len(s) : i < j => s[i].end < s[j].start
    BY <1>1 DEF Apart
  <1>5. \A b : b \in Covered(s) <=> \E i \in 1 .. Len(s) : b \in Nat /\ s[i].start <= b /\ b < s[i].end
    BY <1>1, ApartCovers
  <1>6. CASE s = <<>>
    <2>1. gap.start = 0 /\ gap.end = NoEnd
      BY <1>6 DEF FirstGap, Span
    <2>2. \A b : b \notin Covered(s)
      BY <1>5, <1>6
    <2>3. ~ Feed(0)
      BY DEF Feed
    <2>. QED
      BY <2>1, <2>2, <2>3
  <1>7. CASE s # <<>> /\ s[1].start # 0
    <2>1. Len(s) >= 1 /\ 1 \in 1 .. Len(s)
      BY <1>2, <1>7, EmptySeq
    <2>2. gap.start = 0 /\ gap.end = s[1].start - 1
      BY <1>7 DEF FirstGap, Span
    <2>3. gap.end \in Nat /\ Feed(gap.end) /\ gap.end # NoEnd /\ 0 < gap.end /\ ~ Feed(0)
      <3>1. s[1].start \in Nat /\ s[1].start > 0 /\ s[1].start % 2 # 1
        BY <1>3, <1>7, <2>1 DEF Feed
      <3>2. s[1].start > 1 /\ (s[1].start - 1) % 2 = 1
        BY <3>1
      <3>. QED
        BY <2>2, <3>1, <3>2 DEF Feed, NoEnd
    <2>4. \A i \in 1 .. Len(s) : s[1].start <= s[i].start
      BY <1>3, <1>4, <2>1
    <2>5. \A b \in Covered(s) : b > gap.end
      BY <1>3, <1>5, <2>1, <2>2, <2>4
    <2>. QED
      BY <2>2, <2>3, <2>5
  <1>8. CASE s # <<>> /\ s[1].start = 0 /\ Len(s) = 1
    <2>1. 1 \in 1 .. Len(s) /\ \A i \in 1 .. Len(s) : i = 1
      BY <1>8
    <2>2. gap.start = s[1].end /\ gap.end = NoEnd
      BY <1>8 DEF FirstGap, Span
    <2>3. \A b : b \in Covered(s) <=> b \in Nat /\ b < s[1].end
      BY <1>3, <1>5, <1>8, <2>1
    <2>4. s[1].end \in Nat /\ ~ Feed(s[1].end) /\ (s[1].end > 0 => s[1].end - 1 \in Nat)
      BY <1>3, <2>1
    <2>. QED
      BY <2>2, <2>3, <2>4
  <1>9. CASE s # <<>> /\ s[1].start = 0 /\ Len(s) # 1
    <2>1. Len(s) >= 2 /\ 1 \in 1 .. Len(s) /\ 2 \in 1 .. Len(s)
      BY <1>2, <1>9, EmptySeq
    <2>2. gap.start = s[1].end /\ gap.end = s[2].start - 1
      BY <1>9 DEF FirstGap, Span
    <2>3. /\ s[1].end \in Nat /\ ~ Feed(s[1].end) /\ (s[1].end > 0 => s[1].end - 1 \in Nat)
          /\ s[2].start \in Nat /\ ~ Feed(s[2].start) /\ s[1].end < s[2].start /\ s[1].end > 0
      BY <1>3, <1>4, <2>1
    <2>4. gap.end \in Nat /\ Feed(gap.end) /\ gap.end # NoEnd /\ gap.start < gap.end
      BY <2>2, <2>3 DEF Feed, NoEnd
    <2>5. \A b \in Nat : b < s[1].end => b \in Covered(s)
      BY <1>5, <1>9, <2>1
    <2>6. \A i \in 1 .. Len(s) : i = 1 \/ s[2].start <= s[i].start
      <3> SUFFICES ASSUME NEW i \in 1 .. Len(s), i # 1, i # 2 PROVE s[2].start <= s[i].start
        BY <2>3
      <3>1. 2 < i
        BY <1>2
      <3>. QED
        BY <1>3, <1>4, <2>1, <3>1
    <2>7. \A b \in Covered(s) : b < gap.start \/ b > gap.end
      <3> SUFFICES ASSUME NEW b \in Covered(s) PROVE b < gap.start \/ b > gap.end
        OBVIOUS
      <3>1. PICK i \in 1 .. Len(s) : b \in Nat /\ s[i].start <= b /\ b < s[i].end
        BY <1>5
      <3>2. i = 1 \/ s[2].start <= s[i].start
        BY <2>6
      <3>3. s[i].start \in Nat
        BY <1>3
      <3>. QED
        BY <2>2, <2>3, <3>1, <3>2, <3>3
    <2>. QED
      BY <2>2, <2>3, <2>4, <2>5, <2>7
  <1>. QED
    BY <1>6, <1>7, <1>8, <1>9
---------------------------------------------------------------------------
(* The buffered reader: what it holds is what comes next in the file.      *)

NextByte(r) == r.pos - Len(r.held)
RunFrom(s, p) == s \in Seq(Nat) /\ \A i \in 1 .. Len(s) : s[i] = p + i - 1

HoldsRun(r, n) ==
    r.pos \in 0 .. n /\ Len(r.held) <= r.pos /\ RunFrom(r.held, NextByte(r))

\* A line is begun in the buffer, or it is empty, or it is to be cleared.
BufferFits(r) ==
    /\ r.buf \in Seq(Nat)
    /\ Feed(NextByte(r)) => r.buf = <<NextByte(r) - 1>>
    /\ ~ Feed(NextByte(r)) => r.buf = <<>> \/ Feed(Last(r.buf))

Reader(r, n) == Inner(r) /\ HoldsRun(r, n) /\ BufferFits(r)

LEMMA RunFromProperties ==
  ASSUME NEW s, NEW p, RunFrom(s, p)
  PROVE  Len(s) \in Nat /\ DOMAIN s = 1 .. Len(s)
  BY LenProperties DEF RunFrom

LEMMA AvailableRuns ==
  ASSUME len \in Nat, Reader(inner, len)
  PROVE  /\ RunFrom(Available, NextByte(inner)) /\ NextByte(inner) \in Nat
         /\ AfterRead.pos = NextByte(inner) + Len(Available)
         /\ AfterRead.pos \in 0 .. len
         /\ FeedsIn(Available) = {} => AfterRead.pos = len
  <1> DEFINE p == NextByte(inner)
             held == inner.held
             rest == [i \in 1 .. len - inner.pos |-> inner.pos + i - 1]
             some == \E i \in DOMAIN held : Feed(held[i])
  <1>1. /\ inner.pos \in 0 .. len /\ Len(held) \in Nat /\ Len(held) <= inner.pos
        /\ held \in Seq(Nat) /\ p \in Nat /\ p = inner.pos - Len(held)
        /\ \A i \in 1 .. Len(held) : held[i] = p + i - 1
        /\ DOMAIN held = 1 .. Len(held)
    BY LenProperties DEF Reader, HoldsRun, RunFrom, NextByte
  <1>2. AfterRead.pos = IF Available = held THEN inner.pos ELSE Max({inner.pos, len})
    <2> DEFINE b == Kept \o Taken
               h == SubSeq(Available, Len(Taken) + 1, Len(Available))
               n == IF Available = held THEN inner.pos ELSE Max({inner.pos, len})
    <2>1. PICK q : q = AfterRead
      OBVIOUS
    <2>2. q = [inner EXCEPT !.buf = b, !.held = h, !.pos = n]
      BY <2>1 DEF AfterRead
    <2> HIDE DEF b, h, n
    <2>3. q.pos = n
      BY <2>2 DEF Reader, Inner
    <2>. QED
      BY <2>1, <2>3 DEF n
  <1>3. CASE some
    <2>1. Available = held
      BY <1>3 DEF Available
    <2>2. FeedsIn(Available) # {}
      BY <1>3, <2>1 DEF FeedsIn
    <2>. QED
      BY <1>1, <1>2, <2>1, <2>2 DEF RunFrom
  <1>4. CASE ~ some
    <2>1. Available = held \o rest
      BY <1>4 DEF Available
    <2>2. len - inner.pos \in Nat
      BY <1>1
    <2>3. rest \in Seq(Nat) /\ Len(rest) = len - inner.pos
      <3>1. rest \in [1 .. len - inner.pos -> Nat]
        BY <1>1
      <3> HIDE DEF rest
      <3>2. rest \in Seq(Nat)
        BY <2>2, <3>1, SeqDef
      <3>3. Len(rest) \in Nat /\ DOMAIN rest = 1 .. Len(rest)
        BY <3>2, LenProperties
      <3>4. 1 .. Len(rest) = 1 .. len - inner.pos
        BY <3>1, <3>3
      <3>. QED
        BY <2>2, <3>2, <3>3, <3>4
    <2>4. \A i \in 1 .. Len(rest) : rest[i] = inner.pos + i - 1
      BY <2>3
    <2> HIDE DEF rest
    <2>5. /\ held \o rest \in Seq(Nat) /\ Len(held \o rest) = Len(held) + Len(rest)
          /\ \A i \in 1 .. Len(held) + Len(rest) :
                (held \o rest)[i] = IF i <= Len(held) THEN held[i] ELSE rest[i - Len(held)]
      BY <1>1, <2>3, ConcatProperties
    <2>6. p + Len(held \o rest) = len
      BY <1>1, <2>2, <2>3, <2>5
    <2>7. ASSUME NEW i \in 1 .. Len(held \o rest) PROVE (held \o rest)[i] = p + i - 1
      <3>1. CASE i <= Len(held)
        BY <1>1, <2>5, <2>7, <3>1
      <3>2. CASE i > Len(held)
        <4>1. i - Len(held) \in 1 .. Len(rest)
          BY <1>1, <2>2, <2>3, <2>5, <2>7, <3>2
        <4>2. rest[i - Len(held)] = p + i - 1
          BY <1>1, <2>4, <4>1
        <4>. QED
          BY <1>1, <2>5, <2>7, <3>2, <4>2
      <3>. QED
        BY <1>1, <2>2, <2>3, <2>5, <3>1, <3>2
    <2>8. AfterRead.pos = len
      <3>1. CASE Available = held
        BY <1>1, <1>2, <2>1, <2>6, <3>1
      <3>2. CASE Available # held
        <4>1. Max({inner.pos, len}) = len
          BY <1>1 DEF Max
        <4>. QED
          BY <1>2, <3>2, <4>1
      <3>. QED
        BY <3>1, <3>2
    <2>. QED
      BY <1>1, <2>1, <2>5, <2>6, <2>7, <2>8 DEF RunFrom
  <1>. QED
    BY <1>3, <1>4
LEMMA PieceTaken ==
  ASSUME NEW s, NEW p \in Nat, RunFrom(s, p), FeedsIn(s) = {}
  PROVE  Len(s) = 0 \/ (Len(s) = 1 /\ s[1] = p /\ ~ Feed(p))
  <1>1. Len(s) \in Nat /\ DOMAIN s = 1 .. Len(s)
    BY RunFromProperties
  <1>2. \A i \in 1 .. Len(s) : s[i] = p + i - 1 /\ ~ Feed(s[i])
    BY <1>1 DEF RunFrom, FeedsIn
  <1>3. CASE Len(s) >= 1
    <2>1. s[1] = p /\ ~ Feed(p)
      BY <1>1, <1>2, <1>3
    <2>2. CASE Len(s) >= 2
      <3>1. s[2] = p + 1 /\ ~ Feed(p + 1)
        BY <1>1, <1>2, <2>2
      <3>2. FALSE
        BY <2>1, <3>1 DEF Feed
      <3>. QED
        BY <3>2
    <2>. QED
      BY <1>1, <1>3, <2>1, <2>2
  <1>. QED
    BY <1>1, <1>3

LEMMA LineTaken ==
  ASSUME NEW s, NEW p \in Nat, RunFrom(s, p), FeedsIn(s) # {}, NEW m, m = Min(FeedsIn(s))
  PROVE  /\ m \in 1 .. Len(s)
         /\ Feed(p) => m = 1 /\ s[1] = p
         /\ ~ Feed(p) => m = 2 /\ s[1] = p /\ s[2] = p + 1
  <1>1. Len(s) \in Nat /\ DOMAIN s = 1 .. Len(s)
    BY RunFromProperties
  <1>2. FeedsIn(s) \in SUBSET Nat /\ FeedsIn(s) \subseteq 1 .. Len(s)
    BY <1>1 DEF FeedsIn
  <1>3. m \in FeedsIn(s) /\ \A j \in FeedsIn(s) : m <= j
    <2> DEFINE S == FeedsIn(s)
    <2> HIDE DEF S
    <2>1. S \in SUBSET Nat /\ S # {} /\ m = Min(S)
      BY <1>2 DEF S
    <2>2. \E x \in S : \A j \in S : x <= j
      BY <2>1, SmallestNumber
    <2>3. m \in S /\ \A j \in S : m <= j
      BY <2>1, <2>2 DEF Min
    <2>. QED
      BY <2>3 DEF S
  <1>4. m \in 1 .. Len(s) /\ Feed(s[m])
    BY <1>2, <1>3 DEF FeedsIn
  <1>5. \A i \in 1 .. Len(s) : s[i] = p + i - 1
    BY DEF RunFrom
  <1>6. 1 \in 1 .. Len(s) /\ s[1] = p
    BY <1>1, <1>4, <1>5
  <1>7. CASE Feed(p)
    <2>1. 1 \in FeedsIn(s)
      BY <1>1, <1>6, <1>7 DEF FeedsIn
    <2>2. m = 1
      BY <1>1, <1>3, <1>4, <2>1
    <2>. QED
      BY <1>4, <1>6, <1>7, <2>2
  <1>8. CASE ~ Feed(p)
    <2>1. m # 1
      BY <1>4, <1>6, <1>8
    <2>2. 2 \in 1 .. Len(s)
      BY <1>1, <1>4, <2>1
    <2>3. s[2] = p + 1
      BY <1>5, <2>2
    <2>4. Feed(s[2])
      BY <1>8, <2>3 DEF Feed
    <2>5. 2 \in FeedsIn(s)
      BY <1>1, <2>2, <2>4 DEF FeedsIn
    <2>6. m = 2
      BY <1>1, <1>3, <1>4, <2>1, <2>5
    <2>. QED
      BY <1>4, <1>6, <1>8, <2>3, <2>6
  <1>. QED
    BY <1>7, <1>8

\* What a read takes: a line to its line feed, or the piece there is.
TakesLine(t, p) ==
    \/ Feed(p) /\ t = <<p>>
    \/ ~ Feed(p) /\ t = <<p, p + 1>>
TakesPiece(t, p) == t = <<>> \/ (~ Feed(p) /\ t = <<p>>)

LEMMA TakenBytes ==
  ASSUME len \in Nat, Reader(inner, len), NEW p, p = NextByte(inner)
  PROVE  /\ Taken \in Seq(Nat) /\ Len(Taken) \in 0 .. Len(Available)
         /\ \/ FeedsIn(Taken) # {} /\ TakesLine(Taken, p)
            \/ /\ FeedsIn(Taken) = {} /\ TakesPiece(Taken, p) /\ Taken = Available
               /\ p + Len(Taken) = len
  <1>1. RunFrom(Available, p) /\ p \in Nat /\ AfterRead.pos = p + Len(Available)
        /\ (FeedsIn(Available) = {} => AfterRead.pos = len)
    BY AvailableRuns
  <1>2. Len(Available) \in Nat /\ DOMAIN Available = 1 .. Len(Available) /\ Available \in Seq(Nat)
    BY <1>1, RunFromProperties DEF RunFrom
  <1>3. CASE FeedsIn(Available) = {}
    <2>1. Taken = Available
      BY <1>3 DEF Taken
    <2>2. p + Len(Taken) = len
      BY <1>1, <1>3, <2>1
    <2>3. Len(Available) = 0 \/ (Len(Available) = 1 /\ Available[1] = p /\ ~ Feed(p))
      BY <1>1, <1>3, PieceTaken
    <2>4. CASE Len(Available) = 0
      <3>1. Available = <<>>
        BY <1>2, <2>4, EmptySeq
      <3>2. Len(Taken) \in 0 .. Len(Available)
        BY <1>2, <2>1
      <3>. QED
        BY <1>2, <1>3, <2>1, <2>2, <3>1, <3>2 DEF TakesPiece
    <2>5. CASE Len(Available) = 1 /\ Available[1] = p /\ ~ Feed(p)
      <3>1. <<p>> \in Seq(Nat) /\ Len(<<p>>) = 1 /\ <<p>>[1] = p
        BY <1>1
      <3>2. \A i \in 1 .. Len(Available) : Available[i] = <<p>>[i]
        BY <2>5, <3>1
      <3>3. Available = <<p>>
        BY <1>2, <2>5, <3>1, <3>2, SeqEqual
      <3>4. Len(Taken) \in 0 .. Len(Available)
        BY <1>2, <2>1
      <3>. QED
        BY <1>2, <1>3, <2>1, <2>2, <2>5, <3>3, <3>4 DEF TakesPiece
    <2>. QED
      BY <2>3, <2>4, <2>5
  <1>4. CASE FeedsIn(Available) # {}
    <2> DEFINE m == Min(FeedsIn(Available))
    <2>1. Taken = SubSeq(Available, 1, m)
      BY <1>4 DEF Taken
    <2>2. /\ m \in 1 .. Len(Available)
          /\ Feed(p) => m = 1 /\ Available[1] = p
          /\ ~ Feed(p) => m = 2 /\ Available[1] = p /\ Available[2] = p + 1
      BY <1>1, <1>4, LineTaken
    <2> HIDE DEF m
    <2>3. m \in Int /\ \A i \in 1 .. m : Available[i] \in Nat
      BY <1>2, <2>2, ElementOfSeq
    <2>4. /\ Taken \in Seq(Nat) /\ Len(Taken) = m
          /\ \A i \in 1 .. m : Taken[i] = Available[i]
      BY <2>1, <2>2, <2>3, SubSeqProperties
    <2>5. DOMAIN Taken = 1 .. m
      BY <2>4, LenProperties
    <2>6. CASE Feed(p)
      <3>1. m = 1 /\ Taken[1] = p
        BY <2>2, <2>4, <2>6
      <3>2. <<p>> \in Seq(Nat) /\ Len(<<p>>) = 1 /\ <<p>>[1] = p
        BY <1>1
      <3>3. \A i \in 1 .. Len(Taken) : Taken[i] = <<p>>[i]
        BY <2>4, <3>1, <3>2
      <3>4. Taken = <<p>>
        BY <2>4, <3>1, <3>2, <3>3, SeqEqual
      <3>5. 1 \in FeedsIn(Taken)
        BY <2>5, <2>6, <3>1 DEF FeedsIn
      <3>. QED
        BY <2>2, <2>4, <2>6, <3>4, <3>5 DEF TakesLine
    <2>7. CASE ~ Feed(p)
      <3>1. m = 2 /\ Taken[1] = p /\ Taken[2] = p + 1
        BY <2>2, <2>4, <2>7
      <3>2. <<p, p + 1>> \in Seq(Nat) /\ Len(<<p, p + 1>>) = 2
            /\ <<p, p + 1>>[1] = p /\ <<p, p + 1>>[2] = p + 1
        BY <1>1
      <3>3. \A i \in 1 .. Len(Taken) : Taken[i] = <<p, p + 1>>[i]
        BY <2>4, <3>1, <3>2
      <3>4. Taken = <<p, p + 1>>
        BY <2>4, <3>1, <3>2, <3>3, SeqEqual
      <3>5. 2 \in FeedsIn(Taken)
        BY <1>1, <2>5, <2>7, <3>1 DEF FeedsIn, Feed
      <3>. QED
        BY <2>2, <2>4, <2>7, <3>4, <3>5 DEF TakesLine
    <2>. QED
      BY <2>6, <2>7
  <1>. QED
    BY <1>3, <1>4
LEMMA ReadShape ==
  ASSUME Inner(inner), NEW r, r = AfterRead
  PROVE  /\ Inner(r) /\ r.offsets = inner.offsets /\ r.offset = inner.offset
         /\ r.buckets = inner.buckets /\ r.buf = Kept \o Taken
         /\ r.held = SubSeq(Available, Len(Taken) + 1, Len(Available))
  <1> DEFINE b == Kept \o Taken
             h == SubSeq(Available, Len(Taken) + 1, Len(Available))
             n == IF Available = inner.held THEN inner.pos ELSE Max({inner.pos, len})
             c == [offsets |-> inner.offsets, offset |-> inner.offset, held |-> h, pos |-> n,
                   buf |-> b, buckets |-> inner.buckets]
  <1>1. r = [inner EXCEPT !.buf = b, !.held = h, !.pos = n]
    BY DEF AfterRead
  <1> HIDE DEF b, h, n
  <1>2. r = c
    BY <1>1 DEF Inner
  <1>3. /\ Inner(c) /\ c.offsets = inner.offsets /\ c.offset = inner.offset
        /\ c.buckets = inner.buckets /\ c.buf = b /\ c.held = h
    BY DEF Inner
  <1>. QED
    BY <1>2, <1>3 DEF b, h

LEMMA PairConcat ==
  ASSUME NEW u \in Nat, NEW v \in Nat
  PROVE  <<u>> \o <<v>> = <<u, v>>
  <1>1. /\ <<u>> \in Seq(Nat) /\ Len(<<u>>) = 1 /\ <<u>>[1] = u
        /\ <<v>> \in Seq(Nat) /\ Len(<<v>>) = 1 /\ <<v>>[1] = v
        /\ <<u, v>> \in Seq(Nat) /\ Len(<<u, v>>) = 2 /\ <<u, v>>[1] = u /\ <<u, v>>[2] = v
    OBVIOUS
  <1> DEFINE a == <<u>>
             b == <<v>>
             c == <<u, v>>
  <1> HIDE DEF a, b, c
  <1>2. /\ a \in Seq(Nat) /\ Len(a) = 1 /\ a[1] = u
        /\ b \in Seq(Nat) /\ Len(b) = 1 /\ b[1] = v
        /\ c \in Seq(Nat) /\ Len(c) = 2 /\ c[1] = u /\ c[2] = v
    BY <1>1 DEF a, b, c
  <1>3. /\ a \o b \in Seq(Nat) /\ Len(a \o b) = Len(a) + Len(b)
        /\ \A i \in 1 .. Len(a) + Len(b) : (a \o b)[i] = IF i <= Len(a) THEN a[i] ELSE b[i - Len(a)]
    BY <1>2, ConcatProperties
  <1>4. (a \o b)[1] = u /\ (a \o b)[2] = v
    BY <1>2, <1>3
  <1>5. \A i \in 1 .. Len(c) : c[i] = (a \o b)[i]
    BY <1>2, <1>4
  <1>6. a \o b = c
    BY <1>2, <1>3, <1>5, SeqEqual
  <1>. QED
    BY <1>6 DEF a, b, c

LEMMA KeptPiece ==
  ASSUME len \in Nat, Reader(inner, len), NEW p, p = NextByte(inner)
  PROVE  IF Feed(p) THEN Kept = <<p - 1>> ELSE Kept = <<>>
  <1>1. p \in Nat
    BY AvailableRuns
  <1>2. CASE Feed(p)
    <2>4. inner.buf = <<p - 1>>
      BY <1>2 DEF Reader, BufferFits
    <2>5. Len(<<p - 1>>) = 1 /\ <<p - 1>>[1] = p - 1
      OBVIOUS
    <2>1. inner.buf = <<p - 1>> /\ Last(inner.buf) = p - 1
      BY <2>4, <2>5 DEF Last
    <2>2. ~ Feed(p - 1)
      BY <1>1, <1>2 DEF Feed
    <2>3. Kept = inner.buf
      BY <2>1, <2>2 DEF Kept
    <2>. QED
      BY <1>2, <2>1, <2>3
  <1>3. CASE ~ Feed(p)
    BY <1>3 DEF Reader, BufferFits, Kept
  <1>. QED
    BY <1>2, <1>3

LEMMA Reading ==
  ASSUME len \in Nat, Reader(inner, len), NEW p, p = NextByte(inner), NEW r, r = AfterRead
  PROVE  /\ Reader(r, len) /\ NextByte(r) = p + Len(Taken)
         /\ Len(Kept) = IF Feed(p) THEN 1 ELSE 0
         /\ FeedsIn(Taken) # {} => r.buf = Whole(p \div 2)
  <1>1. /\ RunFrom(Available, p) /\ p \in Nat
        /\ r.pos = p + Len(Available) /\ r.pos \in 0 .. len
    BY AvailableRuns
  <1>2. Len(Available) \in Nat /\ DOMAIN Available = 1 .. Len(Available) /\ Available \in Seq(Nat)
    BY <1>1, RunFromProperties DEF RunFrom
  <1>3. /\ Taken \in Seq(Nat) /\ Len(Taken) \in 0 .. Len(Available)
        /\ \/ FeedsIn(Taken) # {} /\ TakesLine(Taken, p)
           \/ FeedsIn(Taken) = {} /\ TakesPiece(Taken, p)
    BY TakenBytes
  <1>4. Inner(r) /\ r.buf = Kept \o Taken /\ r.held = SubSeq(Available, Len(Taken) + 1, Len(Available))
    BY ReadShape DEF Reader
  <1>5. /\ r.held \in Seq(Nat) /\ Len(r.held) = Len(Available) - Len(Taken)
        /\ \A i \in 1 .. Len(r.held) : r.held[i] = Available[Len(Taken) + i]
    <2> DEFINE m == Len(Taken) + 1
               n == Len(Available)
               h == SubSeq(Available, m, n)
    <2>1. m \in Int /\ n \in Int /\ \A i \in m .. n : Available[i] \in Nat
      BY <1>2, <1>3, ElementOfSeq
    <2>2. n - m + 1 = n - Len(Taken)
      BY <1>2, <1>3
    <2>3. \A i \in Int : m + i - 1 = Len(Taken) + i
      BY <1>2, <1>3
    <2>4. m <= n \/ n - Len(Taken) = 0
      BY <1>2, <1>3
    <2> HIDE DEF m, n
    <2>5. /\ h \in Seq(Nat) /\ Len(h) = IF m <= n THEN n - m + 1 ELSE 0
          /\ \A i \in 1 .. n - m + 1 : h[i] = Available[m + i - 1]
      BY <2>1, SubSeqProperties
    <2>6. Len(h) = n - Len(Taken)
      BY <1>2, <1>3, <2>2, <2>4, <2>5 DEF m, n
    <2>7. \A i \in 1 .. n - Len(Taken) : h[i] = Available[Len(Taken) + i]
      BY <2>2, <2>3, <2>5
    <2> HIDE DEF h
    <2>8. r.held = h
      BY <1>4 DEF h, m, n
    <2>. QED
      BY <2>5, <2>6, <2>7, <2>8 DEF n
  <1> DEFINE n == Len(Available)
             t == Len(Taken)
             l == Len(r.held)
  <1>5a. n \in Nat /\ t \in 0 .. n /\ l = n - t /\ r.pos = p + n /\ p \in Nat
    BY <1>1, <1>2, <1>3, <1>5
  <1>5b. \A i \in 1 .. n : Available[i] = p + i - 1
    BY <1>1 DEF RunFrom
  <1>5c. \A i \in 1 .. l : r.held[i] = Available[t + i]
    BY <1>5
  <1>5d. NextByte(r) = r.pos - l
    BY DEF NextByte
  <1> HIDE DEF n, t, l
  <1>6. NextByte(r) = p + t
    BY <1>5a, <1>5d
  <1>7. HoldsRun(r, len)
    <2>1. \A i \in 1 .. l : t + i \in 1 .. n /\ p + (t + i) - 1 = (p + t) + i - 1
      BY <1>5a
    <2>2. \A i \in 1 .. l : r.held[i] = NextByte(r) + i - 1
      BY <1>5b, <1>5c, <1>6, <2>1
    <2>3. l <= r.pos
      BY <1>5a
    <2>. QED
      BY <1>1, <1>5, <2>2, <2>3 DEF HoldsRun, RunFrom, l
  <1>6a. NextByte(r) = p + Len(Taken)
    BY <1>6 DEF t
  <1>8. IF Feed(p) THEN Kept = <<p - 1>> ELSE Kept = <<>>
    BY KeptPiece
  <1>9. Feed(p) => p - 1 \in Nat
    BY <1>1 DEF Feed
  <1>10. CASE FeedsIn(Taken) # {} /\ Feed(p)
    <2>1. Kept = <<p - 1>> /\ Taken = <<p>>
      BY <1>3, <1>8, <1>10 DEF TakesLine
    <2>2. r.buf = <<p - 1, p>>
      <3>1. PICK u \in Nat : u = p - 1
        BY <1>9, <1>10
      <3>2. <<u>> \o <<p>> = <<u, p>>
        BY <1>1, PairConcat
      <3>. QED
        BY <1>4, <2>1, <3>1, <3>2
    <2>3. p - 1 = 2 * (p \div 2) /\ p = 2 * (p \div 2) + 1
      BY <1>1, <1>10 DEF Feed
    <2>4. r.buf = Whole(p \div 2)
      BY <2>2, <2>3 DEF Whole
    <2>5. NextByte(r) = p + 1 /\ ~ Feed(p + 1)
      BY <1>1, <1>6a, <1>10, <2>1 DEF Feed
    <2>6. r.buf \in Seq(Nat) /\ Last(r.buf) = p
      BY <1>1, <1>9, <1>10, <2>2 DEF Last
    <2>7. BufferFits(r)
      BY <1>10, <2>5, <2>6 DEF BufferFits
    <2>. QED
      BY <1>4, <1>6a, <1>7, <1>10, <2>1, <2>4, <2>7 DEF Reader
  <1>11. CASE FeedsIn(Taken) # {} /\ ~ Feed(p)
    <2>1. Kept = <<>> /\ Taken = <<p, p + 1>>
      BY <1>3, <1>8, <1>11 DEF TakesLine
    <2>2. r.buf = <<p, p + 1>>
      BY <1>3, <1>4, <2>1, ConcatEmptySeq
    <2>3. p = 2 * (p \div 2)
      BY <1>1, <1>11 DEF Feed
    <2>4. r.buf = Whole(p \div 2)
      BY <2>2, <2>3 DEF Whole
    <2>5. NextByte(r) = p + 2 /\ ~ Feed(p + 2) /\ Feed(p + 1)
      BY <1>1, <1>6a, <1>11, <2>1 DEF Feed
    <2>6. r.buf \in Seq(Nat) /\ Last(r.buf) = p + 1
      BY <1>1, <2>2 DEF Last
    <2>7. BufferFits(r)
      BY <2>5, <2>6 DEF BufferFits
    <2>. QED
      BY <1>4, <1>6a, <1>7, <1>11, <2>1, <2>4, <2>7 DEF Reader
  <1>12. CASE FeedsIn(Taken) = {} /\ Taken = <<>>
    <2>1. r.buf = Kept
      <3>1. Kept \in Seq(Nat)
        <4>1. <<>> \in Seq(Nat) /\ (Feed(p) => <<p - 1>> \in Seq(Nat))
          BY <1>9, EmptySeq
        <4>. QED
          BY <1>8, <4>1
      <3>. QED
        BY <1>4, <1>12, <3>1, ConcatEmptySeq
    <2>2. NextByte(r) = p
      BY <1>1, <1>6a, <1>12
    <2>3. BufferFits(r)
      <3>1. Feed(p) => r.buf = <<p - 1>> /\ <<p - 1>> \in Seq(Nat)
        BY <1>8, <1>9, <2>1
      <3>2. ~ Feed(p) => r.buf = <<>> /\ <<>> \in Seq(Nat)
        BY <1>8, <2>1, EmptySeq
      <3>. QED
        BY <2>2, <3>1, <3>2 DEF BufferFits
    <2>. QED
      BY <1>4, <1>6a, <1>7, <1>8, <1>12, <2>3 DEF Reader
  <1>13. CASE FeedsIn(Taken) = {} /\ ~ Feed(p) /\ Taken = <<p>>
    <2>1. r.buf = <<p>>
      BY <1>3, <1>4, <1>8, <1>13, ConcatEmptySeq
    <2>2. NextByte(r) = p + 1 /\ Feed(p + 1) /\ (p + 1) - 1 = p
      BY <1>1, <1>6a, <1>13 DEF Feed
    <2>3. BufferFits(r)
      BY <1>1, <2>1, <2>2 DEF BufferFits
    <2>. QED
      BY <1>4, <1>6a, <1>7, <1>8, <1>13, <2>3 DEF Reader
  <1>. QED
    BY <1>3, <1>10, <1>11, <1>12, <1>13 DEF TakesPiece
---------------------------------------------------------------------------
(* The invariant.  Until something gets out of step the reader stands where*)
(* a line starts, and everything before it is in the offsets; after a piece*)
(* of a line was read the offsets may be behind the reader, but they are   *)
(* one span, so it only goes straight on.                                  *)

OnALine(r, n) ==
    /\ r.offset = NextByte(r) /\ ~ Feed(r.offset)
    /\ Lined(r.offsets) /\ LinedBuckets(r.buckets)
    /\ \A b \in Covered(r.offsets) : b < n
    /\ \A b \in Nat : b < r.offset => b \in Covered(r.offsets)

Straight(r) == r.offset \in 0 .. NextByte(r) /\ r.offsets = From0(r.offset)

Out(o) == o = [sent |-> o.sent, odd |-> o.odd, slips |-> o.slips, over |-> o.over,
               unsent |-> o.unsent]
OutType(o) == Out(o) /\ o.sent \in [Lines -> 0 .. 2] /\ o.over \in BOOLEAN

\* A line that was sent is in the offsets and in no bucket.
SentOnce(r, o) ==
    \A k \in Lines : o.sent[k] > 0 =>
        /\ o.sent[k] = 1
        /\ SpanBytes(LineAt(k)) \subseteq Covered(r.offsets)
        /\ SpanBytes(LineAt(k)) \cap Waiting(r.buckets) = {}

\* The stream ends before it comes to a line that was read before.
Ahead(r, s) ==
    \A b \in Covered(r.offsets) :
        b < r.offset \/ (s.target > 0 /\ b >= r.offset - s.total + s.target)

Steady(o) == o.slips \subseteq {"half", "reopened"}
Calm(o) == o.slips = {} /\ ~ o.over
StreamType(s) == s \in [open : BOOLEAN, total : Nat, target : Int]

Follows(r, n, d, o, s) ==
    /\ Reader(r, n) /\ ~ o.odd /\ StreamType(s)
    /\ "half" \in o.slips => Straight(r)
    /\ "half" \notin o.slips => /\ OnALine(r, n)
                                /\ d = NotSet => Waiting(r.buckets) = {}
    /\ Calm(o) => SentOnce(r, o) /\ (s.open => Ahead(r, s))

TailInv ==
    /\ len \in 0 .. 2 * MaxLines /\ OutType(out)
    /\ Steady(out) => Follows(inner, len, delay, out, stream)

LEMMA EmptyList ==
  Lined(<<>>) /\ Covered(<<>>) = {} /\ LinedBuckets(<<>>) /\ Waiting(<<>>) = {}
  <1>1. <<>> \in Seq(SpansUpTo(2 * MaxLines)) /\ Len(<<>>) = 0 /\ DOMAIN <<>> = {}
    BY EmptySeq
  <1>2. <<>> \in Seq({<<>>[i] : i \in DOMAIN <<>>})
    BY EmptySeq
  <1>3. Lined(<<>>)
    BY <1>1 DEF Lined, Tidy, EvenBounds
  <1>4. Covered(<<>>) = {} /\ Waiting(<<>>) = {}
    BY <1>1 DEF Covered, Waiting
  <1>5. LinedBuckets(<<>>)
    BY <1>1, <1>2 DEF LinedBuckets, Sequence
  <1>. QED
    BY <1>3, <1>4, <1>5

\* A reader that has just opened the file.
LEMMA FreshReader ==
  ASSUME NEW n \in Nat
  PROVE  Reader(Fresh, n) /\ OnALine(Fresh, n) /\ Straight(Fresh) /\ Waiting(Fresh.buckets) = {}
  <1>1. /\ Inner(Fresh) /\ Fresh.offsets = <<>> /\ Fresh.offset = 0 /\ Fresh.held = <<>>
        /\ Fresh.pos = 0 /\ Fresh.buf = <<>> /\ Fresh.buckets = <<>>
    BY DEF Fresh, Inner
  <1>2. Len(<<>>) = 0 /\ <<>> \in Seq(Nat) /\ ~ Feed(0)
    BY DEF Feed
  <1>3. NextByte(Fresh) = 0
    <2>1. NextByte(Fresh) = Fresh.pos - Len(Fresh.held)
      BY Zenon DEF NextByte
    <2>2. NextByte(Fresh) = 0 - Len(<<>>)
      BY <1>1, <2>1
    <2>3. Len(<<>>) = 0
      BY EmptySeq
    <2> DEFINE l == Len(<<>>)
    <2> HIDE DEF l
    <2>4. l = 0 /\ NextByte(Fresh) = 0 - l
      BY <2>2, <2>3 DEF l
    <2>. QED
      BY <2>4
  <1>4. Reader(Fresh, n)
    BY <1>1, <1>2, <1>3 DEF Reader, HoldsRun, RunFrom, BufferFits
  <1>5. OnALine(Fresh, n) /\ Straight(Fresh)
    BY <1>1, <1>2, <1>3, EmptyList DEF OnALine, Straight, From0
  <1>. QED
    BY <1>1, <1>4, <1>5, EmptyList

LEMMA InitTailInv == Init => TailInv
  <1> SUFFICES ASSUME Init PROVE TailInv
    OBVIOUS
  <1>1. len = 0 /\ inner = Fresh /\ stream = Closed
    BY DEF Init
  <1>2. /\ Out(out) /\ out.sent = [k \in Lines |-> 0] /\ out.odd = FALSE /\ out.slips = {}
        /\ out.over = FALSE
    BY DEF Init, Out
  <1>3. OutType(out)
    <2>1. out.sent \in [Lines -> 0 .. 2]
      BY <1>2
    <2>2. out.over \in BOOLEAN
      BY <1>2
    <2>. QED
      BY <1>2, <2>1, <2>2 DEF OutType
  <1>4. StreamType(Closed) /\ ~ Closed.open
    BY DEF StreamType, Closed, NoTarget
  <1>5. SentOnce(Fresh, out)
    BY <1>2 DEF SentOnce
  <1>6. Follows(Fresh, 0, delay, out, Closed)
    BY <1>2, <1>4, <1>5, FreshReader DEF Follows
  <1>7. 0 \in 0 .. 2 * MaxLines
    BY TailedFileAssumption
  <1>. QED
    BY <1>1, <1>3, <1>6, <1>7 DEF TailInv
---------------------------------------------------------------------------
(* What is written to the history.                                         *)

LEMMA OutWith ==
  ASSUME NEW o, OutType(o), NEW A, NEW q, q = [o EXCEPT !.slips = A]
  PROVE  OutType(q) /\ q.slips = A /\ q.sent = o.sent /\ q.odd = o.odd /\ q.over = o.over
         /\ q.unsent = o.unsent
  <1> DEFINE c == [sent |-> o.sent, odd |-> o.odd, slips |-> A, over |-> o.over, unsent |-> o.unsent]
  <1>1. q = c
    BY DEF OutType, Out
  <1>2. Out(c) /\ c.slips = A /\ c.sent = o.sent /\ c.odd = o.odd /\ c.over = o.over
        /\ c.unsent = o.unsent
    BY DEF Out
  <1>. QED
    BY <1>1, <1>2 DEF OutType

Turned(q, o, A, v) ==
    OutType(q) /\ q.slips = A /\ q.sent = o.sent /\ q.odd = o.odd /\ q.over = v
    /\ q.unsent = o.unsent

LEMMA OutTurned ==
  ASSUME NEW o, OutType(o), NEW A, NEW v \in BOOLEAN
  PROVE  Turned([o EXCEPT !.slips = A, !.over = v], o, A, v)
  <1> DEFINE c == [sent |-> o.sent, odd |-> o.odd, slips |-> A, over |-> v, unsent |-> o.unsent]
  <1>1. PICK q : q = [o EXCEPT !.slips = A, !.over = v]
    OBVIOUS
  <1>2. q = c
    BY <1>1 DEF OutType, Out
  <1>3. Out(c) /\ c.slips = A /\ c.sent = o.sent /\ c.odd = o.odd /\ c.over = v
        /\ c.unsent = o.unsent
    BY DEF Out
  <1>4. Turned(q, o, A, v)
    BY <1>2, <1>3 DEF OutType, Turned
  <1>. QED
    BY <1>1, <1>4

LEMMA OutUnsent ==
  ASSUME NEW o, OutType(o), NEW A, NEW q, q = [o EXCEPT !.unsent = A]
  PROVE  OutType(q) /\ q.slips = o.slips /\ q.sent = o.sent /\ q.odd = o.odd /\ q.over = o.over
         /\ q.unsent = A
  <1> DEFINE c == [sent |-> o.sent, odd |-> o.odd, slips |-> o.slips, over |-> o.over, unsent |-> A]
  <1>1. q = c
    BY DEF OutType, Out
  <1>2. Out(c) /\ c.slips = o.slips /\ c.sent = o.sent /\ c.odd = o.odd /\ c.over = o.over
        /\ c.unsent = A
    BY DEF Out
  <1>. QED
    BY <1>1, <1>2 DEF OutType

LEMMA SlippedUnless ==
  ASSUME NEW o, OutType(o), NEW exact, NEW q, q = Slipped(o, "remove", ~ exact)
  PROVE  /\ OutType(q) /\ q.sent = o.sent /\ q.odd = o.odd /\ q.over = o.over
         /\ o.slips \subseteq q.slips /\ q.unsent = o.unsent
         /\ exact => q = o
         /\ ~ exact => "remove" \in q.slips
  <1>1. CASE exact
    BY <1>1 DEF Slipped
  <1>2. CASE ~ exact
    <2>1. PICK A : A = o.slips \cup {"remove"}
      OBVIOUS
    <2>2. q = [o EXCEPT !.slips = A]
      BY <1>2, <2>1 DEF Slipped
    <2>3. OutType(q) /\ q.slips = A /\ q.sent = o.sent /\ q.odd = o.odd /\ q.over = o.over
          /\ q.unsent = o.unsent
      BY <2>2, OutWith
    <2>. QED
      BY <1>2, <2>1, <2>3
  <1>. QED
    BY <1>1, <1>2

\* A whole line counts once for itself, and for nothing else.
LEMMA SentWhole ==
  ASSUME NEW o, OutType(o), NEW k \in Lines, NEW q, q = Sent(o, Whole(k))
  PROVE  /\ OutType(q) /\ q.odd = o.odd /\ q.over = o.over /\ q.slips = o.slips
         /\ q.unsent = o.unsent
         /\ \A j \in Lines : j # k => q.sent[j] = o.sent[j]
         /\ o.sent[k] = 0 => q.sent[k] = 1
         /\ q.sent[k] > 0
  <1> DEFINE v == Min({2, o.sent[k] + 1})
             f == [o.sent EXCEPT ![k] = v]
             c == [sent |-> f, odd |-> o.odd, slips |-> o.slips, over |-> o.over, unsent |-> o.unsent]
  <1>1. k \in Nat
    BY TailedFileAssumption DEF Lines
  <1>2. Whole(k)[1] \div 2 = k
    BY <1>1 DEF Whole
  <1>3. q = [o EXCEPT !.sent[k] = v]
    BY <1>2 DEF Sent
  <1>4. o.sent \in [Lines -> 0 .. 2] /\ o.sent[k] \in 0 .. 2
    BY DEF OutType
  <1>5. v \in 0 .. 2 /\ v > 0 /\ (o.sent[k] = 0 => v = 1)
    <2>1. \A a \in 0 .. 2 : Min({2, a + 1}) = IF a = 0 THEN 1 ELSE 2
      BY DEF Min
    <2>. QED
      BY <1>4, <2>1
  <1> HIDE DEF v
  <1>6. f \in [Lines -> 0 .. 2] /\ f[k] = v /\ \A j \in Lines : j # k => f[j] = o.sent[j]
    BY <1>4, <1>5
  <1>7. q = [o EXCEPT !.sent = f]
    BY <1>3 DEF OutType, Out
  <1> HIDE DEF f
  <1>8. q = c
    BY <1>7 DEF OutType, Out
  <1>9. Out(c) /\ c.slips = o.slips /\ c.sent = f /\ c.odd = o.odd /\ c.over = o.over
        /\ c.unsent = o.unsent
    BY DEF Out
  <1>. QED
    BY <1>5, <1>6, <1>8, <1>9 DEF OutType
---------------------------------------------------------------------------
(* The environment.                                                        *)

LEMMA FollowsLonger ==
  ASSUME NEW n \in Nat, NEW m \in Nat, n <= m, NEW r, NEW d, NEW o, NEW s, Follows(r, n, d, o, s)
  PROVE  Follows(r, m, d, o, s)
  <1>1. Reader(r, m)
    <2>1. Reader(r, n)
      BY DEF Follows
    <2>2. r.pos \in 0 .. m
      BY <2>1 DEF Reader, HoldsRun
    <2>. QED
      BY <2>1, <2>2 DEF Reader, HoldsRun
  <1>2. OnALine(r, n) => OnALine(r, m)
    <2> SUFFICES ASSUME OnALine(r, n) PROVE OnALine(r, m)
      OBVIOUS
    <2>1. Covered(r.offsets) \subseteq Nat
      BY LinedCoversWhole DEF OnALine
    <2>2. \A b \in Covered(r.offsets) : b < m
      BY <2>1 DEF OnALine
    <2>. QED
      BY <2>2 DEF OnALine
  <1>. QED
    BY <1>1, <1>2 DEF Follows

LEMMA WriteBytesStep ==
  ASSUME TailInv, NEW n \in 1 .. 2, WriteBytes(n)
  PROVE  TailInv'
  <1>1. /\ len \in Nat /\ len' = len + n /\ len + n <= 2 * MaxLines
        /\ delay' = delay /\ inner' = inner /\ stream' = stream /\ out' = out
    BY DEF WriteBytes, TailInv
  <1>2. len' \in 0 .. 2 * MaxLines /\ len <= len' /\ len' \in Nat
    BY <1>1, TailedFileAssumption
  <1>3. Steady(out) => Follows(inner, len', delay, out, stream)
    BY <1>1, <1>2, FollowsLonger DEF TailInv
  <1>. QED
    BY <1>1, <1>2, <1>3 DEF TailInv

LEMMA MetadataStep ==
  ASSUME TailInv, Metadata
  PROVE  TailInv'
  BY DEF TailInv, Metadata

\* The buckets as they were, but for their times.
LEMMA TimesLeft ==
  ASSUME NEW bs, LinedBuckets(bs), NEW cs, DOMAIN cs = DOMAIN bs, cs = [i \in DOMAIN bs |-> cs[i]],
         \A i \in DOMAIN bs : Bucket(cs[i]) /\ cs[i].spans = bs[i].spans
  PROVE  LinedBuckets(cs) /\ Waiting(cs) = Waiting(bs)
  <1>1. Len(bs) \in Nat /\ DOMAIN bs = 1 .. Len(bs)
    BY SequenceProperties DEF LinedBuckets
  <1>2. Sequence(cs) /\ Len(cs) = Len(bs)
    BY <1>1, FunctionIsSequence
  <1>3. \A i \in 1 .. Len(bs) : Lined(bs[i].spans)
    BY DEF LinedBuckets
  <1>4. LinedBuckets(cs)
    BY <1>1, <1>2, <1>3 DEF LinedBuckets
  <1>5. Waiting(cs) = Waiting(bs)
    BY <1>1, <1>2 DEF Waiting
  <1>. QED
    BY <1>4, <1>5

\* Nothing that Follows looks at tells two readers with the same lists apart.
LEMMA FollowsAlike ==
  ASSUME NEW r, NEW q, NEW n, NEW d, NEW o, NEW s, Follows(r, n, d, o, s), Inner(q), SameReader(q, r),
         q.offsets = r.offsets,
         OnALine(r, n) => LinedBuckets(q.buckets) /\ Waiting(q.buckets) \subseteq Waiting(r.buckets)
  PROVE  Follows(q, n, d, o, s)
  <1>1. Reader(q, n) /\ NextByte(q) = NextByte(r)
    <2>1. q.offset = r.offset /\ q.held = r.held /\ q.pos = r.pos /\ q.buf = r.buf
      BY DEF SameReader
    <2>2. NextByte(q) = NextByte(r)
      BY <2>1 DEF NextByte
    <2>3. HoldsRun(r, n) /\ BufferFits(r)
      BY DEF Follows, Reader
    <2>4. HoldsRun(q, n)
      BY <2>1, <2>2, <2>3 DEF HoldsRun
    <2>5. BufferFits(q)
      BY <2>1, <2>2, <2>3 DEF BufferFits
    <2>. QED
      BY <2>2, <2>4, <2>5 DEF Reader
  <1>2. Straight(r) => Straight(q)
    BY <1>1 DEF Straight, SameReader
  <1>3. OnALine(r, n) => OnALine(q, n)
    BY <1>1 DEF OnALine, SameReader
  <1>4. Calm(o) => SentOnce(q, o)
    <2> SUFFICES ASSUME Calm(o) PROVE SentOnce(q, o)
      OBVIOUS
    <2>1. OnALine(r, n) /\ SentOnce(r, o)
      BY DEF Follows, Calm
    <2>. QED
      BY <2>1 DEF SentOnce
  <1>5. Ahead(r, s) => Ahead(q, s)
    BY DEF Ahead, SameReader
  <1>6. /\ ~ o.odd /\ StreamType(s)
        /\ "half" \in o.slips => Straight(r)
        /\ "half" \notin o.slips => OnALine(r, n) /\ (d = NotSet => Waiting(r.buckets) = {})
        /\ Calm(o) => (s.open => Ahead(r, s))
    BY DEF Follows
  <1>7. /\ "half" \in o.slips => Straight(q)
        /\ "half" \notin o.slips => OnALine(q, n) /\ (d = NotSet => Waiting(q.buckets) = {})
    BY <1>2, <1>3, <1>6
  <1>. QED
    BY <1>1, <1>4, <1>5, <1>6, <1>7 DEF Follows

LEMMA TickStep ==
  ASSUME TailInv, Tick
  PROVE  TailInv'
  <1> DEFINE bs == inner.buckets
             cs == [i \in DOMAIN bs |-> Sooner(bs[i])]
  <1>1. /\ len' = len /\ delay' = delay /\ stream' = stream /\ out' = out
        /\ inner' = [inner EXCEPT !.buckets = cs]
    BY DEF Tick
  <1>2. ASSUME Steady(out) PROVE Follows(inner', len, delay, out, stream)
    <2>1. Follows(inner, len, delay, out, stream) /\ Inner(inner)
      BY <1>2 DEF TailInv, Follows, Reader
    <2>2. DOMAIN cs = DOMAIN bs /\ cs = [i \in DOMAIN bs |-> cs[i]]
      OBVIOUS
    <2>3. ASSUME LinedBuckets(bs), NEW i \in DOMAIN bs PROVE Bucket(cs[i]) /\ cs[i].spans = bs[i].spans
      <3> DEFINE u == Max({0, bs[i].time - 1})
                 c == [time |-> u, retries |-> bs[i].retries, spans |-> bs[i].spans, tried |-> bs[i].tried]
      <3>1. cs[i] = [bs[i] EXCEPT !.time = u]
        BY DEF Sooner
      <3>2. Bucket(bs[i])
        BY <2>3, SequenceProperties DEF LinedBuckets
      <3> HIDE DEF u, cs
      <3>3. cs[i] = c
        BY <3>1, <3>2 DEF Bucket
      <3>4. Bucket(c) /\ c.spans = bs[i].spans
        BY DEF Bucket
      <3>. QED
        BY <3>3, <3>4
    <2> HIDE DEF cs
    <2>4. Inner(inner') /\ SameReader(inner', inner) /\ inner'.offsets = inner.offsets
          /\ inner'.buckets = cs
      BY <1>1, <2>1, WithBuckets
    <2>5. OnALine(inner, len) => LinedBuckets(cs) /\ Waiting(cs) \subseteq Waiting(bs)
      <3> SUFFICES ASSUME LinedBuckets(bs) PROVE LinedBuckets(cs) /\ Waiting(cs) = Waiting(bs)
        BY DEF OnALine
      <3>1. \A i \in DOMAIN bs : Bucket(cs[i]) /\ cs[i].spans = bs[i].spans
        BY <2>3
      <3> HIDE DEF bs
      <3>. QED
        BY <2>2, <3>1, TimesLeft
    <2>. QED
      BY <2>1, <2>4, <2>5, FollowsAlike
  <1>. QED
    BY <1>1, <1>2 DEF TailInv

LEMMA EndStreamStep ==
  ASSUME TailInv, EndStream
  PROVE  TailInv'
  <1>1. /\ len' = len /\ delay' = delay /\ inner' = inner /\ out' = out
        /\ stream' = Closed
    BY DEF EndStream
  <1>2. StreamType(Closed) /\ ~ Closed.open
    BY DEF StreamType, Closed, NoTarget
  <1>3. Steady(out) => Follows(inner, len, delay, out, Closed)
    BY <1>2 DEF TailInv, Follows
  <1>. QED
    BY <1>1, <1>3 DEF TailInv

LEMMA ReadFailsStep ==
  ASSUME TailInv, ReadFails
  PROVE  TailInv'
  <1> DEFINE A == out.slips \cup {"reopened"}
  <1>1. /\ len' = len /\ delay' = delay /\ stream' = stream /\ inner' = Fresh
        /\ out' = [out EXCEPT !.slips = A]
    BY DEF ReadFails
  <1> HIDE DEF A
  <1>2. OutType(out') /\ out'.slips = A /\ out'.odd = out.odd
    <2>1. OutType(out)
      BY DEF TailInv
    <2>. QED
      BY <1>1, <2>1, OutWith
  <1>3. len \in Nat
    BY DEF TailInv
  <1>4. ASSUME Steady(out') PROVE Follows(Fresh, len, delay, out', stream)
    <2>1. Steady(out) /\ ~ Calm(out')
      BY <1>2, <1>4 DEF Steady, Calm, A
    <2>2. Follows(inner, len, delay, out, stream)
      BY <2>1 DEF TailInv
    <2>3. ~ out'.odd /\ StreamType(stream)
      BY <1>2, <2>2 DEF Follows
    <2>. QED
      BY <1>3, <2>1, <2>3, FreshReader DEF Follows
  <1>. QED
    BY <1>1, <1>2, <1>4 DEF TailInv
---------------------------------------------------------------------------
(* A piece of a line is read: the offsets are one span up to the reader.   *)

LEMMA OneSpan ==
  ASSUME NEW s, Tidy(s), NEW p \in Nat, \A b : b \in Covered(s) <=> b \in Nat /\ b < p
  PROVE  s = From0(p)
  <1>1. Apart(s)
    BY TidyIsApart
  <1>2. Len(s) \in Nat /\ DOMAIN s = 1 .. Len(s) /\ s \in Seq(SpansUpTo(2 * MaxLines))
    BY <1>1 DEF Apart, Tidy
  <1>3. \A i \in 1 .. Len(s) :
           /\ s[i] \in Spans /\ s[i].start \in Nat /\ s[i].end \in Nat /\ s[i].start < s[i].end
    BY <1>1 DEF Apart
  <1>4. \A i, j \in 1 .. Len(s) : i < j => s[i].end < s[j].start
    BY <1>1 DEF Apart
  <1>5. \A b : (b \in Nat /\ b < p) <=>
               \E i \in 1 .. Len(s) : b \in Nat /\ s[i].start <= b /\ b < s[i].end
    BY <1>1, ApartCovers
  <1>6. CASE p = 0
    <2>1. Len(s) = 0
      <3> SUFFICES ASSUME Len(s) # 0 PROVE FALSE
        OBVIOUS
      <3>1. 1 \in 1 .. Len(s)
        BY <1>2
      <3>2. s[1].start \in Nat /\ s[1].start < 0
        BY <1>3, <1>5, <1>6, <3>1
      <3>. QED
        BY <3>2
    <2>2. s = <<>>
      BY <1>2, <2>1, EmptySeq
    <2>. QED
      BY <1>6, <2>2 DEF From0
  <1>7. CASE p > 0
    <2>1. PICK i \in 1 .. Len(s) : s[i].start <= 0 /\ 0 < s[i].end
      BY <1>5, <1>7
    <2>2. 1 \in 1 .. Len(s)
      BY <1>2
    <2>3. i = 1
      <3> SUFFICES ASSUME i > 1 PROVE FALSE
        BY <1>2
      <3>1. s[1].end < s[i].start
        BY <1>4, <2>2
      <3>. QED
        BY <1>3, <2>1, <2>2, <3>1
    <2>4. s[1].start = 0 /\ s[1].end \in Nat /\ s[1].end > 0
      BY <1>3, <2>1, <2>3
    <2>5. ~ (s[1].end < p)
      <3> SUFFICES ASSUME s[1].end < p PROVE FALSE
        OBVIOUS
      <3>1. PICK j \in 1 .. Len(s) : s[j].start <= s[1].end /\ s[1].end < s[j].end
        BY <1>5, <2>4
      <3>2. j = 1 \/ 1 < j
        BY <1>2
      <3>. QED
        BY <1>3, <1>4, <2>2, <2>4, <3>1, <3>2
    <2>6. s[1].end = p
      <3>1. s[1].end - 1 \in Nat /\ s[1].start <= s[1].end - 1 /\ s[1].end - 1 < s[1].end
        BY <2>4
      <3>2. s[1].end - 1 < p
        BY <1>5, <2>2, <3>1
      <3>. QED
        BY <2>4, <2>5, <3>2
    <2>7. Len(s) = 1
      <3> SUFFICES ASSUME Len(s) # 1 PROVE FALSE
        OBVIOUS
      <3>1. 2 \in 1 .. Len(s)
        BY <1>2, <2>2
      <3>2. s[1].end < s[2].start /\ s[2].start \in Nat
        BY <1>3, <1>4, <2>2, <3>1
      <3>3. s[2].start < p
        BY <1>3, <1>5, <3>1
      <3>. QED
        BY <2>6, <3>2, <3>3
    <2>8. s[1] = Span(0, p)
      <3>1. s[1] = [start |-> s[1].start, end |-> s[1].end]
        BY <1>3, <2>2 DEF Spans
      <3>. QED
        BY <2>4, <2>6, <3>1 DEF Span
    <2>9. s = <<s[1]>>
      <3>1. s \in Seq(Spans)
        BY ApartIsList DEF Lists
      <3>2. s[1] \in Spans
        BY <1>3, <2>2
      <3> DEFINE e == s[1]
                 t == <<e>>
      <3>3. t \in Seq(Spans) /\ Len(t) = 1 /\ t[1] = e
        BY <3>2
      <3>4. \A j \in 1 .. Len(s) : s[j] = t[j]
        BY <2>7, <3>3
      <3> HIDE DEF t
      <3>5. s = t
        BY <2>7, <3>1, <3>3, <3>4, SeqEqual
      <3>. QED
        BY <3>5 DEF t
    <2>. QED
      BY <1>7, <2>8, <2>9 DEF From0
  <1>. QED
    BY <1>6, <1>7

LEMMA ReadNoLineStep ==
  ASSUME TailInv, ReadNoLine
  PROVE  TailInv'
  <1> DEFINE A == out.slips \cup {"half"}
             p == NextByte(inner)
  <1>1. /\ len' = len /\ delay' = delay /\ stream' = Closed /\ inner' = AfterRead
        /\ FeedsIn(Taken) = {}
        /\ out' = IF Taken # <<>> THEN [out EXCEPT !.slips = A] ELSE out
    BY DEF ReadNoLine
  <1> HIDE DEF A
  <1>2. len \in Nat /\ OutType(out)
    BY DEF TailInv
  <1>3. StreamType(Closed) /\ ~ Closed.open
    BY DEF StreamType, Closed, NoTarget
  <1>4. PICK q : q = AfterRead
    OBVIOUS
  <1>5. ASSUME Steady(out)
        PROVE  /\ Follows(inner, len, delay, out, stream) /\ Reader(inner, len) /\ p \in Nat
               /\ Reader(q, len) /\ NextByte(q) = p + Len(Taken)
               /\ q.offsets = inner.offsets /\ q.offset = inner.offset /\ q.buckets = inner.buckets
               /\ TakesPiece(Taken, p) /\ p + Len(Taken) = len
    <2>1. Follows(inner, len, delay, out, stream) /\ Reader(inner, len)
      BY <1>5 DEF TailInv, Follows
    <2>2. q.offsets = inner.offsets /\ q.offset = inner.offset /\ q.buckets = inner.buckets
      BY <1>4, <2>1, ReadShape DEF Reader
    <2>3. Reader(q, len) /\ NextByte(q) = p + Len(Taken)
      BY <1>2, <1>4, <2>1, Reading
    <2>4. TakesPiece(Taken, p) /\ p + Len(Taken) = len
      BY <1>1, <1>2, <2>1, TakenBytes
    <2>5. p \in Nat
      BY <1>2, <2>1, AvailableRuns
    <2>. QED
      BY <2>1, <2>2, <2>3, <2>4, <2>5
  <1>6. CASE Taken = <<>>
    <2>1. out' = out
      BY <1>1, <1>6
    <2>2. ASSUME Steady(out) PROVE Follows(q, len, delay, out, Closed)
      <3>1. NextByte(q) = p
        <4>1. Len(Taken) = 0
          BY <1>6
        <4>. QED
          BY <1>5, <2>2, <4>1
      <3>2. Straight(inner) => Straight(q)
        BY <1>5, <2>2, <3>1 DEF Straight
      <3>3. OnALine(inner, len) => OnALine(q, len)
        BY <1>5, <2>2, <3>1 DEF OnALine
      <3>4. SentOnce(inner, out) => SentOnce(q, out)
        BY <1>5, <2>2 DEF SentOnce
      <3>5. q.buckets = inner.buckets /\ Reader(q, len)
        BY <1>5, <2>2
      <3>6. Follows(inner, len, delay, out, stream)
        BY <1>5, <2>2
      <3>. QED
        BY <1>3, <3>2, <3>3, <3>4, <3>5, <3>6 DEF Follows
    <2>. QED
      BY <1>1, <1>4, <2>1, <2>2 DEF TailInv
  <1>7. CASE Taken # <<>>
    <2>1. out' = [out EXCEPT !.slips = A]
      BY <1>1, <1>7
    <2>2. OutType(out') /\ out'.slips = A /\ out'.odd = out.odd
      BY <1>2, <2>1, OutWith
    <2>3. ASSUME Steady(out') PROVE Follows(q, len, delay, out', Closed)
      <3>1. Steady(out) /\ "half" \in out'.slips /\ ~ Calm(out')
        BY <2>2, <2>3 DEF Steady, Calm, A
      <3>2. /\ Follows(inner, len, delay, out, stream) /\ Reader(q, len) /\ p \in Nat
            /\ NextByte(q) = p + Len(Taken)
            /\ q.offsets = inner.offsets /\ q.offset = inner.offset
            /\ ~ Feed(p) /\ Taken = <<p>> /\ p + Len(Taken) = len
        BY <1>5, <1>7, <3>1 DEF TakesPiece
      <3>3. NextByte(q) = p + 1 /\ len = p + 1
        <4>1. Len(<<p>>) = 1
          OBVIOUS
        <4>. QED
          BY <3>2, <4>1
      <3>4. Straight(inner)
        <4>1. CASE "half" \in out.slips
          BY <3>2, <4>1 DEF Follows
        <4>2. CASE "half" \notin out.slips
          <5>1. OnALine(inner, len)
            BY <3>2, <4>2 DEF Follows
          <5>2. inner.offset = p /\ Lined(inner.offsets)
            BY <5>1 DEF OnALine
          <5>3. WholeSet(Covered(inner.offsets)) /\ Covered(inner.offsets) \subseteq Nat
            BY <5>2, LinedCoversWhole
          <5>4. p \notin Covered(inner.offsets)
            <6>1. p \in Covered(inner.offsets) => p + 1 \in Covered(inner.offsets)
              BY <3>2, <5>3 DEF WholeSet
            <6>2. p + 1 \in Covered(inner.offsets) => p + 1 < len
              BY <5>1 DEF OnALine
            <6>. QED
              BY <3>2, <3>3, <6>1, <6>2
          <5>5. \A b : b \in Covered(inner.offsets) <=> b \in Nat /\ b < p
            <6>1. \A b \in Nat : b < p => b \in Covered(inner.offsets)
              BY <5>1, <5>2 DEF OnALine
            <6>2. \A b \in Covered(inner.offsets) : b \in Nat /\ b < p + 1 /\ b # p
              BY <3>3, <5>1, <5>3, <5>4 DEF OnALine
            <6>3. \A b \in Covered(inner.offsets) : b < p
              BY <3>2, <6>2
            <6>. QED
              BY <5>3, <6>1, <6>3
          <5>6. inner.offsets = From0(p)
            BY <3>2, <5>2, <5>5, OneSpan DEF Lined
          <5>. QED
            BY <3>2, <5>2, <5>6 DEF Straight
        <4>. QED
          BY <4>1, <4>2
      <3>5. Straight(q)
        <4>1. inner.offset \in 0 .. p /\ inner.offsets = From0(inner.offset)
          BY <3>4 DEF Straight
        <4>2. q.offset \in 0 .. p + 1
          BY <3>2, <4>1
        <4>. QED
          BY <3>2, <3>3, <4>1, <4>2 DEF Straight
      <3>6. ~ out'.odd
        BY <2>2, <3>2 DEF Follows
      <3>. QED
        BY <1>3, <3>1, <3>2, <3>5, <3>6 DEF Follows
    <2>. QED
      BY <1>1, <1>4, <2>2, <2>3 DEF TailInv
  <1>. QED
    BY <1>6, <1>7
---------------------------------------------------------------------------
(* tail(): the seek to the first gap.                                      *)

LEMMA SeekShape ==
  ASSUME NEW f, Inner(f), NEW gap, NEW q, q = SeekTo(f, gap)
  PROVE  \/ q = f /\ gap.end = NoEnd /\ f.offset = gap.start
         \/ /\ Inner(q) /\ q.offsets = f.offsets /\ q.buckets = f.buckets
            /\ q.held = f.held /\ q.buf = f.buf
            /\ q.pos = gap.start /\ q.offset = gap.start
  <1>1. CASE gap.end # NoEnd \/ f.offset # gap.start
    <2> DEFINE g == gap.start
               c == [offsets |-> f.offsets, offset |-> g, held |-> f.held, pos |-> g,
                     buf |-> f.buf, buckets |-> f.buckets]
    <2>1. q = [f EXCEPT !.pos = g, !.offset = g]
      BY <1>1 DEF SeekTo
    <2> HIDE DEF g
    <2>2. q = c
      BY <2>1 DEF Inner
    <2>3. /\ Inner(c) /\ c.offsets = f.offsets /\ c.buckets = f.buckets
          /\ c.held = f.held /\ c.buf = f.buf /\ c.pos = g /\ c.offset = g
      BY DEF Inner
    <2>. QED
      BY <2>2, <2>3 DEF g
  <1>2. CASE ~ (gap.end # NoEnd \/ f.offset # gap.start)
    <2>1. q = f
      BY <1>2 DEF SeekTo
    <2>. QED
      BY <1>2, <2>1
  <1>. QED
    BY <1>1, <1>2

LEMMA SameReaders ==
  ASSUME NEW r, NEW q, NEW n, Reader(r, n), Inner(q), SameReader(q, r)
  PROVE  Reader(q, n) /\ NextByte(q) = NextByte(r)
  <1>1. q.held = r.held /\ q.pos = r.pos /\ q.buf = r.buf
    BY DEF SameReader
  <1>2. NextByte(q) = NextByte(r)
    BY <1>1 DEF NextByte
  <1>3. HoldsRun(q, n)
    BY <1>1, <1>2 DEF Reader, HoldsRun
  <1>4. BufferFits(q)
    BY <1>1, <1>2 DEF Reader, BufferFits
  <1>. QED
    BY <1>2, <1>3, <1>4 DEF Reader

\* A seek that leaves nothing behind comes to the start of a line.
LEMMA SeekOnALine ==
  ASSUME len \in Nat, NEW r, Reader(r, len), OnALine(r, len), NEW f, f = Reopen(r), Reopened(r, f),
         NEW gap, gap = FirstGap(f.offsets), NEW q, q = StartOver(SeekTo(f, gap)), ~ Stale(f, q)
  PROVE  /\ Reader(q, len) /\ OnALine(q, len)
         /\ q.offsets = f.offsets /\ q.buckets = f.buckets /\ q.offset = gap.start
         /\ gap.end # NoEnd => q.pos = gap.start
  <1>1. Inner(r) /\ Lined(r.offsets) /\ LinedBuckets(r.buckets)
    BY DEF Reader, OnALine
  <1>2. Inner(f) /\ SameReader(f, r) /\ LinedBuckets(f.buckets)
    BY <1>1, ReopenShape, ReopenBuckets
  <1>3. Lined(f.offsets) /\ Covered(f.offsets) \subseteq Covered(r.offsets)
    BY <1>1, ReopenedOffsets
  <1>4. Reader(f, len) /\ NextByte(f) = NextByte(r) /\ f.offset = r.offset
    BY <1>2, SameReaders DEF SameReader
  <1>5. f.offset = NextByte(f) /\ ~ Feed(f.offset)
    BY <1>4 DEF OnALine
  <1>6. \A b \in Covered(f.offsets) : b < len
    BY <1>3 DEF OnALine
  <1>7. /\ gap.start \in Nat /\ ~ Feed(gap.start)
        /\ \A b \in Nat : b < gap.start => b \in Covered(f.offsets)
        /\ gap.start > 0 => gap.start - 1 \in Covered(f.offsets)
    BY <1>3, FirstGapOfLines
  <1>8. gap.start \in 0 .. len
    <2>1. gap.start > 0 => gap.start - 1 < len
      BY <1>6, <1>7
    <2>. QED
      BY <1>7, <2>1
  <1>9. PICK e : e = SeekTo(f, gap)
    OBVIOUS
  <1>10. \/ e = f /\ gap.end = NoEnd /\ f.offset = gap.start
         \/ /\ Inner(e) /\ e.offsets = f.offsets /\ e.buckets = f.buckets
            /\ e.held = f.held /\ e.buf = f.buf
            /\ e.pos = gap.start /\ e.offset = gap.start
    BY <1>2, <1>9, SeekShape
  <1>11. q = e
    <2>1. e.offset = gap.start
      BY <1>10
    <2>2. ~ (e.offset > len)
      BY <1>8, <2>1
    <2>. QED
      BY <1>9, <2>2 DEF StartOver
  <1>12. CASE e = f /\ gap.end = NoEnd /\ f.offset = gap.start
    <2>1. OnALine(q, len)
      BY <1>2, <1>3, <1>5, <1>6, <1>7, <1>11, <1>12 DEF OnALine
    <2>. QED
      BY <1>4, <1>11, <1>12, <2>1
  <1>13. CASE /\ Inner(e) /\ e.offsets = f.offsets /\ e.buckets = f.buckets
              /\ e.held = f.held /\ e.buf = f.buf
              /\ e.pos = gap.start /\ e.offset = gap.start
    <2>1. HoldsRun(f, len) /\ BufferFits(f)
      BY <1>4 DEF Reader
    <2>2. Len(f.held) \in Nat /\ f.pos \in Nat /\ NextByte(f) = f.pos - Len(f.held) /\ f.held \in Seq(Nat)
      BY <2>1, LenProperties DEF HoldsRun, RunFrom, NextByte
    <2>3. f.held = <<>>
      <3> SUFFICES ASSUME f.held # <<>> PROVE FALSE
        OBVIOUS
      <3>1. 1 \in 1 .. Len(f.held)
        BY <2>2, EmptySeq
      <3>2. f.held[1] = NextByte(f)
        <4>1. f.held[1] = NextByte(f) + 1 - 1
          BY <2>1, <3>1 DEF HoldsRun, RunFrom
        <4>. QED
          BY <2>2, <4>1
      <3>3. q.held[1] = q.offset /\ q.pos = f.pos
        BY <1>11, <1>13 DEF Stale
      <3>4. NextByte(f) = gap.start /\ f.pos = gap.start
        BY <1>11, <1>13, <3>2, <3>3
      <3>. QED
        BY <2>2, <3>1, <3>4
    <2>4. NextByte(q) = gap.start
      <3>1. Len(q.held) = 0
        BY <1>11, <1>13, <2>3, EmptySeq
      <3>2. NextByte(q) = gap.start - Len(q.held)
        BY <1>11, <1>13 DEF NextByte
      <3>. QED
        BY <1>7, <3>1, <3>2
    <2>5. HoldsRun(q, len)
      <3>1. q.held = <<>> /\ q.held \in Seq(Nat) /\ Len(q.held) = 0
        BY <1>11, <1>13, <2>2, <2>3, EmptySeq
      <3>. QED
        BY <1>7, <1>8, <1>11, <1>13, <3>1 DEF HoldsRun, RunFrom
    <2>6. BufferFits(q)
      <3>1. f.buf \in Seq(Nat) /\ (f.buf = <<>> \/ Feed(Last(f.buf)))
        BY <1>5, <2>1 DEF BufferFits
      <3>. QED
        BY <1>7, <1>11, <1>13, <2>4, <3>1 DEF BufferFits
    <2>7. Reader(q, len)
      BY <1>11, <1>13, <2>5, <2>6 DEF Reader
    <2>8. OnALine(q, len)
      BY <1>2, <1>3, <1>6, <1>7, <1>11, <1>13, <2>4 DEF OnALine
    <2>. QED
      BY <1>11, <1>13, <2>7, <2>8
  <1>. QED
    BY <1>10, <1>12, <1>13

\* Where the offsets are one span there is nothing to seek.
LEMMA SeekStraight ==
  ASSUME len \in Nat, NEW r, Reader(r, len), Straight(r), NEW f, f = Reopen(r), f.offsets = r.offsets,
         NEW gap, gap = FirstGap(f.offsets), NEW q, q = StartOver(SeekTo(f, gap))
  PROVE  Reader(q, len) /\ Straight(q)
  <1>1. Inner(f) /\ SameReader(f, r)
    BY ReopenShape DEF Reader
  <1>2. Reader(f, len) /\ NextByte(f) = NextByte(r) /\ f.offset = r.offset
    BY <1>1, SameReaders DEF SameReader
  <1>3. Straight(f)
    BY <1>2 DEF Straight
  <1>4. f.pos \in 0 .. len /\ Len(f.held) \in Nat /\ NextByte(f) = f.pos - Len(f.held)
    BY <1>2, LenProperties DEF Reader, HoldsRun, RunFrom, NextByte
  <1>5. f.offset \in Nat /\ f.offset <= len /\ f.offsets = From0(f.offset)
    BY <1>3, <1>4 DEF Straight
  <1>6. gap.end = NoEnd /\ gap.start = f.offset
    <2>1. CASE f.offset = 0
      <3>1. f.offsets = <<>>
        BY <1>5, <2>1 DEF From0
      <3>. QED
        BY <2>1, <3>1 DEF FirstGap, Span
    <2>2. CASE f.offset # 0
      <3> DEFINE e == Span(0, f.offset)
      <3>1. f.offsets = <<e>>
        BY <1>5, <2>2 DEF From0
      <3>2. e.start = 0 /\ e.end = f.offset
        BY DEF Span
      <3> HIDE DEF e
      <3>3. f.offsets # <<>> /\ f.offsets[1] = e /\ Len(f.offsets) = 1
        BY <3>1
      <3>4. gap = Span(e.end, NoEnd)
        BY <3>2, <3>3 DEF FirstGap
      <3>. QED
        BY <3>2, <3>4 DEF Span
    <2>. QED
      BY <2>1, <2>2
  <1>7. SeekTo(f, gap) = f
    BY <1>6 DEF SeekTo
  <1>8. q = f
    BY <1>5, <1>7 DEF StartOver
  <1>. QED
    BY <1>2, <1>3, <1>8
\* A read never has the target of a gap that was closed before: it ends in the gap.
LEMMA TargetAhead ==
  ASSUME len \in Nat, NEW f, Lined(f.offsets), NEW gap, gap = FirstGap(f.offsets), NEW q,
         q.offsets = f.offsets, q.offset = gap.start, q.pos \in Nat, gap.end # NoEnd => q.pos = gap.start,
         NEW s, s = [open |-> TRUE, total |-> 0, target |-> TargetOf(gap, q)]
  PROVE  StreamType(s) /\ (s.target # Huge => Ahead(q, s))
  <1>1. /\ gap.start \in Nat
        /\ \/ gap.end = NoEnd /\ \A b \in Covered(f.offsets) : b < gap.start
           \/ /\ gap.end # NoEnd /\ gap.end \in Nat /\ Feed(gap.end) /\ gap.start < gap.end
              /\ \A b \in Covered(f.offsets) : b < gap.start \/ b > gap.end
    BY FirstGapOfLines
  <1>2. s.open = TRUE /\ s.total = 0 /\ s.target = TargetOf(gap, q)
    OBVIOUS
  <1>3. Huge \in Int
    BY TailedFileAssumption DEF Huge
  <1>4. CASE gap.end = NoEnd /\ \A b \in Covered(f.offsets) : b < gap.start
    <2>1. TargetOf(gap, q) = IF len - q.pos < 0 THEN Huge ELSE len - q.pos
      BY <1>4 DEF TargetOf
    <2>2. TargetOf(gap, q) \in Int
      BY <1>3, <2>1
    <2>. QED
      BY <1>2, <1>4, <2>2 DEF StreamType, Ahead
  <1>5. CASE /\ gap.end # NoEnd /\ gap.end \in Nat /\ Feed(gap.end) /\ gap.start < gap.end
             /\ \A b \in Covered(f.offsets) : b < gap.start \/ b > gap.end
    <2> DEFINE d == (gap.end - gap.start) - gap.start
    <2>1. TargetOf(gap, q) = IF d < 0 THEN Huge ELSE d
      BY <1>5 DEF TargetOf
    <2>2. d \in Int /\ d # 0
      BY <1>1, <1>5 DEF Feed
    <2>3. TargetOf(gap, q) \in Int
      BY <1>3, <2>1, <2>2
    <2>4. ASSUME s.target # Huge PROVE Ahead(q, s)
      <3>1. d > 0 /\ s.target = d
        BY <1>2, <2>1, <2>2, <2>4
      <3>2. Covered(f.offsets) \subseteq Nat
        BY LinedCoversWhole
      <3>3. \A b \in Nat : b > gap.end => b >= gap.start - 0 + d
        BY <1>1, <1>5
      <3> HIDE DEF d
      <3>4. ASSUME NEW b \in Covered(f.offsets)
            PROVE  b < gap.start \/ (s.target > 0 /\ b >= gap.start - s.total + s.target)
        <4>1. b \in Nat /\ (b < gap.start \/ b > gap.end)
          BY <1>5, <3>2
        <4>. QED
          BY <1>2, <3>1, <3>3, <4>1
      <3>. QED
        BY <3>4 DEF Ahead
    <2>. QED
      BY <1>2, <2>3, <2>4 DEF StreamType
  <1>. QED
    BY <1>1, <1>4, <1>5

LEMMA TailFileStep ==
  ASSUME TailInv, TailFile, len' = len, delay' = delay
  PROVE  TailInv'
  <1>1. PICK f : /\ f = Reopen(inner)
                 /\ inner' = StartOver(SeekTo(f, FirstGap(f.offsets)))
                 /\ stream' = IF inner'.offset = len THEN Closed
                              ELSE [open |-> TRUE, total |-> 0,
                                    target |-> TargetOf(FirstGap(f.offsets), inner')]
                 /\ out' = [out EXCEPT
                       !.slips = @
                           \cup (IF Stale(f, inner') THEN {"seek"} ELSE {})
                           \cup (IF ~Reopened(inner, f) THEN {"remove"} ELSE {})
                           \cup (IF "half" \in out.slips /\ f.offsets # inner.offsets
                                 THEN {"moved"} ELSE {}),
                       !.over = @ \/ stream'.target = Huge]
    BY DEF TailFile
  <1>2. PICK q, s, gap : q = inner' /\ s = stream' /\ gap = FirstGap(f.offsets)
    OBVIOUS
  <1> DEFINE A == out.slips
                  \cup (IF Stale(f, q) THEN {"seek"} ELSE {})
                  \cup (IF ~Reopened(inner, f) THEN {"remove"} ELSE {})
                  \cup (IF "half" \in out.slips /\ f.offsets # inner.offsets THEN {"moved"} ELSE {})
             v == out.over \/ s.target = Huge
  <1>3. len \in Nat /\ len \in 0 .. 2 * MaxLines /\ OutType(out)
    BY DEF TailInv
  <1>4. /\ out' = [out EXCEPT !.slips = A, !.over = v] /\ q = StartOver(SeekTo(f, gap))
        /\ s = Closed \/ s = [open |-> TRUE, total |-> 0, target |-> TargetOf(gap, q)]
    BY <1>1, <1>2
  <1>5. v \in BOOLEAN
    BY <1>3 DEF OutType
  <1>6. /\ out.slips \subseteq A
        /\ Stale(f, q) => "seek" \in A
        /\ ~Reopened(inner, f) => "remove" \in A
        /\ "half" \in out.slips /\ f.offsets # inner.offsets => "moved" \in A
    OBVIOUS
  <1>7. out.over => v
    OBVIOUS
  <1>8. s.target = Huge => v
    OBVIOUS
  <1> HIDE DEF A, v
  <1>9. OutType(out') /\ out'.slips = A /\ out'.sent = out.sent /\ out'.odd = out.odd /\ out'.over = v
    <2>1. Turned([out EXCEPT !.slips = A, !.over = v], out, A, v)
      BY <1>3, <1>5, OutTurned
    <2>2. Turned(out', out, A, v)
      BY <1>4, <2>1
    <2>. QED
      BY <2>2 DEF Turned
  <1>10. StreamType(Closed) /\ ~ Closed.open
    BY DEF StreamType, Closed, NoTarget
  <1>11. ASSUME Steady(out') PROVE Follows(q, len, delay, out', s)
    <2>1. /\ Steady(out) /\ ~ Stale(f, q) /\ Reopened(inner, f)
          /\ "half" \in out.slips => f.offsets = inner.offsets
          /\ Calm(out') => Calm(out) /\ s.target # Huge
      BY <1>6, <1>7, <1>8, <1>9, <1>11 DEF Steady, Calm
    <2>2. Follows(inner, len, delay, out, stream)
      BY <2>1 DEF TailInv
    <2>3. Reader(inner, len) /\ ~ out'.odd
      BY <1>9, <2>2 DEF Follows
    <2>4. Inner(inner)
      BY <2>3 DEF Reader
    <2>5. CASE "half" \in out.slips
      <3>1. Straight(inner)
        BY <2>2, <2>5 DEF Follows
      <3>2. Reader(q, len) /\ Straight(q)
        BY <1>1, <1>2, <1>3, <1>4, <2>1, <2>3, <2>5, <3>1, SeekStraight
      <3>3. "half" \in out'.slips /\ ~ Calm(out')
        BY <1>6, <1>9, <2>5 DEF Calm
      <3>4. StreamType(s)
        <4>1. TargetOf(gap, q) \in Int
          <5>1. gap.end \in Int /\ gap.start \in Int
            <6>1. inner.offset \in Nat /\ f.offsets = From0(inner.offset)
              <7>1. NextByte(inner) \in Nat
                BY <1>3, <2>3, AvailableRuns
              <7>. QED
                BY <2>1, <2>5, <3>1, <7>1 DEF Straight
            <6>2. CASE f.offsets = <<>>
              BY <1>2, <6>2 DEF FirstGap, Span, NoEnd
            <6>3. CASE f.offsets = <<Span(0, inner.offset)>>
              <7> DEFINE e == Span(0, inner.offset)
              <7>1. e.start = 0 /\ e.end = inner.offset
                BY DEF Span
              <7> HIDE DEF e
              <7>2. f.offsets # <<>> /\ f.offsets[1] = e /\ Len(f.offsets) = 1
                BY <6>3 DEF e
              <7>3. gap = Span(e.end, NoEnd)
                BY <1>2, <7>1, <7>2 DEF FirstGap
              <7>. QED
                BY <6>1, <7>1, <7>3 DEF Span, NoEnd
            <6>. QED
              BY <6>1, <6>2, <6>3 DEF From0
          <5>2. q.pos \in Int /\ Huge \in Int
            BY <1>3, <3>2, TailedFileAssumption DEF Reader, HoldsRun, Huge
          <5>. QED
            BY <1>3, <5>1, <5>2 DEF TargetOf
        <4>2. PICK d : d = TargetOf(gap, q)
          OBVIOUS
        <4>3. s = Closed \/ s = [open |-> TRUE, total |-> 0, target |-> d]
          BY <1>4, <4>2
        <4>4. StreamType([open |-> TRUE, total |-> 0, target |-> d])
          BY <4>1, <4>2 DEF StreamType
        <4>. QED
          BY <1>10, <4>3, <4>4
      <3>. QED
        BY <2>3, <3>2, <3>3, <3>4 DEF Follows
    <2>6. CASE "half" \notin out.slips
      <3>1. OnALine(inner, len) /\ (delay = NotSet => Waiting(inner.buckets) = {})
        BY <2>2, <2>6 DEF Follows
      <3>2. Lined(inner.offsets) /\ LinedBuckets(inner.buckets)
        BY <3>1 DEF OnALine
      <3>3. /\ Reader(q, len) /\ OnALine(q, len)
            /\ q.offsets = f.offsets /\ q.buckets = f.buckets /\ q.offset = gap.start
            /\ gap.end # NoEnd => q.pos = gap.start
        BY <1>1, <1>2, <1>3, <1>4, <2>1, <2>3, <3>1, SeekOnALine
      <3>4. Waiting(f.buckets) \subseteq Waiting(inner.buckets)
        BY <1>1, <2>4, <3>2, ReopenBuckets
      <3>5. Lined(f.offsets) /\ Covered(inner.offsets) \ Waiting(inner.buckets) \subseteq Covered(f.offsets)
        BY <2>1, <3>2, ReopenedOffsets
      <3>6. q.pos \in Nat
        BY <1>3, <3>3 DEF Reader, HoldsRun
      <3>7. StreamType(s) /\ (s.open /\ s.target # Huge => Ahead(q, s))
        <4>1. CASE s = Closed
          BY <1>10, <4>1
        <4>2. CASE s = [open |-> TRUE, total |-> 0, target |-> TargetOf(gap, q)]
          BY <1>2, <1>3, <3>3, <3>5, <3>6, <4>2, TargetAhead
        <4>. QED
          BY <1>4, <4>1, <4>2
      <3>8. ASSUME Calm(out') PROVE SentOnce(q, out')
        <4>1. SentOnce(inner, out)
          BY <2>1, <2>2, <3>8 DEF Follows
        <4>. QED
          BY <1>9, <3>3, <3>4, <3>5, <4>1 DEF SentOnce
      <3>9. "half" \in out'.slips => "half" \in A /\ Straight(q)
        <4>1. \/ A = out.slips
              \/ ~ Steady(out')
          BY <1>9, <2>1, <2>6 DEF A
        <4>. QED
          BY <1>9, <1>11, <2>6, <4>1
      <3>10. delay = NotSet => Waiting(q.buckets) = {}
        BY <3>1, <3>3, <3>4
      <3>. QED
        BY <2>1, <2>3, <3>3, <3>7, <3>8, <3>9, <3>10 DEF Follows
    <2>. QED
      BY <2>5, <2>6
  <1>. QED
    BY <1>2, <1>3, <1>9, <1>11 DEF TailInv
---------------------------------------------------------------------------
(* A line is read, and what the pipeline does with it.                     *)

LEMMA SentType ==
  ASSUME NEW o, OutType(o), NEW content, NEW q, q = Sent(o, content)
  PROVE  OutType(q) /\ q.slips = o.slips /\ q.over = o.over
  <1> DEFINE k == content[1] \div 2
             v == Min({2, o.sent[k] + 1})
             f == [o.sent EXCEPT ![k] = v]
  <1>1. CASE content = Whole(k)
    <2>1. q = [o EXCEPT !.sent[k] = v]
      BY <1>1 DEF Sent
    <2>2. f \in [Lines -> 0 .. 2]
      <3>1. o.sent \in [Lines -> 0 .. 2]
        BY DEF OutType
      <3>2. ASSUME k \in Lines PROVE v \in 0 .. 2
        <4>1. \A a \in 0 .. 2 : Min({2, a + 1}) \in 0 .. 2
          BY DEF Min
        <4>2. PICK a \in 0 .. 2 : a = o.sent[k]
          BY <3>1, <3>2
        <4>3. v = Min({2, a + 1})
          BY <4>2
        <4>. QED
          BY <4>1, <4>3
      <3> HIDE DEF v, k
      <3>. QED
        BY <3>1, <3>2
    <2> HIDE DEF v, k
    <2>3. q = [o EXCEPT !.sent = f]
      BY <2>1 DEF OutType, Out
    <2> HIDE DEF f
    <2> DEFINE c == [sent |-> f, odd |-> o.odd, slips |-> o.slips, over |-> o.over, unsent |-> o.unsent]
    <2>4. q = c
      BY <2>3 DEF OutType, Out
    <2>5. Out(c) /\ c.slips = o.slips /\ c.sent = f /\ c.over = o.over
      BY DEF Out
    <2>. QED
      BY <2>2, <2>4, <2>5 DEF OutType
  <1>2. CASE content # Whole(k)
    <2> DEFINE c == [sent |-> o.sent, odd |-> TRUE, slips |-> o.slips, over |-> o.over, unsent |-> o.unsent]
    <2>1. q = [o EXCEPT !.odd = TRUE]
      BY <1>2 DEF Sent
    <2>2. q = c
      BY <2>1 DEF OutType, Out
    <2>3. Out(c) /\ c.slips = o.slips /\ c.sent = o.sent /\ c.over = o.over
      BY DEF Out
    <2>. QED
      BY <2>2, <2>3 DEF OutType
  <1>. QED
    BY <1>1, <1>2

\* The reader with its place and its offsets moved on.
MovedTo(q, r, a, os) ==
    /\ Inner(q) /\ q.offset = a /\ q.offsets = os /\ q.held = r.held /\ q.pos = r.pos
    /\ q.buf = r.buf /\ q.buckets = r.buckets

LEMMA AtLine ==
  ASSUME NEW r, Inner(r), NEW a, NEW os
  PROVE  MovedTo([r EXCEPT !.offset = a, !.offsets = os], r, a, os)
  <1> DEFINE c == [offsets |-> os, offset |-> a, held |-> r.held, pos |-> r.pos,
                   buf |-> r.buf, buckets |-> r.buckets]
  <1>1. PICK q : q = [r EXCEPT !.offset = a, !.offsets = os]
    OBVIOUS
  <1>2. q = c
    BY <1>1 DEF Inner
  <1>3. MovedTo(c, r, a, os)
    BY DEF MovedTo, Inner
  <1>. QED
    BY <1>1, <1>2, <1>3

LEMMA SameBytes ==
  ASSUME NEW r, NEW q, NEW n, Reader(r, n), Inner(q), q.held = r.held, q.pos = r.pos, q.buf = r.buf
  PROVE  Reader(q, n) /\ NextByte(q) = NextByte(r)
  <1>1. NextByte(q) = NextByte(r)
    BY DEF NextByte
  <1>2. HoldsRun(q, n)
    BY <1>1 DEF Reader, HoldsRun
  <1>3. BufferFits(q)
    BY <1>1 DEF Reader, BufferFits
  <1>. QED
    BY <1>1, <1>2, <1>3 DEF Reader

\* The line that is read is the one at the reader, whatever the offsets say.
LEMMA ContentOfLine ==
  ASSUME len \in 0 .. 2 * MaxLines, Reader(inner, len), FeedsIn(Taken) # {},
         NEW a, NEW os, NEW tf, MovedTo(tf, AfterRead, a, os),
         NEW p, p = NextByte(inner)
  PROVE  /\ Reader(tf, len) /\ NextByte(tf) = p + Len(Taken) /\ p \in Nat
         /\ tf.offset = a /\ tf.offsets = os /\ tf.buckets = inner.buckets
         /\ p \div 2 \in Lines /\ tf.buf = Whole(p \div 2)
         /\ Len(Taken) = (IF Feed(p) THEN 1 ELSE 2)
         /\ Len(Kept) = (IF Feed(p) THEN 1 ELSE 0)
         /\ p + Len(Taken) <= len
  <1>1. len \in Nat
    OBVIOUS
  <1>2. PICK r : r = AfterRead
    OBVIOUS
  <1>3. /\ Reader(r, len) /\ NextByte(r) = p + Len(Taken)
        /\ Len(Kept) = (IF Feed(p) THEN 1 ELSE 0)
        /\ r.buf = Whole(p \div 2)
    BY <1>1, <1>2, Reading
  <1>4. Inner(r) /\ r.buckets = inner.buckets
    BY <1>2, ReadShape DEF Reader
  <1>6. /\ Inner(tf) /\ tf.offset = a /\ tf.offsets = os /\ tf.held = r.held /\ tf.pos = r.pos
        /\ tf.buf = r.buf /\ tf.buckets = r.buckets
    BY <1>2 DEF MovedTo
  <1>7. Reader(tf, len) /\ NextByte(tf) = NextByte(r)
    BY <1>3, <1>6, SameBytes
  <1>8. Len(Taken) = (IF Feed(p) THEN 1 ELSE 2)
    <2>1. TakesLine(Taken, p)
      BY <1>1, TakenBytes
    <2>2. \A u, w : Len(<<u>>) = 1 /\ Len(<<u, w>>) = 2
      OBVIOUS
    <2>. QED
      BY <2>1, <2>2 DEF TakesLine
  <1>9. p \in Nat
    BY <1>1, AvailableRuns
  <1>10. p + Len(Taken) <= len
    <2>1. tf.pos \in 0 .. len /\ Len(tf.held) \in Nat /\ NextByte(tf) = tf.pos - Len(tf.held)
      BY <1>7, LenProperties DEF Reader, HoldsRun, RunFrom, NextByte
    <2>2. tf.pos - Len(tf.held) <= len
      BY <1>1, <2>1
    <2>. QED
      BY <1>3, <1>7, <2>1, <2>2
  <1>11. p \div 2 \in Lines
    <2>1. p + (IF Feed(p) THEN 1 ELSE 2) <= 2 * MaxLines
      BY <1>8, <1>9, <1>10, TailedFileAssumption
    <2>2. p \div 2 \in Nat /\ p \div 2 <= MaxLines - 1
      BY <1>9, <2>1, TailedFileAssumption DEF Feed
    <2>. QED
      BY <2>2, TailedFileAssumption DEF Lines
  <1>. QED
    BY <1>3, <1>4, <1>6, <1>7, <1>8, <1>9, <1>10, <1>11

LEMMA LineOnALine ==
  ASSUME len \in 0 .. 2 * MaxLines, Reader(inner, len), OnALine(inner, len), FeedsIn(Taken) # {},
         NEW a, a = inner.offset + Len(Taken), NEW b, b = Max({0, inner.offset - Len(Kept)}),
         NEW x, x = Span(b, a),
         NEW tf, MovedTo(tf, AfterRead, a, Insert(inner.offsets, x)),
         NEW k, k = NextByte(inner) \div 2
  PROVE  /\ x = LineAt(k) /\ inner.offset = 2 * k /\ a = inner.offset + 2 /\ Len(Taken) = 2
         /\ OnALine(tf, len)
         /\ Covered(tf.offsets) = Covered(inner.offsets) \cup SpanBytes(LineAt(k))
  <1> DEFINE p == NextByte(inner)
             os == Insert(inner.offsets, x)
  <1>1. p = inner.offset /\ ~ Feed(p)
    BY DEF OnALine
  <1>2. MovedTo(tf, AfterRead, a, os)
    OBVIOUS
  <1> HIDE DEF os, p
  <1>3. /\ Reader(tf, len) /\ NextByte(tf) = p + Len(Taken) /\ p \in Nat
        /\ tf.offset = a /\ tf.offsets = os /\ tf.buckets = inner.buckets
        /\ p \div 2 \in Lines /\ Len(Taken) = 2 /\ Len(Kept) = 0 /\ p + Len(Taken) <= len
    BY <1>1, <1>2, ContentOfLine DEF p
  <1>4. p = 2 * k /\ k \in Nat /\ k \in Lines
    BY <1>1, <1>3 DEF Feed, p
  <1>5. b = p /\ a = p + 2
    <2>1. Max({0, p - 0}) = p
      BY <1>3 DEF Max
    <2>. QED
      BY <1>1, <1>3, <2>1
  <1>6. x = LineAt(k)
    BY <1>4, <1>5 DEF LineAt
  <1>7. Lined(os) /\ Covered(os) = Covered(inner.offsets) \cup SpanBytes(LineAt(k))
    <2>1. InsertsLine(inner.offsets, k)
      BY <1>4, LineInserted DEF OnALine
    <2>. QED
      BY <1>6, <2>1 DEF InsertsLine, os
  <1>8. SpanBytes(LineAt(k)) = {p, p + 1}
    BY <1>4, LineIsWhole
  <1>9. OnALine(tf, len)
    <2>1. tf.offset = NextByte(tf) /\ ~ Feed(tf.offset)
      BY <1>1, <1>3, <1>5 DEF Feed
    <2>2. \A c \in Covered(tf.offsets) : c < len
      <3>1. \A c \in Covered(inner.offsets) : c < len
        BY DEF OnALine
      <3>2. p < len /\ p + 1 < len
        BY <1>3
      <3>. QED
        BY <1>3, <1>7, <1>8, <3>1, <3>2
    <2>3. \A c \in Nat : c < tf.offset => c \in Covered(tf.offsets)
      <3>1. \A c \in Nat : c < p => c \in Covered(inner.offsets)
        BY <1>1 DEF OnALine
      <3>2. \A c \in Nat : c < p + 2 => c < p \/ c = p \/ c = p + 1
        BY <1>3
      <3>. QED
        BY <1>3, <1>5, <1>7, <1>8, <3>1, <3>2
    <2>. QED
      BY <1>3, <1>7, <2>1, <2>2, <2>3 DEF OnALine
  <1>. QED
    BY <1>1, <1>3, <1>4, <1>5, <1>6, <1>7, <1>9

LEMMA LineStraight ==
  ASSUME len \in 0 .. 2 * MaxLines, Reader(inner, len), Straight(inner), FeedsIn(Taken) # {},
         NEW a, a = inner.offset + Len(Taken), NEW b, b = Max({0, inner.offset - Len(Kept)}),
         NEW tf, MovedTo(tf, AfterRead, a, Insert(inner.offsets, Span(b, a)))
  PROVE  Straight(tf)
  <1> DEFINE p == NextByte(inner)
             os == Insert(inner.offsets, Span(b, a))
  <1>1. MovedTo(tf, AfterRead, a, os)
    OBVIOUS
  <1> HIDE DEF os, p
  <1>2. /\ NextByte(tf) = p + Len(Taken) /\ p \in Nat
        /\ tf.offset = a /\ tf.offsets = os
        /\ Len(Taken) = (IF Feed(p) THEN 1 ELSE 2)
        /\ Len(Kept) = (IF Feed(p) THEN 1 ELSE 0)
    BY <1>1, ContentOfLine DEF p
  <1>3. inner.offset \in 0 .. p /\ inner.offset \in Nat /\ inner.offsets = From0(inner.offset)
    BY <1>2 DEF Straight, p
  <1>4. Len(Taken) \in 1 .. 2 /\ Len(Kept) \in 0 .. 1
    BY <1>2
  <1>5. b \in Nat /\ b <= inner.offset
    <2>1. PICK v \in Int : v = inner.offset - Len(Kept)
      BY <1>3, <1>4
    <2>2. v <= inner.offset
      BY <1>3, <1>4, <2>1
    <2>3. Max({0, v}) = IF v >= 0 THEN v ELSE 0
      BY DEF Max
    <2>4. b = IF v >= 0 THEN v ELSE 0
      BY <2>1, <2>3
    <2>. QED
      BY <1>3, <2>2, <2>4
  <1>6. a \in Nat /\ inner.offset < a
    BY <1>3, <1>4
  <1>7. os = From0(a)
    BY <1>3, <1>5, <1>6, TailInserted DEF os
  <1>8. a \in 0 .. p + Len(Taken)
    BY <1>2, <1>3, <1>4
  <1>. QED
    BY <1>2, <1>7, <1>8 DEF Straight
\* What the pipeline makes of the reader and of the history.
Skips(q, o, tf) == q = tf /\ o = out
SendsUnset(q, o, content, tf) == delay = NotSet /\ q = tf /\ o = Sent(out, content)
SendsCommitted(q, o, content, x, tf) ==
    /\ q = [tf EXCEPT !.buckets = Commit(tf.buckets, x).buckets]
    /\ o = Sent(Slipped(out, "remove", ~ Commit(tf.buckets, x).exact), content)
PutsOff(q, o, x, tf, i, unsent) ==
    /\ delay # NotSet
    /\ q = [tf EXCEPT !.buckets = Retry(tf.buckets, x, i).buckets]
    /\ o = [Slipped(out, "remove", ~ Retry(tf.buckets, x, i).exact) EXCEPT !.unsent = unsent]

LEMMA PipelineCases ==
  ASSUME NEW content, NEW x, NEW tf, Pipeline(content, x, tf)
  PROVE  \/ Skips(inner', out', tf) \/ SendsUnset(inner', out', content, tf)
         \/ SendsCommitted(inner', out', content, x, tf)
         \/ \E time, n : \E i \in Places(tf.buckets, time, n) : \E unsent :
               PutsOff(inner', out', x, tf, i, unsent)
  <1> DEFINE commit == Commit(tf.buckets, x)
             committed == [tf EXCEPT !.buckets = commit.buckets]
             o == Slipped(out, "remove", ~commit.exact)
  <1>1. CASE Validated(content, tf, committed, o)
    <2> DEFINE skipped == content = Whole(content[1] \div 2) /\ content[1] \div 2 \in Excluded
    <2>1. /\ inner' = IF skipped THEN tf ELSE committed
          /\ out' = IF skipped THEN out ELSE Sent(o, content)
      BY <1>1 DEF Validated
    <2>2. skipped => Skips(inner', out', tf)
      BY <2>1 DEF Skips
    <2>3. ~ skipped => SendsCommitted(inner', out', content, x, tf)
      BY <2>1 DEF SendsCommitted
    <2>. QED
      BY <2>2, <2>3
  <1>2. CASE PutBack(x, tf)
    <2> DEFINE n == NextTry(tf.buckets, x)
               time == delay * n
               k == {x.start \div 2}
    <2>1. delay # NotSet
      BY <1>2 DEF PutBack
    <2>2. PICK i \in Places(tf.buckets, time, n) :
             /\ inner' = [tf EXCEPT !.buckets = Retry(tf.buckets, x, i).buckets]
             /\ out' = [Slipped(out, "remove", ~ Retry(tf.buckets, x, i).exact) EXCEPT
                           !.unsent = IF Retry(tf.buckets, x, i).send THEN @ ELSE @ \cup k]
      BY <1>2 DEF PutBack
    <2>3. PICK unsent_ : out' = [Slipped(out, "remove", ~ Retry(tf.buckets, x, i).exact) EXCEPT
                                    !.unsent = unsent_]
      BY <2>2
    <2>4. PutsOff(inner', out', x, tf, i, unsent_)
      BY <2>1, <2>2, <2>3 DEF PutsOff
    <2> HIDE DEF n, time
    <2>. QED
      BY <2>4
  <1>3. CASE SentAsIs(content, x, tf, committed, o)
    <2>1. delay = NotSet => SendsUnset(inner', out', content, tf)
      BY <1>3 DEF SentAsIs, SendsUnset
    <2>2. delay # NotSet => SendsCommitted(inner', out', content, x, tf)
      BY <1>3 DEF SentAsIs, SendsCommitted
    <2>. QED
      BY <2>1, <2>2
  <1>. QED
    BY <1>1, <1>2, <1>3 DEF Pipeline
Outcome(q, o, content, x, tf) ==
    \/ Skips(q, o, tf) \/ SendsUnset(q, o, content, tf) \/ SendsCommitted(q, o, content, x, tf)
    \/ \E time, n : \E i \in Places(tf.buckets, time, n) : \E unsent : PutsOff(q, o, x, tf, i, unsent)

LEMMA OutcomeHistory ==
  ASSUME OutType(out), NEW q, NEW o, NEW content, NEW x, NEW tf, Outcome(q, o, content, x, tf)
  PROVE  /\ OutType(o) /\ out.slips \subseteq o.slips /\ o.over = out.over
         /\ \A k \in Lines : content = Whole(k) => o.odd = out.odd
  <1>1. CASE Skips(q, o, tf)
    BY <1>1 DEF Skips
  <1>2. CASE SendsUnset(q, o, content, tf)
    <2>1. o = Sent(out, content)
      BY <1>2 DEF SendsUnset
    <2>2. OutType(o) /\ o.slips = out.slips /\ o.over = out.over
      BY <2>1, SentType
    <2>3. \A k \in Lines : content = Whole(k) => o.odd = out.odd
      BY <2>1, SentWhole
    <2>. QED
      BY <2>2, <2>3
  <1>3. CASE SendsCommitted(q, o, content, x, tf)
    <2>1. PICK e, c : /\ c = Slipped(out, "remove", ~ e)
                      /\ o = Sent(c, content)
      BY <1>3 DEF SendsCommitted
    <2>2. OutType(c) /\ c.odd = out.odd /\ c.over = out.over /\ out.slips \subseteq c.slips
      BY <2>1, SlippedUnless
    <2>3. OutType(o) /\ o.slips = c.slips /\ o.over = c.over
      BY <2>1, <2>2, SentType
    <2>4. \A k \in Lines : content = Whole(k) => o.odd = c.odd
      BY <2>1, <2>2, SentWhole
    <2>. QED
      BY <2>2, <2>3, <2>4
  <1>4. CASE \E time, n : \E i \in Places(tf.buckets, time, n) : \E unsent : PutsOff(q, o, x, tf, i, unsent)
    <2>1. \E i, u : PutsOff(q, o, x, tf, i, u)
      BY <1>4
    <2>1a. PICK i, u : PutsOff(q, o, x, tf, i, u)
      BY <2>1
    <2>1b. PICK e : e = Retry(tf.buckets, x, i).exact
      OBVIOUS
    <2>1c. PICK c : c = Slipped(out, "remove", ~ e) /\ o = [c EXCEPT !.unsent = u]
      BY <2>1a, <2>1b DEF PutsOff
    <2>2. OutType(c) /\ c.odd = out.odd /\ c.over = out.over /\ out.slips \subseteq c.slips
      BY <2>1c, SlippedUnless
    <2>3. OutType(o) /\ o.slips = c.slips /\ o.odd = c.odd /\ o.over = c.over
      BY <2>1c, <2>2, OutUnsent
    <2>. QED
      BY <2>2, <2>3
  <1>. QED
    BY <1>1, <1>2, <1>3, <1>4 DEF Outcome

\* Whatever happens to the line, the reader itself goes on after it.
LEMMA OutcomeReader ==
  ASSUME NEW q, NEW o, NEW content, NEW x, NEW tf, Inner(tf), Outcome(q, o, content, x, tf)
  PROVE  Inner(q) /\ SameReader(q, tf) /\ q.offsets = tf.offsets
  <1>1. q = tf \/ \E bs : q = [tf EXCEPT !.buckets = bs]
    BY DEF Outcome, Skips, SendsUnset, SendsCommitted, PutsOff
  <1>2. CASE q = tf
    BY <1>2 DEF SameReader
  <1>3. CASE \E bs : q = [tf EXCEPT !.buckets = bs]
    BY <1>3, WithBuckets
  <1>. QED
    BY <1>1, <1>2, <1>3

\* The lines that wait and the lines that were sent, after line k.
StillWaits(q, o, bs, k) == o.sent = out.sent /\ Waiting(q.buckets) \subseteq Waiting(bs) \cup SpanBytes(LineAt(k))
NoLongerWaits(q, o, bs, k) ==
    /\ \A j \in Lines : j # k => o.sent[j] = out.sent[j]
    /\ out.sent[k] = 0 => o.sent[k] = 1
    /\ Waiting(q.buckets) \subseteq Waiting(bs) \ SpanBytes(LineAt(k))

LEMMA OutcomeBuckets ==
  ASSUME OutType(out), NEW k \in Lines, NEW q, NEW o, NEW tf, Inner(tf), LinedBuckets(tf.buckets),
         delay = NotSet => Waiting(tf.buckets) = {},
         Outcome(q, o, Whole(k), LineAt(k), tf), Steady(o)
  PROVE  /\ LinedBuckets(q.buckets) /\ (delay = NotSet => Waiting(q.buckets) = {})
         /\ StillWaits(q, o, tf.buckets, k) \/ NoLongerWaits(q, o, tf.buckets, k)
         /\ o.slips = out.slips
  <1> DEFINE x == LineAt(k)
             bs == tf.buckets
  <1>1. CASE Skips(q, o, tf)
    BY <1>1 DEF Skips, StillWaits
  <1>2. CASE SendsUnset(q, o, Whole(k), tf)
    <2>1. delay = NotSet /\ q = tf /\ o = Sent(out, Whole(k))
      BY <1>2 DEF SendsUnset
    <2>2. /\ o.slips = out.slips /\ \A j \in Lines : j # k => o.sent[j] = out.sent[j]
          /\ out.sent[k] = 0 => o.sent[k] = 1
      BY <2>1, SentWhole
    <2>3. NoLongerWaits(q, o, bs, k)
      BY <2>1, <2>2 DEF NoLongerWaits
    <2>. QED
      BY <2>1, <2>2, <2>3
  <1>3. CASE SendsCommitted(q, o, Whole(k), x, tf)
    <2>1. PICK e, c, left : /\ e = Commit(bs, x).exact /\ left = Commit(bs, x).buckets
                            /\ c = Slipped(out, "remove", ~ e)
                            /\ o = Sent(c, Whole(k)) /\ q = [tf EXCEPT !.buckets = left]
      BY <1>3 DEF SendsCommitted
    <2>2. OutType(c) /\ c.sent = out.sent /\ (e => c = out) /\ (~ e => "remove" \in c.slips)
      BY <2>1, SlippedUnless
    <2>3. /\ o.slips = c.slips /\ \A j \in Lines : j # k => o.sent[j] = out.sent[j]
          /\ out.sent[k] = 0 => o.sent[k] = 1
      BY <2>1, <2>2, SentWhole
    <2>4. e
      BY <2>2, <2>3 DEF Steady
    <2>5. LinedBuckets(left) /\ Waiting(left) \subseteq Waiting(bs) \ SpanBytes(x)
      BY <2>1, <2>4, CommitKeeps
    <2>6. q.buckets = left
      BY <2>1, WithBuckets
    <2>7. NoLongerWaits(q, o, bs, k)
      BY <2>3, <2>5, <2>6 DEF NoLongerWaits
    <2>. QED
      BY <2>2, <2>3, <2>4, <2>5, <2>6, <2>7
  <1>4. CASE \E time, n : \E i \in Places(bs, time, n) : \E unsent : PutsOff(q, o, x, tf, i, unsent)
    <2>1. PICK time, n : \E i \in Places(bs, time, n) : \E unsent : PutsOff(q, o, x, tf, i, unsent)
      BY <1>4
    <2>2. PICK i \in Places(bs, time, n) : \E unsent : PutsOff(q, o, x, tf, i, unsent)
      BY <2>1
    <2>3. i \in {New} \cup 1 .. Len(bs)
      BY PlacesInRange
    <2>3a. PICK u : PutsOff(q, o, x, tf, i, u)
      BY <2>2
    <2>3b. PICK e, left : e = Retry(bs, x, i).exact /\ left = Retry(bs, x, i).buckets
      OBVIOUS
    <2>3c. PICK c : c = Slipped(out, "remove", ~ e)
      OBVIOUS
    <2>4. /\ e = Retry(bs, x, i).exact /\ left = Retry(bs, x, i).buckets
          /\ c = Slipped(out, "remove", ~ e)
          /\ o = [c EXCEPT !.unsent = u] /\ q = [tf EXCEPT !.buckets = left]
          /\ delay # NotSet
      BY <2>3a, <2>3b, <2>3c DEF PutsOff
    <2>5. OutType(c) /\ c.sent = out.sent /\ (e => c = out) /\ (~ e => "remove" \in c.slips)
      BY <2>4, SlippedUnless
    <2>6. o.slips = c.slips /\ o.sent = c.sent
      BY <2>4, <2>5, OutUnsent
    <2>7. e
      BY <2>5, <2>6 DEF Steady
    <2>8. LinedBuckets(left) /\ Waiting(left) \subseteq Waiting(bs) \cup SpanBytes(x)
      BY <2>3, <2>4, <2>7, RetryKeeps
    <2>9. q.buckets = left
      BY <2>4, WithBuckets
    <2>10. StillWaits(q, o, bs, k)
      BY <2>5, <2>6, <2>8, <2>9 DEF StillWaits
    <2>. QED
      BY <2>4, <2>5, <2>6, <2>7, <2>8, <2>9, <2>10
  <1>. QED
    BY <1>1, <1>2, <1>3, <1>4 DEF Outcome

LEMMA StillOnce ==
  ASSUME NEW k \in Lines, NEW r, NEW q, NEW o, SentOnce(r, out), out.sent[k] = 0,
         Covered(q.offsets) = Covered(r.offsets) \cup SpanBytes(LineAt(k)),
         StillWaits(q, o, r.buckets, k) \/ NoLongerWaits(q, o, r.buckets, k)
  PROVE  SentOnce(q, o)
  <1> DEFINE B(j) == SpanBytes(LineAt(j))
  <1>1. \A j \in Lines : j # k => B(j) \cap B(k) = {}
    <2> SUFFICES ASSUME NEW j \in Lines, j # k PROVE B(j) \cap B(k) = {}
      OBVIOUS
    <2>1. j \in Nat /\ k \in Nat
      BY TailedFileAssumption DEF Lines
    <2>2. B(j) = {2 * j, 2 * j + 1} /\ B(k) = {2 * k, 2 * k + 1}
      BY <2>1, LineIsWhole
    <2> HIDE DEF B
    <2>3. 2 * j # 2 * k /\ 2 * j # 2 * k + 1 /\ 2 * j + 1 # 2 * k /\ 2 * j + 1 # 2 * k + 1
      BY <2>1
    <2>. QED
      BY <2>2, <2>3
  <1>2. \A j \in Lines : out.sent[j] > 0 =>
           j # k /\ out.sent[j] = 1 /\ B(j) \subseteq Covered(r.offsets) /\ B(j) \cap Waiting(r.buckets) = {}
    BY DEF SentOnce
  <1> HIDE DEF B
  <1>3. ASSUME NEW j \in Lines, o.sent[j] > 0
        PROVE  o.sent[j] = 1 /\ B(j) \subseteq Covered(q.offsets) /\ B(j) \cap Waiting(q.buckets) = {}
    <2>1. CASE StillWaits(q, o, r.buckets, k)
      <3>1. out.sent[j] > 0 /\ o.sent[j] = out.sent[j]
        BY <1>3, <2>1 DEF StillWaits
      <3>2. Waiting(q.buckets) \subseteq Waiting(r.buckets) \cup B(k)
        BY <2>1 DEF StillWaits, B
      <3>. QED
        BY <1>1, <1>2, <3>1, <3>2
    <2>2. CASE NoLongerWaits(q, o, r.buckets, k)
      <3>1. Waiting(q.buckets) \subseteq Waiting(r.buckets) \ B(k)
        BY <2>2 DEF NoLongerWaits, B
      <3>2. CASE j = k
        <4>1. o.sent[j] = 1 /\ B(j) \subseteq Covered(q.offsets)
          BY <2>2, <3>2 DEF NoLongerWaits, B
        <4>. QED
          BY <3>1, <3>2, <4>1
      <3>3. CASE j # k
        <4>1. out.sent[j] > 0 /\ o.sent[j] = out.sent[j]
          BY <1>3, <2>2, <3>3 DEF NoLongerWaits
        <4>. QED
          BY <1>2, <3>1, <4>1
      <3>. QED
        BY <3>2, <3>3
    <2>. QED
      BY <2>1, <2>2
  <1>. QED
    BY <1>3 DEF SentOnce, B
LEMMA ReadLineStep ==
  ASSUME TailInv, ReadLine
  PROVE  TailInv'
  <1> DEFINE before == Max({0, inner.offset - Len(Kept)})
             after == inner.offset + Len(Taken)
             t == Len(Taken)
  <1>1. PICK a, b, x, tf : /\ a = after /\ b = before /\ x = Span(b, a)
                           /\ tf = [AfterRead EXCEPT !.offset = a, !.offsets = Insert(AfterRead.offsets, x)]
    OBVIOUS
  <1>2. /\ stream.open /\ ~ StreamEnds /\ FeedsIn(Taken) # {}
        /\ stream' = [stream EXCEPT !.total = @ + t]
        /\ Pipeline(tf.buf, x, tf) /\ len' = len /\ delay' = delay
    BY <1>1 DEF ReadLine
  <1> HIDE DEF before, after
  <1>3. len \in 0 .. 2 * MaxLines /\ OutType(out) /\ len \in Nat
    BY DEF TailInv
  <1>4. PICK q, o, s : q = inner' /\ o = out' /\ s = stream'
    OBVIOUS
  <1>5. Outcome(q, o, tf.buf, x, tf)
    BY <1>2, <1>4, PipelineCases DEF Outcome
  <1>6. OutType(o) /\ out.slips \subseteq o.slips /\ o.over = out.over
        /\ \A k \in Lines : tf.buf = Whole(k) => o.odd = out.odd
    BY <1>3, <1>5, OutcomeHistory
  <1>7. ASSUME Steady(o) PROVE Follows(q, len, delay, o, s)
    <2>1. Steady(out) /\ (Calm(o) => Calm(out))
      BY <1>6, <1>7 DEF Steady, Calm
    <2>2. Follows(inner, len, delay, out, stream) /\ Reader(inner, len) /\ StreamType(stream) /\ ~ out.odd
      BY <2>1 DEF TailInv, Follows
    <2> DEFINE p == NextByte(inner)
               k == p \div 2
    <2>3. AfterRead.offsets = inner.offsets /\ Inner(AfterRead)
      <3>1. PICK r : r = AfterRead
        OBVIOUS
      <3>2. r.offsets = inner.offsets /\ Inner(r)
        BY <2>2, <3>1, ReadShape DEF Reader
      <3>. QED
        BY <3>1, <3>2
    <2>4. MovedTo(tf, AfterRead, a, Insert(inner.offsets, x))
      <3>1. PICK os : os = Insert(inner.offsets, x)
        OBVIOUS
      <3>2. tf = [AfterRead EXCEPT !.offset = a, !.offsets = os]
        BY <1>1, <2>3, <3>1
      <3>3. MovedTo([AfterRead EXCEPT !.offset = a, !.offsets = os], AfterRead, a, os)
        BY <2>3, AtLine
      <3>. QED
        BY <3>1, <3>2, <3>3
    <2>5. /\ Reader(tf, len) /\ NextByte(tf) = p + t /\ p \in Nat
          /\ tf.offset = a /\ tf.offsets = Insert(inner.offsets, x) /\ tf.buckets = inner.buckets
          /\ k \in Lines /\ tf.buf = Whole(k)
          /\ t = (IF Feed(p) THEN 1 ELSE 2)
      <3>1. PICK os : os = Insert(inner.offsets, x)
        OBVIOUS
      <3>2. MovedTo(tf, AfterRead, a, os)
        BY <2>4, <3>1
      <3>. QED
        BY <1>2, <1>3, <2>2, <3>1, <3>2, ContentOfLine
    <2> HIDE DEF p, k, t
    <2>6. Inner(tf) /\ Inner(q) /\ SameReader(q, tf) /\ q.offsets = tf.offsets
      BY <1>5, <2>5, OutcomeReader DEF Reader
    <2>7. Reader(q, len) /\ NextByte(q) = NextByte(tf) /\ q.offset = tf.offset
      BY <2>5, <2>6, SameReaders DEF SameReader
    <2>8. ~ o.odd
      BY <1>6, <2>2, <2>5
    <2>9. t \in 1 .. 2 /\ t \in Nat
      BY <2>5
    <2>10. StreamType(s) /\ s.open = stream.open /\ s.total = stream.total + t /\ s.target = stream.target
      <3>1. stream \in [open : BOOLEAN, total : Nat, target : Int]
        BY <2>2 DEF StreamType
      <3>2. stream.total + t \in Nat
        BY <2>9, <3>1
      <3>. QED
        BY <1>2, <1>4, <3>1, <3>2 DEF StreamType
    <2>11. CASE "half" \in out.slips
      <3>1. Straight(inner)
        BY <2>2, <2>11 DEF Follows
      <3>2. Straight(tf)
        BY <1>1, <1>2, <1>3, <2>2, <2>4, <3>1, LineStraight DEF before, after
      <3>3. Straight(q)
        BY <2>6, <2>7, <3>2 DEF Straight
      <3>4. "half" \in o.slips /\ ~ Calm(o)
        BY <1>6, <2>11 DEF Calm
      <3>. QED
        BY <2>7, <2>8, <2>10, <3>3, <3>4 DEF Follows
    <2>12. CASE "half" \notin out.slips
      <3>1. OnALine(inner, len) /\ (delay = NotSet => Waiting(inner.buckets) = {})
        BY <2>2, <2>12 DEF Follows
      <3>2. /\ x = LineAt(k) /\ inner.offset = 2 * k /\ a = inner.offset + 2 /\ t = 2
            /\ OnALine(tf, len)
            /\ Covered(tf.offsets) = Covered(inner.offsets) \cup SpanBytes(LineAt(k))
        BY <1>1, <1>2, <1>3, <2>2, <2>4, <3>1, LineOnALine DEF before, after, k, p, t
      <3>3. LinedBuckets(tf.buckets) /\ (delay = NotSet => Waiting(tf.buckets) = {})
        BY <2>5, <3>1 DEF OnALine
      <3>4. /\ LinedBuckets(q.buckets) /\ (delay = NotSet => Waiting(q.buckets) = {})
            /\ StillWaits(q, o, inner.buckets, k) \/ NoLongerWaits(q, o, inner.buckets, k)
            /\ o.slips = out.slips
        <4>1. Outcome(q, o, Whole(k), LineAt(k), tf)
          BY <1>5, <2>5, <3>2
        <4>2. /\ LinedBuckets(q.buckets) /\ (delay = NotSet => Waiting(q.buckets) = {})
              /\ StillWaits(q, o, tf.buckets, k) \/ NoLongerWaits(q, o, tf.buckets, k)
              /\ o.slips = out.slips
          BY <1>3, <1>7, <2>5, <2>6, <3>3, <4>1, OutcomeBuckets
        <4>. QED
          BY <2>5, <4>2
      <3>5. OnALine(q, len)
        BY <2>6, <2>7, <3>2, <3>4 DEF OnALine
      <3>6. k \in Nat /\ SpanBytes(LineAt(k)) = {2 * k, 2 * k + 1}
        <4>1. k \in Nat
          BY <2>5, TailedFileAssumption DEF Lines
        <4>. QED
          BY <4>1, LineIsWhole
      <3>7. ASSUME Calm(o) PROVE SentOnce(q, o) /\ Ahead(q, s)
        <4>1. SentOnce(inner, out) /\ Ahead(inner, stream)
          BY <1>2, <2>1, <2>2, <3>7 DEF Follows
        <4>2. /\ stream.total \in Nat /\ stream.target \in Int
              /\ ~ (stream.target > 0 /\ stream.total >= stream.target)
          BY <1>2, <2>2 DEF StreamEnds, StreamType
        <4>3. inner.offset \notin Covered(inner.offsets)
          <5> SUFFICES ASSUME inner.offset \in Covered(inner.offsets) PROVE FALSE
            OBVIOUS
          <5>1. \/ inner.offset < inner.offset
                \/ stream.target > 0 /\ inner.offset >= inner.offset - stream.total + stream.target
            BY <4>1 DEF Ahead
          <5>. QED
            BY <3>2, <3>6, <4>2, <5>1
        <4>4. out.sent[k] = 0
          <5>1. out.sent[k] \in 0 .. 2
            BY <1>3, <2>5 DEF OutType
          <5>2. out.sent[k] > 0 => inner.offset \in Covered(inner.offsets)
            BY <2>5, <3>2, <3>6, <4>1 DEF SentOnce
          <5>. QED
            BY <4>3, <5>1, <5>2
        <4>5. SentOnce(q, o)
          <5>1. Covered(q.offsets) = Covered(inner.offsets) \cup SpanBytes(LineAt(k))
            BY <2>6, <3>2
          <5>. QED
            BY <2>5, <3>4, <4>1, <4>4, <5>1, StillOnce
        <4>6. ASSUME NEW c \in Covered(q.offsets)
              PROVE  c < q.offset \/ (s.target > 0 /\ c >= q.offset - s.total + s.target)
          <5>1. q.offset = inner.offset + 2 /\ inner.offset \in Nat /\ s.total = stream.total + 2
            BY <2>5, <2>7, <2>10, <3>2, <3>6
          <5>2. c \in Covered(inner.offsets) \/ c = inner.offset \/ c = inner.offset + 1
            BY <2>6, <3>2, <3>6, <4>6
          <5>3. CASE c \in Covered(inner.offsets)
            <6>1. Covered(inner.offsets) \subseteq Nat
              BY <3>1, LinedCoversWhole DEF OnALine
            <6>2. c \in Nat
              BY <5>3, <6>1
            <6>3. \/ c < inner.offset
                  \/ stream.target > 0 /\ c >= inner.offset - stream.total + stream.target
              BY <4>1, <5>3 DEF Ahead
            <6>. QED
              BY <2>10, <4>2, <5>1, <6>2, <6>3
          <5>. QED
            BY <5>1, <5>2, <5>3
        <4>7. Ahead(q, s)
          BY <4>6 DEF Ahead
        <4>. QED
          BY <4>5, <4>7
      <3>. QED
        BY <2>7, <2>8, <2>10, <2>12, <3>4, <3>5, <3>7 DEF Follows
    <2>. QED
      BY <2>11, <2>12
  <1>. QED
    BY <1>2, <1>3, <1>4, <1>6, <1>7 DEF TailInv
---------------------------------------------------------------------------
LEMMA TailInvStep ==
  ASSUME TailInv, [Next]_vars
  PROVE  TailInv'
  <1>1. CASE \E n \in 1 .. 2 : WriteBytes(n)
    BY <1>1, WriteBytesStep
  <1>2. CASE Metadata
    BY <1>2, MetadataStep
  <1>3. CASE Tick
    BY <1>3, TickStep
  <1>4. CASE ReadFails
    BY <1>4, ReadFailsStep
  <1>5. CASE TakeWrite
    BY <1>5, TailFileStep DEF TakeWrite
  <1>6. CASE TakeResume
    BY <1>6, TailFileStep DEF TakeResume
  <1>7. CASE TakeRetry
    BY <1>7, TailFileStep DEF TakeRetry
  <1>8. CASE EndStream
    BY <1>8, EndStreamStep
  <1>9. CASE ReadNoLine
    BY <1>9, ReadNoLineStep
  <1>10. CASE ReadLine
    BY <1>10, ReadLineStep
  <1>11. CASE UNCHANGED vars
    BY <1>11 DEF vars, TailInv
  <1>. QED
    BY <1>1, <1>2, <1>3, <1>4, <1>5, <1>6, <1>7, <1>8, <1>9, <1>10, <1>11 DEF Next, Agent

LEMMA TailInvHolds == Spec => []TailInv
  <1>1. Init => TailInv
    BY InitTailInv
  <1>2. TailInv /\ [Next]_vars => TailInv'
    BY TailInvStep
  <1>. QED
    BY <1>1, <1>2, PTL DEF Spec

(* For every number of lines, every read limit and every setting of the    *)
(* delay: as long as the model is in step, what is sent is a whole line.   *)
THEOREM LinesAreWhole == Spec => []LinesWhole
  <1>1. TailInv => LinesWhole
    BY DEF TailInv, Follows, LinesWhole, InStep, Steady
  <1>. QED
    BY <1>1, TailInvHolds, PTL

(* And a line that is sent again has one of the causes that are known.     *)
THEOREM RepeatsAreCaused == Spec => []RepeatsHaveCauses
  <1>1. ASSUME TailInv PROVE RepeatsHaveCauses
    <2> SUFFICES ASSUME NEW k \in Lines, out.sent[k] > 1, ~ out.over, out.slips = {} PROVE FALSE
      BY DEF RepeatsHaveCauses
    <2>1. Steady(out) /\ Calm(out)
      BY DEF Steady, Calm
    <2>2. SentOnce(inner, out)
      BY <1>1, <2>1 DEF TailInv, Follows
    <2>3. out.sent[k] \in 0 .. 2
      BY <1>1 DEF TailInv, OutType
    <2>. QED
      BY <2>2, <2>3 DEF SentOnce
  <1>2. TailInv => RepeatsHaveCauses
    BY <1>1
  <1>. QED
    BY <1>2, TailInvHolds, PTL
---------------------------------------------------------------------------
(* No line is left behind: lists, places and largest elements.             *)

LEMMA LargestNumber ==
  ASSUME NEW T \in SUBSET Nat, IsFiniteSet(T), T # {}
  PROVE  Max(T) \in T /\ \A m \in T : m <= Max(T)
  <1> DEFINE Tops(S) == {t \in S : \A m \in S : m <= t}
             Bad == {n \in Nat : \E S \in SUBSET Nat : /\ IsFiniteSet(S) /\ S # {}
                                                       /\ Cardinality(S) = n /\ Tops(S) = {}}
  <1>1. Bad = {}
    <2> SUFFICES ASSUME Bad # {} PROVE FALSE
      OBVIOUS
    <2>0. Bad \in SUBSET Nat
      OBVIOUS
    <2> HIDE DEF Bad
    <2>1. PICK n \in Bad : \A m \in Bad : n <= m
      BY <2>0, SmallestNumber
    <2>2. PICK S \in SUBSET Nat : /\ IsFiniteSet(S) /\ S # {}
                                  /\ Cardinality(S) = n /\ Tops(S) = {}
      BY <2>1 DEF Bad
    <2>3. PICK t \in S : t \in Nat
      BY <2>2
    <2> DEFINE R == S \ {t}
    <2>4. IsFiniteSet(R) /\ Cardinality(R) = n - 1 /\ Cardinality(R) \in Nat
      BY <2>2, <2>3, FS_RemoveElement, FS_CardinalityType
    <2>5. R # {}
      <3> SUFFICES ASSUME R = {} PROVE FALSE
        OBVIOUS
      <3>1. S = {t}
        BY <2>3
      <3>2. t \in Tops(S)
        BY <2>3, <3>1
      <3>. QED
        BY <2>2, <3>2
    <2>6. n - 1 \notin Bad
      <3>1. n - 1 \in Bad => n <= n - 1
        BY <2>1
      <3>. QED
        BY <2>0, <2>1, <3>1
    <2>7. PICK u \in R : \A m \in R : m <= u
      BY <2>4, <2>5, <2>6 DEF Bad
    <2>8. u \in Nat /\ u \in S
      BY <2>2
    <2>9. CASE t <= u
      <3>1. u \in Tops(S)
        BY <2>7, <2>8, <2>9
      <3>. QED
        BY <2>2, <3>1
    <2>10. CASE u < t
      <3>1. \A m \in R : m \in Nat
        BY <2>2
      <3>2. \A m \in R : m <= t
        BY <2>3, <2>7, <2>8, <2>10, <3>1
      <3>3. t \in Tops(S)
        BY <2>3, <3>2
      <3>. QED
        BY <2>2, <3>3
    <2>. QED
      BY <2>3, <2>8, <2>9, <2>10
  <1>2. Cardinality(T) \in Nat
    BY FS_CardinalityType
  <1>3. PICK t \in T : \A m \in T : m <= t
    BY <1>1, <1>2
  <1> HIDE DEF Bad
  <1>4. \E x \in T : \A y \in T : x >= y
    BY <1>3
  <1>5. Max(T) \in T /\ \A y \in T : Max(T) >= y
    BY <1>4 DEF Max
  <1>. QED
    BY <1>5

\* An enumeration leaves no place out.
LEMMA EnumeratesAll ==
  ASSUME NEW n \in Nat, NEW S \in SUBSET (1 .. n), NEW f, Enumerates(f, S, Cardinality(S)), NEW k \in S
  PROVE  \E i \in 1 .. Cardinality(S) : f[i] = k
  <1> DEFINE c == Cardinality(S)
             R == S \ {k}
  <1>1. IsFiniteSet(S) /\ c \in Nat
    <2>1. IsFiniteSet(1 .. n)
      BY FS_Interval
    <2>2. IsFiniteSet(S)
      BY <2>1, FS_Subset
    <2>. QED
      BY <2>2, FS_CardinalityType
  <1>2. IsFiniteSet(R) /\ Cardinality(R) = c - 1
    BY <1>1, FS_RemoveElement
  <1>3. IsFiniteSet(1 .. c) /\ Cardinality(1 .. c) = c
    <2> HIDE DEF c
    <2>1. IsFiniteSet(1 .. c) /\ Cardinality(1 .. c) = IF 1 > c THEN 0 ELSE c - 1 + 1
      BY <1>1, FS_Interval
    <2>. QED
      BY <1>1, <2>1
  <1> SUFFICES ASSUME \A i \in 1 .. c : f[i] # k PROVE FALSE
    OBVIOUS
  <1> HIDE DEF c
  <1>4. f \in [1 .. c -> S] /\ \A i, j \in 1 .. c : i < j => f[i] < f[j]
    BY DEF Enumerates, c
  <1>5. f \in [1 .. c -> R]
    BY <1>4
  <1>6. Cardinality(R) < Cardinality(1 .. c)
    BY <1>1, <1>2, <1>3
  <1> HIDE DEF R
  <1>7. PICK i, j \in 1 .. c : i # j /\ f[i] = f[j]
    BY <1>2, <1>3, <1>5, <1>6, FS_PigeonHole
  <1>8. f[i] \in Nat /\ f[j] \in Nat
    <2>1. \A s \in S : s \in Nat
      OBVIOUS
    <2>2. f[i] \in S /\ f[j] \in S
      BY <1>4
    <2>. QED
      BY <2>1, <2>2
  <1>9. i < j \/ j < i
    BY <1>1, <1>7
  <1>. QED
    BY <1>4, <1>7, <1>8, <1>9

\* At(s, S) has the elements of s at the places S, all of them, in their order.
InOrder(t, s, S, f) ==
    /\ Sequence(t)
    /\ \A i \in 1 .. Len(t) : f[i] \in S /\ t[i] = s[f[i]]
    /\ \A i, j \in 1 .. Len(t) : i < j => f[i] < f[j]
    /\ \A k \in S : \E i \in 1 .. Len(t) : f[i] = k

LEMMA AtInOrder ==
  ASSUME NEW n \in Nat, NEW S \in SUBSET (1 .. n), NEW s
  PROVE  \E f : InOrder(At(s, S), s, S, f)
  <1> DEFINE c == Cardinality(S)
             ok(f) == \A i, j \in DOMAIN f : i < j => f[i] < f[j]
             place == CHOOSE f \in [1 .. c -> S] : ok(f)
             t == [i \in 1 .. c |-> s[place[i]]]
  <1>1. c \in Nat /\ \E f : Enumerates(f, S, c)
    BY EnumerationExists
  <1>2. \E f \in [1 .. c -> S] : ok(f)
    <2>1. PICK f : Enumerates(f, S, c)
      BY <1>1
    <2>2. f \in [1 .. c -> S] /\ DOMAIN f = 1 .. c
      BY <2>1 DEF Enumerates
    <2>3. ok(f)
      BY <2>1, <2>2 DEF Enumerates
    <2>. QED
      BY <2>2, <2>3
  <1> HIDE DEF ok
  <1>3. place \in [1 .. c -> S] /\ ok(place)
    BY <1>2
  <1>4. At(s, S) = t
    BY DEF At, ok
  <1> HIDE DEF place
  <1>5. DOMAIN place = 1 .. c
    BY <1>3
  <1>6. \A i, j \in 1 .. c : i < j => place[i] < place[j]
    BY <1>3, <1>5 DEF ok
  <1>7. Enumerates(place, S, c)
    BY <1>3, <1>6 DEF Enumerates
  <1>8. \A k \in S : \E i \in 1 .. c : place[i] = k
    <2> SUFFICES ASSUME NEW k \in S PROVE \E i \in 1 .. c : place[i] = k
      OBVIOUS
    <2> HIDE DEF ok
    <2>1. PICK f : f = place
      OBVIOUS
    <2>2. Enumerates(f, S, Cardinality(S))
      BY <1>7, <2>1
    <2>3. \E i \in 1 .. Cardinality(S) : f[i] = k
      BY <2>2, EnumeratesAll
    <2>. QED
      BY <2>1, <2>3
  <1> HIDE DEF c
  <1>9. t = [i \in 1 .. c |-> t[i]] /\ DOMAIN t = 1 .. c
    OBVIOUS
  <1>10. \A i \in 1 .. c : place[i] \in S /\ t[i] = s[place[i]]
    BY <1>3
  <1> HIDE DEF t
  <1>11. Sequence(t) /\ Len(t) = c
    BY <1>1, <1>9, FunctionIsSequence
  <1>12. InOrder(t, s, S, place)
    BY <1>6, <1>8, <1>10, <1>11 DEF InOrder
  <1>. QED
    BY <1>4, <1>12
---------------------------------------------------------------------------
(* The loop over the buckets, from the last to the first.                  *)

Within(list, b) == \A i \in DOMAIN b.spans : ContainsSpan(list, b.spans[i])
SeenNext(v, b) == IF Within(v, b) THEN v ELSE InsertAll(v, b.spans)
Seen(g, bs, m) ==
    g = [n \in 0 .. m |-> IF n = 0 THEN <<>> ELSE SeenNext(g[n - 1], bs[Len(bs) + 1 - n])]

LEMMA OwnIsSeen ==
  ASSUME NEW bs
  PROVE  Own(bs) = {i \in DOMAIN bs : ~ Within((CHOOSE g : Seen(g, bs, Len(bs)))[Len(bs) - i], bs[i])}
  BY Zenon DEF Own, Seen, SeenNext, Within

LEMMA SeenExists ==
  ASSUME NEW bs, NEW m \in Nat
  PROVE  \E g : Seen(g, bs, m)
  <1> DEFINE Bad == {k \in Nat : ~ \E g : Seen(g, bs, k)}
             b(n) == bs[Len(bs) + 1 - n]
  <1>1. Bad = {}
    <2> SUFFICES ASSUME Bad # {} PROVE FALSE
      OBVIOUS
    <2>0. Bad \in SUBSET Nat
      OBVIOUS
    <2> HIDE DEF Bad
    <2>1. PICK k \in Bad : \A l \in Bad : k <= l
      BY <2>0, SmallestNumber
    <2>2. k \in Nat
      BY <2>0
    <2>3. CASE k = 0
      <3> DEFINE h == [n \in 0 .. 0 |-> <<>>]
      <3>1. \A n \in 0 .. 0 : n = 0
        OBVIOUS
      <3>2. h = [n \in 0 .. 0 |-> IF n = 0 THEN <<>> ELSE SeenNext(h[n - 1], b(n))]
        BY <3>1
      <3> HIDE DEF h
      <3>3. Seen(h, bs, k)
        BY <2>3, <3>2 DEF Seen
      <3>. QED
        BY <2>1, <3>3 DEF Bad
    <2>4. CASE k > 0
      <3>1. k - 1 \in Nat /\ k - 1 \notin Bad
        <4>1. k - 1 \in Bad => k <= k - 1
          BY <2>1
        <4>. QED
          BY <2>2, <2>4, <4>1
      <3>2. PICK g : Seen(g, bs, k - 1)
        BY <3>1 DEF Bad
      <3> DEFINE h == [n \in 0 .. k |-> IF n = k THEN SeenNext(g[k - 1], b(k)) ELSE g[n]]
      <3>3. \A n \in 0 .. k - 1 : g[n] = IF n = 0 THEN <<>> ELSE SeenNext(g[n - 1], b(n))
        <4>1. g = [n \in 0 .. k - 1 |-> IF n = 0 THEN <<>> ELSE SeenNext(g[n - 1], b(n))]
          BY <3>2 DEF Seen
        <4> HIDE DEF b
        <4>. QED
          BY <4>1
      <3> HIDE DEF b
      <3>4. ASSUME NEW n \in 0 .. k
            PROVE  h[n] = IF n = 0 THEN <<>> ELSE SeenNext(h[n - 1], b(n))
        <4>1. n = k \/ n \in 0 .. k - 1
          BY <2>2
        <4>2. n # 0 => n - 1 \in 0 .. k /\ n - 1 # k
          BY <2>2
        <4>3. n # 0 => h[n - 1] = g[n - 1]
          BY <4>2
        <4>4. CASE n = k
          BY <2>2, <2>4, <4>3, <4>4
        <4>5. CASE n \in 0 .. k - 1
          <5>1. n # k /\ h[n] = g[n]
            BY <2>2, <4>5
          <5>. QED
            BY <3>3, <4>3, <4>5, <5>1
        <4>. QED
          BY <4>1, <4>4, <4>5
      <3>5. h = [n \in 0 .. k |-> h[n]]
        OBVIOUS
      <3> HIDE DEF h
      <3>6. h = [n \in 0 .. k |-> IF n = 0 THEN <<>> ELSE SeenNext(h[n - 1], b(n))]
        BY <3>4, <3>5
      <3>7. Seen(h, bs, k)
        BY <3>6 DEF Seen, b
      <3>. QED
        BY <2>1, <3>7 DEF Bad
    <2>. QED
      BY <2>2, <2>3, <2>4
  <1>. QED
    BY <1>1

\* A list contains no more than it covers.
LEMMA ContainedIsCovered ==
  ASSUME NEW s \in Lists, NEW x, x.start \in Int, x.end \in Int, ContainsSpan(s, x)
  PROVE  SpanBytes(x) \subseteq Covered(s)
  <1>1. Len(s) \in Nat /\ DOMAIN s = 1 .. Len(s) /\ \A i \in 1 .. Len(s) : s[i] \in Spans
    BY DEF Lists
  <1>2. PICK i \in 1 .. Len(s) : s[i].start <= x.start /\ s[i].end >= x.end
    BY <1>1 DEF ContainsSpan
  <1>3. s[i].start \in Nat /\ s[i].end \in Nat
    BY <1>1 DEF Spans
  <1>4. SpanBytes(x) \subseteq SpanBytes(s[i])
    BY <1>2, <1>3 DEF SpanBytes
  <1>. QED
    BY <1>1, <1>4 DEF Covered

\* Bytes of whole lines that agree but for gaps of one are the same.
LEMMA WholeAgrees ==
  ASSUME NEW C \in SUBSET Nat, NEW I \in SUBSET Nat, Agrees(C, I), WholeSet(I)
  PROVE  C = I
  <1> SUFFICES ASSUME NEW b \in C, b \notin I PROVE FALSE
    BY DEF Agrees
  <1>1. b - 1 \in I /\ b + 1 \in I /\ b \in Nat
    BY DEF Agrees
  <1>2. /\ Feed(b) => ~ Feed(b - 1) /\ (b - 1) + 1 = b
        /\ ~ Feed(b) => Feed(b + 1) /\ (b + 1) - 1 = b
    BY <1>1 DEF Feed
  <1>. QED
    BY <1>1, <1>2 DEF WholeSet

LEMMA ListCoversNumbers ==
  ASSUME NEW s \in Lists
  PROVE  Covered(s) \subseteq Nat
  <1>1. DOMAIN s = 1 .. Len(s) /\ \A i \in 1 .. Len(s) : s[i] \in Spans
    BY DEF Lists
  <1>2. ASSUME NEW b \in Covered(s) PROVE b \in Nat
    <2>1. PICK i \in 1 .. Len(s) : b \in SpanBytes(s[i])
      BY <1>1 DEF Covered
    <2>2. s[i].start \in Nat /\ s[i].end \in Nat
      BY <1>1 DEF Spans
    <2>. QED
      BY <2>1, <2>2 DEF SpanBytes
  <1>. QED
    BY <1>2

\* A line is in a list, and in none of the later buckets.
Has(s, k) == 2 * k \in Covered(s)
LastWith(bs, S, k, i) ==
    /\ i \in S /\ Has(bs[i].spans, k)
    /\ \A j \in S : i < j => ~ Has(bs[j].spans, k)

\* What has been seen are lines of the buckets after it.
SeenOf(v, bs, n, k) ==
    v \in Lists /\ WholeSet(Covered(v))
    /\ (Has(v, k) => \E j \in 1 .. Len(bs) : j > Len(bs) - n /\ Has(bs[j].spans, k))

LEMMA SeenStep ==
  ASSUME NEW bs, LinedBuckets(bs), NEW n \in 1 .. Len(bs), NEW k, NEW v, SeenOf(v, bs, n - 1, k)
  PROVE  SeenOf(SeenNext(v, bs[Len(bs) + 1 - n]), bs, n, k)
  <1>1. Len(bs) \in Nat
    BY SequenceProperties DEF LinedBuckets
  <1>2. PICK j, l : j = Len(bs) + 1 - n /\ l = bs[j].spans
    OBVIOUS
  <1>3. j \in 1 .. Len(bs) /\ j > Len(bs) - n /\ \A i \in Int : i > Len(bs) - (n - 1) => i > Len(bs) - n
    BY <1>1, <1>2
  <1>4. Lined(l)
    BY <1>2, <1>3 DEF LinedBuckets
  <1>5. l \in Seq(Spans) /\ WholeSet(Covered(l)) /\ Covered(l) \in SUBSET Nat
    BY <1>4, ApartIsList, LinedCoversWhole DEF Lists, Lined
  <1>6. v \in Lists /\ WholeSet(Covered(v)) /\ Covered(v) \in SUBSET Nat
    BY ListCoversNumbers DEF SeenOf
  <1>7. Has(v, k) => \E i \in 1 .. Len(bs) : i > Len(bs) - n /\ Has(bs[i].spans, k)
    <2>1. \A i \in 1 .. Len(bs) : i \in Int
      OBVIOUS
    <2>. QED
      BY <1>3, <2>1 DEF SeenOf
  <1>8. PICK w : w = InsertAll(v, l)
    OBVIOUS
  <1>9. w \in Lists /\ Covered(w) = Covered(v) \cup Covered(l)
    <2>1. Agrees(Covered(v), Covered(v))
      BY DEF Agrees
    <2>2. AllKept(v, l, Covered(v))
      BY <1>5, <1>6, <2>1, InsertAllKeeps
    <2>3. w \in Lists /\ Agrees(Covered(w), Covered(v) \cup Covered(l))
      BY <1>8, <2>2 DEF AllKept
    <2>4. WholeSet(Covered(v) \cup Covered(l)) /\ Covered(w) \in SUBSET Nat
      BY <1>5, <1>6, <2>3, WholeRest, ListCoversNumbers
    <2>. QED
      BY <1>5, <1>6, <2>3, <2>4, WholeAgrees
  <1>10. SeenOf(v, bs, n, k)
    BY <1>6, <1>7 DEF SeenOf
  <1>11. SeenOf(w, bs, n, k)
    <2>1. WholeSet(Covered(w))
      BY <1>5, <1>6, <1>9, WholeRest
    <2>2. Has(w, k) => Has(v, k) \/ Has(l, k)
      BY <1>9 DEF Has
    <2>3. Has(l, k) => \E i \in 1 .. Len(bs) : i > Len(bs) - n /\ Has(bs[i].spans, k)
      BY <1>2, <1>3
    <2>. QED
      BY <1>7, <1>9, <2>1, <2>2, <2>3 DEF SeenOf
  <1>. QED
    BY <1>2, <1>8, <1>10, <1>11 DEF SeenNext

\* The last bucket that has a line is one that is kept.
LEMMA LastIsOwn ==
  ASSUME NEW bs, LinedBuckets(bs), NEW k \in Nat, NEW i, LastWith(bs, 1 .. Len(bs), k, i)
  PROVE  i \in Own(bs)
  <1>1. Len(bs) \in Nat /\ DOMAIN bs = 1 .. Len(bs)
    BY SequenceProperties DEF LinedBuckets
  <1> DEFINE m == Len(bs)
             g == CHOOSE g : Seen(g, bs, m)
             Bad == {n \in Nat : n <= m /\ ~ SeenOf(g[n], bs, n, k)}
  <1>2. Seen(g, bs, m)
    BY <1>1, SeenExists
  <1>3. Own(bs) = {j \in DOMAIN bs : ~ Within(g[m - j], bs[j])}
    BY OwnIsSeen
  <1> HIDE DEF g
  <1>4. g[0] = <<>> /\ \A n \in 1 .. m : g[n] = SeenNext(g[n - 1], bs[m + 1 - n])
    <2>1. g = [n \in 0 .. m |-> IF n = 0 THEN <<>> ELSE SeenNext(g[n - 1], bs[m + 1 - n])]
      BY <1>2 DEF Seen
    <2>2. 0 \in 0 .. m /\ \A n \in 1 .. m : n \in 0 .. m /\ n # 0
      BY <1>1
    <2> HIDE DEF m
    <2>. QED
      BY <2>1, <2>2
  <1>5. Bad = {}
    <2> SUFFICES ASSUME Bad # {} PROVE FALSE
      OBVIOUS
    <2>0. Bad \in SUBSET Nat
      OBVIOUS
    <2> HIDE DEF Bad
    <2>1. PICK n \in Bad : \A l \in Bad : n <= l
      BY <2>0, SmallestNumber
    <2>2. n \in Nat /\ n <= m /\ ~ SeenOf(g[n], bs, n, k)
      BY <2>1 DEF Bad
    <2>3. CASE n = 0
      <3>1. g[0] \in Lists /\ Covered(g[0]) = {}
        BY <1>4, EmptyList, ApartIsList DEF Lined
      <3>2. SeenOf(g[0], bs, 0, k)
        BY <3>1 DEF SeenOf, Has, WholeSet
      <3>. QED
        BY <2>2, <2>3, <3>2
    <2>4. CASE n # 0
      <3>1. n \in 1 .. m /\ n - 1 \in Nat /\ n - 1 <= m /\ n - 1 \notin Bad
        <4>1. n - 1 \in Bad => n <= n - 1
          BY <2>1
        <4>. QED
          BY <1>1, <2>2, <2>4, <4>1
      <3>2. SeenOf(g[n - 1], bs, n - 1, k)
        BY <3>1 DEF Bad
      <3>3. SeenOf(SeenNext(g[n - 1], bs[m + 1 - n]), bs, n, k)
        BY <3>1, <3>2, SeenStep
      <3>. QED
        BY <1>4, <2>2, <3>1, <3>3
    <2>. QED
      BY <2>3, <2>4
  <1>6. i \in 1 .. m /\ Has(bs[i].spans, k) /\ \A j \in 1 .. m : i < j => ~ Has(bs[j].spans, k)
    BY DEF LastWith
  <1>7. PICK v : v = g[m - i]
    OBVIOUS
  <1>8. v \in Lists /\ ~ Has(v, k)
    <2>1. m - i \in Nat /\ m - i <= m /\ m - (m - i) = i
      BY <1>1, <1>6
    <2>2. SeenOf(v, bs, m - i, k)
      BY <1>5, <1>7, <2>1
    <2>3. \A j \in 1 .. m : j > i <=> i < j
      BY <1>6
    <2>. QED
      BY <1>6, <2>1, <2>2, <2>3 DEF SeenOf
  <1>9. ~ Within(v, bs[i])
    <2> SUFFICES ASSUME Within(v, bs[i]) PROVE FALSE
      OBVIOUS
    <2>1. Lined(bs[i].spans)
      BY <1>6 DEF LinedBuckets
    <2>2. PICK j \in DOMAIN bs[i].spans : 2 * k \in SpanBytes(bs[i].spans[j])
      BY <1>6 DEF Has, Covered
    <2>3. bs[i].spans[j].start \in Nat /\ bs[i].spans[j].end \in Nat
      BY <2>1, TidyIsApart DEF Lined, Apart
    <2>4. ContainsSpan(v, bs[i].spans[j])
      BY DEF Within
    <2>5. PICK x : x = bs[i].spans[j]
      OBVIOUS
    <2>6. SpanBytes(x) \subseteq Covered(v)
      BY <1>8, <2>3, <2>4, <2>5, ContainedIsCovered
    <2>. QED
      BY <1>8, <2>2, <2>5, <2>6 DEF Has
  <1>. QED
    BY <1>1, <1>3, <1>6, <1>7, <1>9
---------------------------------------------------------------------------
(* What is given back was tried.                                           *)

Gives(g, K, elems, first) ==
    g = [s \in SUBSET K |->
            IF s = {} THEN first ELSE GiveBack(g[s \ {Max(s)}], elems[Max(s)])]

LEMMA GivenIsFold ==
  ASSUME NEW offsets, NEW b
  PROVE  GivenBack(offsets, b) =
           (CHOOSE g : Gives(g, DOMAIN b.spans, b.spans, [tried |-> b.tried, offsets |-> offsets]))
               [DOMAIN b.spans]
  BY DEF GivenBack, FoldLeft, MapThenFoldSet, Gives

LEMMA GivesExist ==
  ASSUME NEW elems, NEW first, NEW n \in Nat
  PROVE  \E g : Gives(g, 1 .. n, elems, first)
  <1> DEFINE Bad == {k \in Nat : ~ \E g : Gives(g, 1 .. k, elems, first)}
  <1>1. Bad = {}
    <2> SUFFICES ASSUME Bad # {} PROVE FALSE
      OBVIOUS
    <2>0. Bad \in SUBSET Nat
      OBVIOUS
    <2> HIDE DEF Bad
    <2>1. PICK k \in Bad : \A m \in Bad : k <= m
      BY <2>0, SmallestNumber
    <2>2. k \in Nat
      BY <2>0
    <2>3. CASE k = 0
      <3> DEFINE h == [s \in SUBSET (1 .. 0) |-> first]
      <3>1. \A s \in SUBSET (1 .. 0) : s = {}
        OBVIOUS
      <3>2. h = [s \in SUBSET (1 .. 0) |->
                   IF s = {} THEN first ELSE GiveBack(h[s \ {Max(s)}], elems[Max(s)])]
        BY <3>1
      <3> HIDE DEF h
      <3>3. Gives(h, 1 .. k, elems, first)
        BY <2>3, <3>2 DEF Gives
      <3>. QED
        BY <2>1, <3>3 DEF Bad
    <2>4. CASE k > 0
      <3>1. k - 1 \in Nat /\ k - 1 \notin Bad
        <4>1. k - 1 \in Bad => k <= k - 1
          BY <2>1
        <4>. QED
          BY <2>2, <2>4, <4>1
      <3>2. PICK g : Gives(g, 1 .. k - 1, elems, first)
        BY <3>1 DEF Bad
      <3> DEFINE h == [s \in SUBSET (1 .. k) |->
                          IF s = {} THEN first
                          ELSE IF k \in s THEN GiveBack(g[s \ {k}], elems[k]) ELSE g[s]]
      <3>3. \A s \in SUBSET (1 .. k - 1) : s \in SUBSET (1 .. k) /\ k \notin s
        BY <2>2
      <3>4. \A s \in SUBSET (1 .. k) : /\ s \ {k} \in SUBSET (1 .. k - 1)
                                       /\ k \notin s => s \in SUBSET (1 .. k - 1)
        BY <2>2
      <3>5. g = [s \in SUBSET (1 .. k - 1) |->
                   IF s = {} THEN first ELSE GiveBack(g[s \ {Max(s)}], elems[Max(s)])]
        BY <3>2 DEF Gives
      <3>6. \A s \in SUBSET (1 .. k - 1) :
               /\ g[s] = IF s = {} THEN first ELSE GiveBack(g[s \ {Max(s)}], elems[Max(s)])
               /\ h[s] = g[s]
        BY <3>3, <3>5
      <3>7. ASSUME NEW s \in SUBSET (1 .. k), s # {}
            PROVE  h[s] = GiveBack(h[s \ {Max(s)}], elems[Max(s)])
        <4>1. CASE k \in s
          <5>1. Max(s) = k
            BY <2>2, <4>1, LastTurn
          <5>2. h[s] = GiveBack(g[s \ {k}], elems[k])
            BY <3>7, <4>1
          <5>. QED
            BY <3>4, <3>6, <5>1, <5>2
        <4>2. CASE k \notin s
          <5>1. s \in SUBSET (1 .. k - 1) /\ s \ {Max(s)} \in SUBSET (1 .. k - 1)
            BY <3>4, <4>2
          <5> HIDE DEF h
          <5>. QED
            BY <3>6, <3>7, <5>1
        <4>. QED
          BY <4>1, <4>2
      <3>8. h = [s \in SUBSET (1 .. k) |-> h[s]]
        OBVIOUS
      <3>9. h[{}] = first
        OBVIOUS
      <3> HIDE DEF h
      <3>10. h = [s \in SUBSET (1 .. k) |->
                   IF s = {} THEN first ELSE GiveBack(h[s \ {Max(s)}], elems[Max(s)])]
        BY <3>7, <3>8, <3>9
      <3>11. Gives(h, 1 .. k, elems, first)
        BY <3>10 DEF Gives
      <3>. QED
        BY <2>1, <3>11 DEF Bad
    <2>. QED
      BY <2>2, <2>3, <2>4
  <1>. QED
    BY <1>1

\* The list of what was tried, after one more span: it covers that span as well.
LEMMA GiveBackTries ==
  ASSUME NEW acc, acc.tried \in Lists, NEW x \in Spans
  PROVE  /\ GiveBack(acc, x).tried \in Lists
         /\ Covered(acc.tried) \cup SpanBytes(x) \subseteq Covered(GiveBack(acc, x).tried)
  <1>1. CASE ContainsSpan(acc.tried, x)
    <2>1. GiveBack(acc, x) = acc
      BY <1>1 DEF GiveBack
    <2>2. x.start \in Int /\ x.end \in Int
      BY DEF Spans
    <2>3. SpanBytes(x) \subseteq Covered(acc.tried)
      BY <1>1, <2>2, ContainedIsCovered
    <2>. QED
      BY <2>1, <2>3
  <1>2. CASE ~ ContainsSpan(acc.tried, x)
    <2>1. GiveBack(acc, x).tried = Insert(acc.tried, x)
      BY <1>2 DEF GiveBack
    <2>2. PICK I : I = Covered(acc.tried) \cup SpanBytes(x)
      OBVIOUS
    <2>3. Agrees(Covered(acc.tried) \cup SpanBytes(x), I)
      BY <2>2 DEF Agrees
    <2>4. Keeps(acc.tried, x, I)
      BY <2>3, InsertKeeps
    <2>. QED
      BY <2>1, <2>2, <2>4 DEF Keeps, Agrees
  <1>. QED
    BY <1>1, <1>2

LEMMA GivenBackTries ==
  ASSUME NEW offsets, NEW b, b.tried \in Lists, b.spans \in Seq(Spans)
  PROVE  /\ GivenBack(offsets, b).tried \in Lists
         /\ Covered(b.spans) \subseteq Covered(GivenBack(offsets, b).tried)
  <1> DEFINE first == [tried |-> b.tried, offsets |-> offsets]
             n == Len(b.spans)
             g == CHOOSE g : Gives(g, 1 .. n, b.spans, first)
             Tried(k) == Covered(g[1 .. k].tried)
             Good(k) == g[1 .. k].tried \in Lists /\ \A i \in 1 .. k : SpanBytes(b.spans[i]) \subseteq Tried(k)
             Bad == {k \in Nat : k <= n /\ ~ Good(k)}
  <1>1. n \in Nat /\ DOMAIN b.spans = 1 .. n /\ \A i \in 1 .. n : b.spans[i] \in Spans
    BY LenProperties, ElementOfSeq
  <1>2. Gives(g, 1 .. n, b.spans, first)
    <2> HIDE DEF first, n
    <2>1. \E h : Gives(h, 1 .. n, b.spans, first)
      BY <1>1, GivesExist
    <2>. QED
      BY <2>1
  <1>3. GivenBack(offsets, b) = g[1 .. n]
    <2>1. GivenBack(offsets, b) = (CHOOSE h : Gives(h, DOMAIN b.spans, b.spans, first))[DOMAIN b.spans]
      BY GivenIsFold
    <2>. QED
      BY <1>1, <2>1
  <1> HIDE DEF g, n
  <1>4. \A s \in SUBSET (1 .. n) :
           g[s] = IF s = {} THEN first ELSE GiveBack(g[s \ {Max(s)}], b.spans[Max(s)])
    <2> HIDE DEF first
    <2>1. g = [s \in SUBSET (1 .. n) |->
                 IF s = {} THEN first ELSE GiveBack(g[s \ {Max(s)}], b.spans[Max(s)])]
      BY <1>2 DEF Gives
    <2>. QED
      BY <2>1
  <1>5. Bad = {}
    <2> SUFFICES ASSUME Bad # {} PROVE FALSE
      OBVIOUS
    <2>0. Bad \in SUBSET Nat
      OBVIOUS
    <2> HIDE DEF Bad
    <2>1. PICK k \in Bad : \A m \in Bad : k <= m
      BY <2>0, SmallestNumber
    <2>2. k \in Nat /\ k <= n /\ ~ Good(k)
      BY <2>1 DEF Bad
    <2>3. CASE k = 0
      <3>1. 1 .. 0 = {} /\ {} \in SUBSET (1 .. n)
        OBVIOUS
      <3>2. g[1 .. 0] = first
        BY <1>4, <3>1
      <3>3. g[1 .. 0].tried = b.tried
        BY <3>2
      <3>. QED
        BY <2>2, <2>3, <3>1, <3>3
    <2>4. CASE k # 0
      <3>1. k - 1 \in Nat /\ k - 1 <= n /\ k - 1 \notin Bad /\ k \in 1 .. n
        <4>1. k - 1 \in Bad => k <= k - 1
          BY <2>1
        <4>. QED
          BY <1>1, <2>2, <2>4, <4>1
      <3>2. Good(k - 1)
        <4> HIDE DEF Good
        <4>. QED
          BY <3>1 DEF Bad
      <3>3. 1 .. k \in SUBSET (1 .. n) /\ k \in 1 .. k /\ (1 .. k) \ {k} = 1 .. k - 1 /\ 1 .. k # {}
        <4> HIDE DEF Good
        <4>1. \A i : i \in 1 .. k => i \in 1 .. n
          BY <1>1, <3>1
        <4>2. k \in 1 .. k
          BY <3>1
        <4>3. (1 .. k) \ {k} = 1 .. k - 1
          BY <3>1
        <4>. QED
          BY <4>1, <4>2, <4>3
      <3>4. Max(1 .. k) = k
        BY <2>2, <3>3, LastTurn
      <3>5. g[1 .. k] = GiveBack(g[1 .. k - 1], b.spans[k])
        <4> HIDE DEF first
        <4>. QED
          BY <1>4, <3>3, <3>4
      <3>6. b.spans[k] \in Spans
        BY <1>1, <3>1
      <3>7. PICK acc, x : acc = g[1 .. k - 1] /\ x = b.spans[k]
        OBVIOUS
      <3>8. /\ GiveBack(acc, x).tried \in Lists
            /\ Covered(acc.tried) \cup SpanBytes(x) \subseteq Covered(GiveBack(acc, x).tried)
        BY <3>2, <3>6, <3>7, GiveBackTries
      <3>9. \A i \in 1 .. k : i = k \/ i \in 1 .. k - 1
        BY <3>1
      <3>10. Good(k)
        BY <3>2, <3>5, <3>7, <3>8, <3>9
      <3>. QED
        BY <2>2, <3>10
    <2>. QED
      BY <2>3, <2>4
  <1>6. Good(n)
    <2>1. n \notin Bad
      BY <1>5
    <2> HIDE DEF Good
    <2>. QED
      BY <1>1, <2>1
  <1>. QED
    BY <1>1, <1>3, <1>6 DEF Covered
---------------------------------------------------------------------------
(* The buckets that tail() finds when the event of a line comes.           *)

\* A bucket waits no longer than it was told to, and what is in it is not tried before.
Aged(b, d) ==
    /\ b.retries \in Nat \ {0} /\ b.time \in 0 .. d * b.retries
    /\ b.tried \in Lists /\ (b.time > 0 => b.tried = <<>>)
Full(b, d) == b.time = d * b.retries
Untried(b, k) == Has(b.spans, k) /\ ~ Has(b.tried, k)
Announced(w, t) == \E v \in Waits : w[v] > 0 /\ v >= t

\* After a bucket that was filled at this very time come only such buckets, and for
\* every line there is an event that comes when its bucket is due, or later.
OnTheWay(bs, S, d, w, u) ==
    /\ \A i \in S : Aged(bs[i], d)
    /\ \A i, j \in S : i < j /\ bs[i].time > 0 /\ Full(bs[i], d) => Full(bs[j], d)
    /\ \A i \in S : \A k \in Lines \ u : Untried(bs[i], k) => Announced(w, bs[i].time)

\* The last bucket that has the line has not given it back yet.
ToBeRead(bs, S, k) == \E i : LastWith(bs, S, k, i) /\ ~ Has(bs[i].tried, k)

LEMMA AtKeeps ==
  ASSUME NEW n \in Nat, NEW S \in SUBSET (1 .. n), NEW s, NEW t, t = At(s, S), NEW d, NEW w, NEW u
  PROVE  /\ OnTheWay(s, S, d, w, u) => OnTheWay(t, 1 .. Len(t), d, w, u)
         /\ \A k : ToBeRead(s, S, k) => ToBeRead(t, 1 .. Len(t), k)
  <1>1. PICK f : InOrder(t, s, S, f)
    BY AtInOrder
  <1>2. /\ \A i \in 1 .. Len(t) : f[i] \in S /\ t[i] = s[f[i]]
        /\ \A i, j \in 1 .. Len(t) : i < j => f[i] < f[j]
        /\ \A k \in S : \E i \in 1 .. Len(t) : f[i] = k
    BY <1>1 DEF InOrder
  <1>3. ASSUME OnTheWay(s, S, d, w, u) PROVE OnTheWay(t, 1 .. Len(t), d, w, u)
    <2>1. \A i \in 1 .. Len(t) : Aged(t[i], d)
      BY <1>2, <1>3 DEF OnTheWay
    <2>2. ASSUME NEW i \in 1 .. Len(t), NEW j \in 1 .. Len(t), i < j, t[i].time > 0, Full(t[i], d)
          PROVE  Full(t[j], d)
      <3>1. f[i] \in S /\ f[j] \in S /\ f[i] < f[j] /\ t[i] = s[f[i]] /\ t[j] = s[f[j]]
        BY <1>2, <2>2
      <3>2. \A a, b \in S : a < b /\ s[a].time > 0 /\ Full(s[a], d) => Full(s[b], d)
        BY <1>3 DEF OnTheWay
      <3>. QED
        BY <2>2, <3>1, <3>2
    <2>3. \A i \in 1 .. Len(t) : \A k \in Lines \ u : Untried(t[i], k) => Announced(w, t[i].time)
      BY <1>2, <1>3 DEF OnTheWay
    <2>. QED
      BY <2>1, <2>2, <2>3 DEF OnTheWay
  <1>4. ASSUME NEW k, ToBeRead(s, S, k) PROVE ToBeRead(t, 1 .. Len(t), k)
    <2>1. PICK i : LastWith(s, S, k, i) /\ ~ Has(s[i].tried, k)
      BY <1>4 DEF ToBeRead
    <2>2. i \in S /\ Has(s[i].spans, k) /\ \A j \in S : i < j => ~ Has(s[j].spans, k)
      BY <2>1 DEF LastWith
    <2>3. PICK p \in 1 .. Len(t) : f[p] = i
      BY <1>2, <2>2
    <2>4. Has(t[p].spans, k) /\ ~ Has(t[p].tried, k)
      BY <1>2, <2>1, <2>2, <2>3
    <2>5. \A j \in 1 .. Len(t) : p < j => ~ Has(t[j].spans, k)
      BY <1>2, <2>2, <2>3
    <2>6. LastWith(t, 1 .. Len(t), k, p)
      BY <2>3, <2>4, <2>5 DEF LastWith
    <2>. QED
      BY <2>4, <2>6 DEF ToBeRead
  <1>. QED
    BY <1>3, <1>4

\* The same buckets, with fewer lines in them.
Thinner(c, b) ==
    /\ c.time = b.time /\ c.retries = b.retries /\ c.tried = b.tried
    /\ \A k \in Lines : Has(c.spans, k) => Has(b.spans, k)

LEMMA ThinnerKeeps ==
  ASSUME NEW bs, NEW S, NEW d, NEW w, NEW u, OnTheWay(bs, S, d, w, u), NEW cs,
         \A i \in S : Thinner(cs[i], bs[i])
  PROVE  OnTheWay(cs, S, d, w, u)
  <1>1. \A i \in S : Aged(cs[i], d) /\ (Full(cs[i], d) <=> Full(bs[i], d)) /\ cs[i].time = bs[i].time
    BY DEF OnTheWay, Thinner, Aged, Full
  <1>2. \A i \in S : \A k \in Lines : Untried(cs[i], k) => Untried(bs[i], k)
    BY DEF Thinner, Untried
  <1>3. \A i, j \in S : i < j /\ cs[i].time > 0 /\ Full(cs[i], d) => Full(cs[j], d)
    BY <1>1 DEF OnTheWay
  <1>4. \A i \in S : \A k \in Lines \ u : Untried(cs[i], k) => Announced(w, cs[i].time)
    BY <1>1, <1>2 DEF OnTheWay
  <1>. QED
    BY <1>1, <1>3, <1>4 DEF OnTheWay

LEMMA SomePlaces ==
  ASSUME NEW bs, NEW S, NEW T, T \subseteq S, NEW d, NEW w, NEW u, OnTheWay(bs, S, d, w, u)
  PROVE  OnTheWay(bs, T, d, w, u)
  <1>1. \A i \in T : i \in S
    OBVIOUS
  <1>2. \A i \in T : Aged(bs[i], d)
    BY <1>1 DEF OnTheWay
  <1>3. \A i, j \in T : i < j /\ bs[i].time > 0 /\ Full(bs[i], d) => Full(bs[j], d)
    BY <1>1 DEF OnTheWay
  <1>4. \A i \in T : \A k \in Lines \ u : Untried(bs[i], k) => Announced(w, bs[i].time)
    BY <1>1 DEF OnTheWay
  <1>. QED
    BY <1>2, <1>3, <1>4 DEF OnTheWay

\* Taking a line out of a list, or putting it in, is nothing to the others.
LEMMA OtherLines ==
  ASSUME NEW k \in Nat, NEW j \in Nat, NEW s, NEW t
  PROVE  /\ Covered(t) = Covered(s) \ SpanBytes(LineAt(k)) =>
              (Has(t, j) <=> Has(s, j) /\ j # k)
         /\ Covered(t) = Covered(s) \cup SpanBytes(LineAt(k)) =>
              (Has(t, j) <=> Has(s, j) \/ j = k)
  <1>1. SpanBytes(LineAt(k)) = {2 * k, 2 * k + 1}
    BY LineIsWhole
  <1>2. 2 * j \in {2 * k, 2 * k + 1} <=> j = k
    OBVIOUS
  <1>. QED
    BY <1>1, <1>2 DEF Has

LEMMA WithoutFields ==
  ASSUME NEW b, Bucket(b), NEW x
  PROVE  /\ Without(b, x).time = b.time /\ Without(b, x).retries = b.retries
         /\ Without(b, x).tried = b.tried
  <1> DEFINE l == RemoveSpan(b.spans, x)
             c == [time |-> b.time, retries |-> b.retries, spans |-> l, tried |-> b.tried]
  <1>1. Without(b, x) = [b EXCEPT !.spans = l]
    BY DEF Without
  <1> HIDE DEF l
  <1>2. [b EXCEPT !.spans = l] = c
    BY DEF Bucket
  <1>. QED
    BY <1>1, <1>2

LEMMA CommitOnTheWay ==
  ASSUME NEW bs, LinedBuckets(bs), NEW k \in Lines, Commit(bs, LineAt(k)).exact,
         NEW t, t = Commit(bs, LineAt(k)).buckets,
         NEW d, NEW w, NEW u, OnTheWay(bs, 1 .. Len(bs), d, w, u)
  PROVE  /\ OnTheWay(t, 1 .. Len(t), d, w, u)
         /\ \A j \in Lines \ {k} : ToBeRead(bs, 1 .. Len(bs), j) => ToBeRead(t, 1 .. Len(t), j)
  <1> DEFINE x == LineAt(k)
             left == [i \in DOMAIN bs |-> Without(bs[i], x)]
             S == {i \in Own(bs) : left[i].spans # <<>>}
  <1>1. Len(bs) \in Nat /\ DOMAIN bs = 1 .. Len(bs) /\ k \in Nat
    BY SequenceProperties, TailedFileAssumption DEF LinedBuckets, Lines
  <1>2. t = At(left, S) /\ Exact(bs, left, Own(bs), x)
    BY DEF Commit
  <1>3. Own(bs) \in SUBSET (1 .. Len(bs))
    BY <1>1 DEF Own
  <1>4. S \in SUBSET (1 .. Len(bs)) /\ S \subseteq Own(bs)
    BY <1>3
  <1>5. ASSUME NEW i \in Own(bs)
        PROVE  /\ Thinner(left[i], bs[i])
               /\ \A j \in Lines : Has(left[i].spans, j) <=> Has(bs[i].spans, j) /\ j # k
    <2>1. i \in 1 .. Len(bs)
      BY <1>3
    <2>2. left[i] = Without(bs[i], x) /\ Bucket(bs[i])
      BY <1>1, <2>1 DEF LinedBuckets
    <2>3. left[i].time = bs[i].time /\ left[i].retries = bs[i].retries /\ left[i].tried = bs[i].tried
      BY <2>2, WithoutFields
    <2>4. Covered(left[i].spans) = Covered(bs[i].spans) \ SpanBytes(x)
      BY <1>2 DEF Exact
    <2> HIDE DEF left
    <2>5. ASSUME NEW j \in Lines PROVE Has(left[i].spans, j) <=> Has(bs[i].spans, j) /\ j # k
      <3>1. j \in Nat
        BY TailedFileAssumption DEF Lines
      <3>. QED
        BY <1>1, <2>4, <3>1, OtherLines
    <2>. QED
      BY <2>3, <2>5 DEF Thinner
  <1> HIDE DEF left
  <1>6. OnTheWay(left, S, d, w, u)
    <2>1. OnTheWay(bs, S, d, w, u)
      BY <1>4, SomePlaces
    <2>2. \A i \in S : Thinner(left[i], bs[i])
      BY <1>5
    <2> HIDE DEF S
    <2>. QED
      BY <2>1, <2>2, ThinnerKeeps
  <1>7. ASSUME NEW j \in Lines \ {k}, ToBeRead(bs, 1 .. Len(bs), j) PROVE ToBeRead(left, S, j)
    <2>1. PICK i : LastWith(bs, 1 .. Len(bs), j, i) /\ ~ Has(bs[i].tried, j)
      BY <1>7 DEF ToBeRead
    <2>2. j \in Nat /\ j # k /\ j \in Lines
      BY TailedFileAssumption DEF Lines
    <2>3. i \in Own(bs)
      BY <2>1, <2>2, LastIsOwn
    <2>4. Has(bs[i].spans, j) /\ \A m \in 1 .. Len(bs) : i < m => ~ Has(bs[m].spans, j)
      BY <2>1 DEF LastWith
    <2>5. Has(left[i].spans, j) /\ ~ Has(left[i].tried, j)
      BY <1>5, <2>1, <2>2, <2>3, <2>4 DEF Thinner
    <2>6. i \in S
      <3>1. left[i].spans # <<>>
        BY <2>5, EmptyList DEF Has
      <3>. QED
        BY <2>3, <3>1
    <2>7. \A m \in S : i < m => ~ Has(left[m].spans, j)
      BY <1>3, <1>4, <1>5, <2>2, <2>4
    <2>. QED
      BY <2>5, <2>6, <2>7 DEF ToBeRead, LastWith
  <1> HIDE DEF S, x
  <1>8. /\ OnTheWay(left, S, d, w, u) => OnTheWay(t, 1 .. Len(t), d, w, u)
        /\ \A j : ToBeRead(left, S, j) => ToBeRead(t, 1 .. Len(t), j)
    BY <1>1, <1>2, <1>4, AtKeeps
  <1>. QED
    BY <1>6, <1>7, <1>8

LEMMA LastWithExists ==
  ASSUME NEW m \in Nat, NEW bs, NEW k, NEW i \in 1 .. m, Has(bs[i].spans, k)
  PROVE  \E j \in i .. m : LastWith(bs, 1 .. m, k, j)
  <1> DEFINE T == {j \in 1 .. m : Has(bs[j].spans, k)}
  <1>1. T \in SUBSET Nat /\ T \subseteq 1 .. m /\ i \in T
    OBVIOUS
  <1>2. IsFiniteSet(T)
    <2> HIDE DEF T
    <2>1. IsFiniteSet(1 .. m)
      BY FS_Interval
    <2>. QED
      BY <1>1, <2>1, FS_Subset
  <1>3. \A j \in 1 .. m : j \in T <=> Has(bs[j].spans, k)
    OBVIOUS
  <1> HIDE DEF T
  <1>4. PICK j : j \in T /\ \A l \in T : l <= j
    BY <1>1, <1>2, LargestNumber
  <1>5. j \in 1 .. m /\ i <= j /\ j \in i .. m
    BY <1>1, <1>4
  <1>6. \A l \in 1 .. m : j < l => ~ Has(bs[l].spans, k)
    BY <1>3, <1>4, <1>5
  <1>7. LastWith(bs, 1 .. m, k, j)
    BY <1>3, <1>4, <1>5, <1>6 DEF LastWith
  <1>. QED
    BY <1>5, <1>7

LEMMA PositiveProduct ==
  ASSUME NEW a \in Nat \ {0}, NEW b \in Nat \ {0}
  PROVE  a * b \in Nat \ {0}
  <1>1. a * b \in Nat
    OBVIOUS
  <1>2. a * b >= 1 * b
    <2>1. (a - 1) * b >= 0 /\ (a - 1) * b = a * b - b
      OBVIOUS
    <2>. QED
      BY <2>1
  <1>. QED
    BY <1>1, <1>2

\* Events are only added, and lines without an event.
MoreEvents(w, v, u, z) ==
    u \subseteq z /\ \A a \in Waits : w[a] > 0 => v[a] > 0

LEMMA MoreEventsKeep ==
  ASSUME NEW bs, NEW S, NEW d, NEW w, NEW u, NEW v, NEW z, OnTheWay(bs, S, d, w, u), MoreEvents(w, v, u, z)
  PROVE  OnTheWay(bs, S, d, v, z)
  <1>1. \A t : Announced(w, t) => Announced(v, t)
    BY DEF Announced, MoreEvents
  <1>2. \A k \in Lines \ z : k \in Lines \ u
    BY DEF MoreEvents
  <1>3. \A i \in S : \A k \in Lines \ z : Untried(bs[i], k) => Announced(v, bs[i].time)
    BY <1>1, <1>2 DEF OnTheWay
  <1>. QED
    BY <1>3 DEF OnTheWay

\* A line goes to a new bucket, or to one of the same time.
LEMMA NewOnTheWay ==
  ASSUME NEW bs, LinedBuckets(bs), NEW k \in Lines, NEW d \in Nat \ {0}, NEW n \in Nat \ {0}, NEW t, t = d * n,
         NEW w, NEW u, OnTheWay(bs, 1 .. Len(bs), d, w, u), k \notin u => Announced(w, t),
         NEW put, put = PutOff(bs, LineAt(k), t, n, New)
  PROVE  /\ OnTheWay(put, 1 .. Len(put), d, w, u) /\ ToBeRead(put, 1 .. Len(put), k)
         /\ \A j \in Lines \ {k} : ToBeRead(bs, 1 .. Len(bs), j) => ToBeRead(put, 1 .. Len(put), j)
  <1> DEFINE x == LineAt(k)
             b == [time |-> t, retries |-> n, spans |-> <<x>>, tried |-> <<>>]
             m == Len(bs)
  <1>1. m \in Nat /\ Sequence(bs) /\ k \in Nat
    BY SequenceProperties, TailedFileAssumption DEF LinedBuckets, Lines
  <1>2. t \in Nat \ {0}
    BY PositiveProduct
  <1>3. put = Append(bs, b)
    BY DEF PutOff
  <1>4. b.time = t /\ b.retries = n /\ b.spans = <<x>> /\ b.tried = <<>>
    OBVIOUS
  <1>5. \A j \in Lines : Has(b.spans, j) <=> j = k
    <2> SUFFICES ASSUME NEW j \in Lines PROVE Has(b.spans, j) <=> j = k
      OBVIOUS
    <2>1. j \in Nat /\ Covered(b.spans) = Covered(<<>>) \cup SpanBytes(x) /\ ~ Has(<<>>, j)
      BY <1>4, LineAlone, EmptyList, TailedFileAssumption DEF Lines, Has
    <2>. QED
      BY <1>1, <2>1, OtherLines
  <1>6. <<>> \in Lists /\ \A j : ~ Has(<<>>, j)
    BY EmptyList, ApartIsList DEF Lined, Has
  <1>7. Aged(b, d) /\ Full(b, d)
    <2> HIDE DEF b
    <2>1. b.time \in 0 .. d * b.retries /\ b.time = d * b.retries
      BY <1>2, <1>4
    <2>. QED
      BY <1>4, <1>6, <2>1 DEF Aged, Full
  <1> HIDE DEF b, x, m
  <1>8. /\ Len(put) = m + 1
        /\ \A i \in 1 .. m : put[i] = bs[i]
        /\ put[m + 1] = b
    BY <1>1, <1>3, AppendIsSequence DEF m
  <1>9. \A i \in 1 .. Len(put) : (i = m + 1 /\ put[i] = b) \/ (i \in 1 .. m /\ put[i] = bs[i])
    BY <1>1, <1>8
  <1>10. /\ \A i \in 1 .. m : Aged(bs[i], d)
         /\ \A i, j \in 1 .. m : i < j /\ bs[i].time > 0 /\ Full(bs[i], d) => Full(bs[j], d)
         /\ \A i \in 1 .. m : \A j \in Lines \ u : Untried(bs[i], j) => Announced(w, bs[i].time)
    BY DEF OnTheWay, m
  <1>11. \A i \in 1 .. Len(put) : Aged(put[i], d)
    BY <1>7, <1>9, <1>10
  <1>12. ASSUME NEW i \in 1 .. Len(put), NEW j \in 1 .. Len(put), i < j, put[i].time > 0, Full(put[i], d)
         PROVE  Full(put[j], d)
    <2>1. CASE j = m + 1
      BY <1>7, <1>8, <2>1
    <2>2. CASE j # m + 1
      <3>1. j \in 1 .. m /\ i \in 1 .. m
        BY <1>1, <1>9, <1>12, <2>2
      <3>. QED
        BY <1>8, <1>10, <1>12, <3>1
    <2>. QED
      BY <2>1, <2>2
  <1>13. ASSUME NEW i \in 1 .. Len(put), NEW j \in Lines \ u, Untried(put[i], j)
         PROVE  Announced(w, put[i].time)
    <2>1. CASE put[i] = b
      <3>1. j = k /\ b.time = t
        BY <1>4, <1>5, <1>13, <2>1 DEF Untried
      <3>. QED
        BY <2>1, <3>1
    <2>2. CASE i \in 1 .. m /\ put[i] = bs[i]
      BY <1>10, <1>13, <2>2
    <2>. QED
      BY <1>9, <2>1, <2>2
  <1>14. OnTheWay(put, 1 .. Len(put), d, w, u)
    BY <1>11, <1>12, <1>13 DEF OnTheWay
  <1>15. ToBeRead(put, 1 .. Len(put), k)
    <2>1. m + 1 \in 1 .. Len(put) /\ \A j \in 1 .. Len(put) : ~ (m + 1 < j)
      BY <1>1, <1>8
    <2>2. Has(put[m + 1].spans, k) /\ ~ Has(put[m + 1].tried, k)
      BY <1>4, <1>5, <1>6, <1>8
    <2>. QED
      BY <2>1, <2>2 DEF ToBeRead, LastWith
  <1>16. ASSUME NEW j \in Lines \ {k}, ToBeRead(bs, 1 .. m, j) PROVE ToBeRead(put, 1 .. Len(put), j)
    <2>1. PICK i : /\ i \in 1 .. m /\ Has(bs[i].spans, j) /\ ~ Has(bs[i].tried, j)
                   /\ \A l \in 1 .. m : i < l => ~ Has(bs[l].spans, j)
      BY <1>16 DEF ToBeRead, LastWith
    <2>2. i \in 1 .. Len(put) /\ put[i] = bs[i]
      BY <1>1, <1>8, <2>1
    <2>3. \A l \in 1 .. Len(put) : i < l => ~ Has(put[l].spans, j)
      BY <1>5, <1>9, <1>16, <2>1
    <2>. QED
      BY <2>1, <2>2, <2>3 DEF ToBeRead, LastWith
  <1>. QED
    BY <1>14, <1>15, <1>16 DEF m

LEMMA SameTimeOnTheWay ==
  ASSUME NEW bs, LinedBuckets(bs), NEW k \in Lines, NEW d \in Nat \ {0}, NEW n \in Nat \ {0}, NEW t, t = d * n,
         NEW w, NEW u, OnTheWay(bs, 1 .. Len(bs), d, w, u), k \notin u => Announced(w, t),
         NEW i \in 1 .. Len(bs), bs[i].time = t, bs[i].retries = n,
         NEW put, put = PutOff(bs, LineAt(k), t, n, i)
  PROVE  /\ OnTheWay(put, 1 .. Len(put), d, w, u) /\ ToBeRead(put, 1 .. Len(put), k)
         /\ \A j \in Lines \ {k} : ToBeRead(bs, 1 .. Len(bs), j) => ToBeRead(put, 1 .. Len(put), j)
  <1> DEFINE x == LineAt(k)
             l == Insert(bs[i].spans, x)
             b == [time |-> bs[i].time, retries |-> bs[i].retries, spans |-> l, tried |-> bs[i].tried]
             m == Len(bs)
  <1>1. m \in Nat /\ DOMAIN bs = 1 .. m /\ k \in Nat
    BY SequenceProperties, TailedFileAssumption DEF LinedBuckets, Lines
  <1>2. t \in Nat \ {0}
    BY PositiveProduct
  <1>3. Bucket(bs[i]) /\ Lined(bs[i].spans)
    BY DEF LinedBuckets
  <1>4. put = [bs EXCEPT ![i].spans = l]
    <2>1. i # New
      BY DEF New
    <2>. QED
      BY <2>1 DEF PutOff
  <1>5. Covered(l) = Covered(bs[i].spans) \cup SpanBytes(x)
    BY <1>3, LineInserted DEF InsertsLine
  <1>6. \A j \in Lines : Has(l, j) <=> Has(bs[i].spans, j) \/ j = k
    <2> SUFFICES ASSUME NEW j \in Lines PROVE Has(l, j) <=> Has(bs[i].spans, j) \/ j = k
      OBVIOUS
    <2>1. j \in Nat
      BY TailedFileAssumption DEF Lines
    <2> HIDE DEF l
    <2>. QED
      BY <1>1, <1>5, <2>1, OtherLines
  <1> HIDE DEF l, m, x
  <1>7. put = [j \in 1 .. m |-> IF j = i THEN b ELSE bs[j]]
    BY <1>1, <1>3, <1>4 DEF Bucket
  <1>8. b.time = bs[i].time /\ b.retries = bs[i].retries /\ b.spans = l /\ b.tried = bs[i].tried
    OBVIOUS
  <1> HIDE DEF b
  <1>9. DOMAIN put = 1 .. m /\ put = [j \in 1 .. m |-> put[j]]
    BY <1>7
  <1>10. Len(put) = m
    BY <1>1, <1>9, FunctionIsSequence
  <1>11. i \in 1 .. m /\ put[i] = b /\ \A j \in 1 .. m : j # i => put[j] = bs[j]
    BY <1>7 DEF m
  <1>12. \A j \in 1 .. m : /\ put[j].time = bs[j].time /\ put[j].retries = bs[j].retries
                           /\ put[j].tried = bs[j].tried
    BY <1>8, <1>11
  <1>13. /\ \A j \in 1 .. m : Aged(bs[j], d)
         /\ \A j, p \in 1 .. m : j < p /\ bs[j].time > 0 /\ Full(bs[j], d) => Full(bs[p], d)
         /\ \A j \in 1 .. m : \A p \in Lines \ u : Untried(bs[j], p) => Announced(w, bs[j].time)
    BY DEF OnTheWay, m
  <1>14. \A j \in 1 .. m : Aged(put[j], d) /\ (Full(put[j], d) <=> Full(bs[j], d))
    BY <1>12, <1>13 DEF Aged, Full
  <1>15. \A j, p \in 1 .. m : j < p /\ put[j].time > 0 /\ Full(put[j], d) => Full(put[p], d)
    BY <1>12, <1>13, <1>14
  <1>16. ASSUME NEW j \in 1 .. m, NEW p \in Lines \ u, Untried(put[j], p)
         PROVE  Announced(w, put[j].time)
    <2>1. CASE p = k /\ j = i
      BY <1>12, <1>16, <2>1
    <2>2. CASE ~ (p = k /\ j = i)
      <3>1. Untried(bs[j], p)
        BY <1>6, <1>8, <1>11, <1>12, <1>16, <2>2 DEF Untried
      <3>. QED
        BY <1>12, <1>13, <3>1
    <2>. QED
      BY <2>1, <2>2
  <1>17. OnTheWay(put, 1 .. m, d, w, u)
    BY <1>14, <1>15, <1>16 DEF OnTheWay
  <1>18. ToBeRead(put, 1 .. m, k)
    <2>1. Has(put[i].spans, k)
      BY <1>6, <1>8, <1>11
    <2>2. PICK j \in i .. m : LastWith(put, 1 .. m, k, j)
      BY <1>1, <1>11, <2>1, LastWithExists
    <2>3. j \in 1 .. m /\ (j = i \/ i < j)
      BY <1>1, <1>11
    <2>4. put[i].time > 0 /\ Full(put[i], d)
      BY <1>2, <1>11, <1>12 DEF Full
    <2>5. Full(put[j], d)
      BY <1>11, <1>15, <2>3, <2>4
    <2>6. put[j].time > 0
      <3>1. put[j].retries \in Nat \ {0}
        BY <1>14, <2>3 DEF Aged
      <3>2. d * put[j].retries \in Nat \ {0}
        BY <3>1, PositiveProduct
      <3>. QED
        BY <2>5, <3>2 DEF Full
    <2>7. put[j].tried = <<>>
      BY <1>14, <2>3, <2>6 DEF Aged
    <2>8. ~ Has(put[j].tried, k)
      BY <2>7, EmptyList DEF Has
    <2>. QED
      BY <2>2, <2>8 DEF ToBeRead
  <1>19. ASSUME NEW j \in Lines \ {k}, ToBeRead(bs, 1 .. m, j) PROVE ToBeRead(put, 1 .. m, j)
    <2>1. PICK p : /\ p \in 1 .. m /\ Has(bs[p].spans, j) /\ ~ Has(bs[p].tried, j)
                   /\ \A q \in 1 .. m : p < q => ~ Has(bs[q].spans, j)
      BY <1>19 DEF ToBeRead, LastWith
    <2>2. \A q \in 1 .. m : Has(put[q].spans, j) <=> Has(bs[q].spans, j)
      BY <1>6, <1>8, <1>11, <1>19
    <2>3. Has(put[p].spans, j) /\ ~ Has(put[p].tried, j)
      BY <1>12, <2>1, <2>2
    <2>. QED
      BY <2>1, <2>2, <2>3 DEF ToBeRead, LastWith
  <1>. QED
    BY <1>10, <1>17, <1>18, <1>19 DEF m
(* What a line put off leaves: the waits are as they should be, the line is  *)
(* to be read, and so is every other line that was.                        *)
PutWell(put, bs, d, w, u, k) ==
  /\ OnTheWay(put, 1 .. Len(put), d, w, u)
  /\ ToBeRead(put, 1 .. Len(put), k)
  /\ \A j \in Lines \ {k} : ToBeRead(bs, 1 .. Len(bs), j) => ToBeRead(put, 1 .. Len(put), j)

LEMMA PutOnTheWay ==
  ASSUME NEW bs, LinedBuckets(bs), NEW k \in Lines, NEW d \in Nat \ {0}, NEW n \in Nat \ {0}, NEW t, t = d * n,
         NEW w, NEW u, OnTheWay(bs, 1 .. Len(bs), d, w, u), k \notin u => Announced(w, t),
         NEW i, i = New \/ (i \in 1 .. Len(bs) /\ bs[i].time = t /\ bs[i].retries = n),
         NEW put, put = PutOff(bs, LineAt(k), t, n, i)
  PROVE  PutWell(put, bs, d, w, u, k)
  <1>1. CASE i = New
    <2>1. put = PutOff(bs, LineAt(k), t, n, New)
      BY <1>1
    <2>. QED
      BY <2>1, NewOnTheWay DEF PutWell
  <1>2. CASE i \in 1 .. Len(bs) /\ bs[i].time = t /\ bs[i].retries = n
    BY <1>2, SameTimeOnTheWay DEF PutWell
  <1>. QED
    BY <1>1, <1>2

---------------------------------------------------------------------------
(* The retry of a line.                                                    *)

LEMMA RetryCounts ==
  ASSUME NEW bs, NEW m \in Nat, \A i \in 1 .. m : bs[i].retries \in Nat, NEW S \in SUBSET (1 .. m), NEW x
  PROVE  /\ RetriesOf(bs, S, x) \in SUBSET Nat /\ RetriesOf(bs, S, x) # {}
         /\ IsFiniteSet(RetriesOf(bs, S, x)) /\ RetriesOf(bs, S, x) \subseteq RetriesOf(bs, 1 .. m, x)
  <1> DEFINE T == {j \in S : ContainsSpan(bs[j].spans, x)}
             R == {bs[j].retries : j \in T}
  <1>1. RetriesOf(bs, S, x) = {0} \cup R
    BY DEF RetriesOf
  <1>2. T \subseteq 1 .. m
    OBVIOUS
  <1>3. IsFiniteSet(T)
    <2> HIDE DEF T
    <2>1. IsFiniteSet(1 .. m)
      BY FS_Interval
    <2>. QED
      BY <1>2, <2>1, FS_Subset
  <1>4. RetriesOf(bs, S, x) \subseteq RetriesOf(bs, 1 .. m, x)
    BY DEF RetriesOf
  <1>5. R \in SUBSET Nat
    <2>1. \A i \in T : bs[i].retries \in Nat
      BY <1>2
    <2> HIDE DEF T
    <2>. QED
      BY <2>1
  <1> HIDE DEF T
  <1>6. IsFiniteSet(R)
    <2> DEFINE f == [j \in T |-> bs[j].retries]
    <2>1. R = {f[j] : j \in T}
      OBVIOUS
    <2> HIDE DEF R
    <2>2. f \in [T -> {f[j] : j \in T}]
      OBVIOUS
    <2> HIDE DEF f
    <2>3. f \in Surjection(T, R)
      BY <2>1, <2>2 DEF Surjection
    <2>. QED
      BY <1>3, <2>3, FS_Surjection
  <1> HIDE DEF R
  <1>7. IsFiniteSet({0})
    BY FS_Singleton
  <1>8. IsFiniteSet({0} \cup R)
    BY <1>6, <1>7, FS_Union
  <1>. QED
    BY <1>1, <1>4, <1>5, <1>8

LEMMA ProductGrows ==
  ASSUME NEW a \in Nat, NEW b \in Nat, NEW c \in Nat, NEW e \in Nat, a <= c, b <= e
  PROVE  a * b <= c * e
  <1>1. e - b \in Nat /\ a * (e - b) \in Nat /\ a * (e - b) = a * e - a * b
    OBVIOUS
  <1>2. c - a \in Nat /\ (c - a) * e \in Nat /\ (c - a) * e = c * e - a * e
    OBVIOUS
  <1>. QED
    BY <1>1, <1>2

\* The event comes after a number of ticks that the model counts.
LEMMA TryInTime ==
  ASSUME NEW bs, NEW m \in Nat, DOMAIN bs = 1 .. m, \A i \in 1 .. m : bs[i].retries \in Nat,
         NEW x, RetriesRemaining(bs, x) > 0, delay \in Delays \ {0}
  PROVE  /\ NextTry(bs, x) \in Nat \ {0} /\ delay \in Nat \ {0}
         /\ delay * NextTry(bs, x) \in Waits
  <1> DEFINE D == {j \in DOMAIN bs : Due(bs[j])}
             A == RetriesOf(bs, DOMAIN bs, x)
             B == RetriesOf(bs, D, x)
  <1>1. D \in SUBSET (1 .. m)
    OBVIOUS
  <1>2. A \in SUBSET Nat /\ A # {} /\ IsFiniteSet(A)
    BY RetryCounts
  <1>3. B \in SUBSET Nat /\ B # {} /\ IsFiniteSet(B) /\ B \subseteq A
    <2> HIDE DEF D
    <2>. QED
      BY <1>1, RetryCounts
  <1>4. NextTry(bs, x) = Max(B) + 1 /\ RetriesRemaining(bs, x) = Tries - Max(A)
    BY DEF NextTry, RetriesRemaining
  <1> HIDE DEF A, B, D
  <1>5. Max(B) \in B /\ Max(A) \in A /\ \A a \in A : a <= Max(A)
    BY <1>2, <1>3, LargestNumber
  <1>6. Max(B) \in Nat /\ Max(A) \in Nat /\ Max(B) <= Max(A)
    BY <1>2, <1>3, <1>5
  <1>7. PICK n : n = NextTry(bs, x)
    OBVIOUS
  <1>8. n \in Nat \ {0} /\ n <= Tries /\ Tries \in Nat
    BY <1>4, <1>6, <1>7, TailedFileAssumption
  <1>9. Delays \in SUBSET Nat /\ IsFiniteSet(Delays) /\ Delays # {}
    BY TailedFileAssumption
  <1>10. Max(Delays) \in Nat /\ delay <= Max(Delays) /\ delay \in Nat \ {0}
    <2>1. Max(Delays) \in Delays /\ \A d \in Delays : d <= Max(Delays)
      BY <1>9, LargestNumber
    <2>. QED
      BY <1>9, <2>1
  <1>11. delay * n <= Max(Delays) * Tries
    BY <1>8, <1>10, ProductGrows
  <1>12. Max(Delays) * Tries = Tries * Max(Delays) /\ Max(Delays) * Tries \in Nat
    BY <1>8, <1>10
  <1>13. delay * n \in Nat
    BY <1>8, <1>10
  <1>14. delay * n \in Waits
    BY <1>11, <1>12, <1>13 DEF Waits
  <1>. QED
    BY <1>7, <1>8, <1>10, <1>14

\* The places, for a time that is not zero.
LEMMA PlaceFits ==
  ASSUME NEW bs, LinedBuckets(bs), NEW time \in Nat \ {0}, NEW n, NEW i \in Places(bs, time, n)
  PROVE  i = New \/ (i \in 1 .. Len(bs) /\ bs[i].time = time /\ bs[i].retries = n)
  <1> DEFINE same == {j \in DOMAIN bs : bs[j].time = time /\ bs[j].retries = n}
  <1>1. Len(bs) \in Nat /\ DOMAIN bs = 1 .. Len(bs)
    BY SequenceProperties DEF LinedBuckets
  <1>2. same \in SUBSET Nat
    BY <1>1
  <1>3. ASSUME same # {} PROVE Min(same) \in same
    <2> HIDE DEF same
    <2>1. \E m \in same : \A j \in same : m <= j
      BY <1>2, <1>3, SmallestNumber
    <2>. QED
      BY <2>1 DEF Min
  <1>4. \/ Places(bs, time, n) = {New}
        \/ same # {} /\ Places(bs, time, n) = {Min(same)}
    BY DEF Places
  <1>5. i = New \/ i \in same
    <2> HIDE DEF same
    <2>. QED
      BY <1>3, <1>4
  <1>. QED
    BY <1>1, <1>5

\* Where the retry takes the line from: the same buckets, and only that line left out.
LEMMA TakenOut ==
  ASSUME NEW bs, LinedBuckets(bs), NEW k \in Lines, NEW left,
         NEW taken \in SUBSET (1 .. Len(bs)),
         left = [j \in DOMAIN bs |-> IF j \in taken THEN Without(bs[j], LineAt(k)) ELSE bs[j]],
         Exact(bs, left, taken, LineAt(k)),
         NEW d, NEW w, NEW u, OnTheWay(bs, 1 .. Len(bs), d, w, u)
  PROVE  /\ LinedBuckets(left) /\ Len(left) = Len(bs) /\ OnTheWay(left, 1 .. Len(left), d, w, u)
         /\ \A j \in 1 .. Len(bs) : Thinner(left[j], bs[j])
         /\ \A j \in Lines \ {k} : ToBeRead(bs, 1 .. Len(bs), j) => ToBeRead(left, 1 .. Len(left), j)
  <1> DEFINE x == LineAt(k)
  <1>1. Len(bs) \in Nat /\ DOMAIN bs = 1 .. Len(bs) /\ k \in Nat
    BY SequenceProperties, TailedFileAssumption DEF LinedBuckets, Lines
  <1>2. DOMAIN left = 1 .. Len(bs) /\ left = [j \in 1 .. Len(bs) |-> left[j]]
    BY <1>1
  <1>3. Sequence(left) /\ Len(left) = Len(bs)
    BY <1>1, <1>2, FunctionIsSequence
  <1>4. ASSUME NEW j \in 1 .. Len(bs)
        PROVE  /\ Bucket(left[j]) /\ Lined(left[j].spans) /\ Thinner(left[j], bs[j])
               /\ \A p \in Lines \ {k} : Has(left[j].spans, p) <=> Has(bs[j].spans, p)
    <2>1. Bucket(bs[j]) /\ Lined(bs[j].spans)
      BY DEF LinedBuckets
    <2>2. CASE j \in taken
      <3>1. left[j] = Without(bs[j], x)
        BY <1>1, <2>2
      <3>2. Tidy(left[j].spans) /\ Covered(left[j].spans) = Covered(bs[j].spans) \ SpanBytes(x)
        BY <2>2 DEF Exact
      <3>3. Lined(left[j].spans)
        BY <1>1, <2>1, <3>2, ExactLeavesLines
      <3>4. ASSUME NEW p \in Lines
            PROVE  Has(left[j].spans, p) <=> Has(bs[j].spans, p) /\ p # k
        <4>1. p \in Nat
          BY TailedFileAssumption DEF Lines
        <4>. QED
          BY <1>1, <3>2, <4>1, OtherLines
      <3>5. Bucket(left[j])
        BY <2>1, <3>1, WithoutSpan
      <3>6. left[j].time = bs[j].time /\ left[j].retries = bs[j].retries /\ left[j].tried = bs[j].tried
        BY <2>1, <3>1, WithoutFields
      <3>. QED
        BY <3>3, <3>4, <3>5, <3>6 DEF Thinner
    <2>3. CASE j \notin taken
      <3>1. left[j] = bs[j]
        BY <1>1, <2>3
      <3>. QED
        BY <2>1, <3>1 DEF Thinner
    <2>. QED
      BY <2>2, <2>3
  <1>5. LinedBuckets(left)
    BY <1>3, <1>4 DEF LinedBuckets
  <1>6. OnTheWay(left, 1 .. Len(left), d, w, u)
    <2>1. \A j \in 1 .. Len(bs) : Thinner(left[j], bs[j])
      BY <1>4
    <2>2. OnTheWay(left, 1 .. Len(bs), d, w, u)
      BY <2>1, ThinnerKeeps
    <2>. QED
      BY <1>3, <2>2
  <1>7. ASSUME NEW p \in Lines \ {k}, ToBeRead(bs, 1 .. Len(bs), p)
        PROVE  ToBeRead(left, 1 .. Len(bs), p)
    <2>1. PICK i : /\ i \in 1 .. Len(bs) /\ Has(bs[i].spans, p) /\ ~ Has(bs[i].tried, p)
                   /\ \A q \in 1 .. Len(bs) : i < q => ~ Has(bs[q].spans, p)
      BY <1>7 DEF ToBeRead, LastWith
    <2>2. \A q \in 1 .. Len(bs) : Has(left[q].spans, p) <=> Has(bs[q].spans, p)
      BY <1>4
    <2>3. left[i].tried = bs[i].tried
      BY <1>4, <2>1 DEF Thinner
    <2>4. Has(left[i].spans, p) /\ ~ Has(left[i].tried, p)
      BY <2>1, <2>2, <2>3
    <2>5. LastWith(left, 1 .. Len(bs), p, i)
      BY <2>1, <2>2, <2>4 DEF LastWith
    <2>. QED
      BY <2>4, <2>5 DEF ToBeRead
  <1>. QED
    BY <1>3, <1>4, <1>5, <1>6, <1>7

\* The event that is sent, or the line that is put off without.
WithEvent(w, r) == IF r.send THEN [w EXCEPT ![r.time] = @ + 1] ELSE w
Excused(u, r, k) == IF r.send THEN u ELSE u \cup {k}

LEMMA RetryOnTheWay ==
  ASSUME NEW bs, LinedBuckets(bs), NEW k \in Lines, delay \in Delays \ {0},
         RetriesRemaining(bs, LineAt(k)) > 0,
         NEW n, n = NextTry(bs, LineAt(k)), NEW i \in Places(bs, delay * n, n),
         NEW r, r = Retry(bs, LineAt(k), i), r.exact,
         NEW w \in [Waits -> Nat], NEW u, OnTheWay(bs, 1 .. Len(bs), delay, w, u),
         NEW v, v = WithEvent(w, r), NEW z, z = Excused(u, r, k)
  PROVE  /\ v \in [Waits -> Nat]
         /\ OnTheWay(r.buckets, 1 .. Len(r.buckets), delay, v, z)
         /\ ToBeRead(r.buckets, 1 .. Len(r.buckets), k)
         /\ \A j \in Lines \ {k} :
               ToBeRead(bs, 1 .. Len(bs), j) => ToBeRead(r.buckets, 1 .. Len(r.buckets), j)
  <1> DEFINE x == LineAt(k)
  <1>1. Len(bs) \in Nat /\ DOMAIN bs = 1 .. Len(bs) /\ k \in Nat
    BY SequenceProperties, TailedFileAssumption DEF LinedBuckets, Lines
  <1>2. \A j \in 1 .. Len(bs) : bs[j].retries \in Nat
    BY DEF OnTheWay, Aged
  <1>3. n \in Nat \ {0} /\ delay \in Nat \ {0} /\ delay * n \in Waits
    BY <1>1, <1>2, TryInTime
  <1>4. delay * n \in Nat \ {0}
    BY <1>3, PositiveProduct
  <1>5. PICK taken : taken = {j \in DOMAIN bs : Due(bs[j]) /\ ~ ContainsSpan(bs[j].tried, x)}
    OBVIOUS
  <1>6. PICK left : left = [j \in DOMAIN bs |-> IF j \in taken THEN Without(bs[j], x) ELSE bs[j]]
    OBVIOUS
  <1>7. PICK put : put = PutOff(left, x, delay * n, n, i)
    OBVIOUS
  <1>8. /\ r.time = delay * n /\ r.buckets = At(put, Own(put)) /\ Exact(bs, left, taken, x)
        /\ r.send \in BOOLEAN
    BY <1>5, <1>6, <1>7 DEF Retry, NoneInFlight
  <1>9. taken \in SUBSET (1 .. Len(bs))
    BY <1>1, <1>5
  <1>10. /\ v \in [Waits -> Nat] /\ MoreEvents(w, v, u, z)
         /\ k \notin z => Announced(v, delay * n)
    <2>1. CASE r.send
      <3>1. v = [w EXCEPT ![delay * n] = @ + 1] /\ z = u
        BY <1>8, <2>1 DEF WithEvent, Excused
      <3>2. v \in [Waits -> Nat] /\ v[delay * n] > 0
        BY <1>3, <3>1
      <3>3. \A a \in Waits : w[a] > 0 => v[a] > 0
        BY <1>3, <3>1
      <3>4. Announced(v, delay * n)
        BY <1>3, <1>4, <3>2 DEF Announced
      <3>. QED
        BY <3>1, <3>2, <3>3, <3>4 DEF MoreEvents
    <2>2. CASE ~ r.send
      BY <2>2 DEF MoreEvents, WithEvent, Excused
    <2>. QED
      BY <1>8, <2>1, <2>2
  <1>11. OnTheWay(bs, 1 .. Len(bs), delay, v, z)
    BY <1>10, MoreEventsKeep
  <1> HIDE DEF x
  <1>12. /\ LinedBuckets(left) /\ Len(left) = Len(bs) /\ OnTheWay(left, 1 .. Len(left), delay, v, z)
         /\ \A j \in 1 .. Len(bs) : Thinner(left[j], bs[j])
         /\ \A j \in Lines \ {k} :
               ToBeRead(bs, 1 .. Len(bs), j) => ToBeRead(left, 1 .. Len(left), j)
    <2>1. left = [j \in DOMAIN bs |-> IF j \in taken THEN Without(bs[j], LineAt(k)) ELSE bs[j]]
      BY <1>6 DEF x
    <2>2. Exact(bs, left, taken, LineAt(k))
      BY <1>8 DEF x
    <2>. QED
      BY <1>9, <1>11, <2>1, <2>2, TakenOut
  <1>13. i = New \/ (i \in 1 .. Len(left) /\ left[i].time = delay * n /\ left[i].retries = n)
    <2>1. i = New \/ (i \in 1 .. Len(bs) /\ bs[i].time = delay * n /\ bs[i].retries = n)
      BY <1>4, PlaceFits
    <2>. QED
      BY <1>12, <2>1 DEF Thinner
  <1>14. PutWell(put, left, delay, v, z, k)
    <2>1. PICK t, d : t = delay * n /\ d = delay
      OBVIOUS
    <2>2. LinedBuckets(left) /\ k \in Lines
      BY <1>12
    <2>3. d \in Nat \ {0} /\ n \in Nat \ {0} /\ t = d * n
      BY <1>3, <2>1
    <2>4. OnTheWay(left, 1 .. Len(left), d, v, z)
      BY <1>12, <2>1
    <2>5. k \notin z => Announced(v, t)
      BY <1>10, <2>1
    <2>6. i = New \/ (i \in 1 .. Len(left) /\ left[i].time = t /\ left[i].retries = n)
      BY <1>13, <2>1
    <2>7. put = PutOff(left, LineAt(k), t, n, i)
      BY <1>7, <2>1 DEF x
    <2>8. PutWell(put, left, d, v, z, k)
      BY ONLY <2>2, <2>3, <2>4, <2>5, <2>6, <2>7, PutOnTheWay
    <2>. QED
      BY <2>1, <2>8
  <1>15. LinedBuckets(put)
    <2>1. i \in {New} \cup 1 .. Len(left)
      BY <1>13
    <2>. QED
      BY <1>7, <1>12, <2>1, PutOffKeeps DEF x
  <1>16. Len(put) \in Nat /\ DOMAIN put = 1 .. Len(put)
    BY <1>15, SequenceProperties DEF LinedBuckets
  <1>17. Own(put) \in SUBSET (1 .. Len(put))
    BY <1>16 DEF Own
  <1>18. /\ OnTheWay(put, Own(put), delay, v, z) =>
               OnTheWay(r.buckets, 1 .. Len(r.buckets), delay, v, z)
         /\ \A j : ToBeRead(put, Own(put), j) => ToBeRead(r.buckets, 1 .. Len(r.buckets), j)
    <2>1. PICK t : t = r.buckets
      OBVIOUS
    <2>2. PICK S, m : S = Own(put) /\ m = Len(put)
      OBVIOUS
    <2>3. m \in Nat /\ S \in SUBSET (1 .. m) /\ t = At(put, S)
      BY <1>8, <1>16, <1>17, <2>1, <2>2
    <2>4. PICK s : s = put
      OBVIOUS
    <2>5. m \in Nat /\ S \in SUBSET (1 .. m) /\ t = At(s, S)
      BY <2>3, <2>4
    <2>6. \A a, b, c : OnTheWay(s, S, a, b, c) => OnTheWay(t, 1 .. Len(t), a, b, c)
      BY <2>5, AtKeeps
    <2>7. \A j : ToBeRead(s, S, j) => ToBeRead(t, 1 .. Len(t), j)
      BY <2>5, AtKeeps
    <2>. QED
      BY <2>1, <2>2, <2>4, <2>6, <2>7
  <1>19. OnTheWay(put, Own(put), delay, v, z)
    BY <1>14, <1>17, SomePlaces DEF PutWell
  <1>20. ASSUME NEW j \in Lines, ToBeRead(put, 1 .. Len(put), j) PROVE ToBeRead(put, Own(put), j)
    <2>1. PICK p : LastWith(put, 1 .. Len(put), j, p) /\ ~ Has(put[p].tried, j)
      BY <1>20 DEF ToBeRead
    <2>2. j \in Nat
      BY TailedFileAssumption DEF Lines
    <2>3. p \in Own(put)
      BY <1>15, <2>1, <2>2, LastIsOwn
    <2>4. LastWith(put, Own(put), j, p)
      BY <1>17, <2>1, <2>3 DEF LastWith
    <2>. QED
      BY <2>1, <2>4 DEF ToBeRead
  <1>. QED
    BY <1>10, <1>12, <1>14, <1>18, <1>19, <1>20 DEF PutWell
---------------------------------------------------------------------------
(* What tail() does with the buckets that are due.                         *)

\* The buckets after it: one that is due has tried its spans.
AfterTry(b, offsets) ==
    IF Due(b) THEN [b EXCEPT !.tried = GivenBack(offsets, b).tried] ELSE b

LEMMA ReopenedBuckets ==
  ASSUME NEW tf, Inner(tf)
  PROVE  Reopen(tf).buckets =
            At([i \in DOMAIN tf.buckets |-> AfterTry(tf.buckets[i], tf.offsets)],
               {i \in DOMAIN tf.buckets : Due(tf.buckets[i]) => tf.buckets[i].spans # <<>>})
  <1> DEFINE bs == tf.buckets
             os == FoldLeft(LAMBDA offsets, b : IF Due(b) THEN GivenBack(offsets, b).offsets
                                                ELSE offsets, tf.offsets, bs)
             left == [i \in DOMAIN bs |->
                         IF Due(bs[i]) THEN [bs[i] EXCEPT !.tried = GivenBack(tf.offsets, bs[i]).tried]
                         ELSE bs[i]]
             S == {i \in DOMAIN bs : Due(bs[i]) => bs[i].spans # <<>>}
             at == At(left, S)
  <1>1. Reopen(tf) = [tf EXCEPT !.offsets = os, !.buckets = at]
    BY DEF Reopen
  <1>2. at = At([i \in DOMAIN bs |-> AfterTry(bs[i], tf.offsets)], S)
    BY DEF AfterTry
  <1> HIDE DEF os, at, S
  <1>3. Reopen(tf).buckets = at
    BY <1>1 DEF Inner
  <1>. QED
    BY <1>2, <1>3 DEF S

LEMMA TriedNow ==
  ASSUME NEW b, Bucket(b), Lined(b.spans), NEW offsets, NEW c, c = AfterTry(b, offsets)
  PROVE  /\ c.time = b.time /\ c.retries = b.retries /\ c.spans = b.spans
         /\ ~ Due(b) => c = b
         /\ Due(b) /\ b.tried \in Lists => c.tried \in Lists /\ \A k : ~ Untried(c, k)
  <1>1. CASE ~ Due(b)
    BY <1>1 DEF AfterTry
  <1>2. CASE Due(b)
    <2>1. PICK t : t = GivenBack(offsets, b).tried
      OBVIOUS
    <2>2. c = [b EXCEPT !.tried = t]
      BY <1>2, <2>1 DEF AfterTry
    <2>3. c = [time |-> b.time, retries |-> b.retries, spans |-> b.spans, tried |-> t]
      BY <2>2 DEF Bucket
    <2>4. c.time = b.time /\ c.retries = b.retries /\ c.spans = b.spans /\ c.tried = t
      BY <2>3
    <2>5. ASSUME b.tried \in Lists PROVE c.tried \in Lists /\ \A k : ~ Untried(c, k)
      <3>1. b.spans \in Seq(Spans)
        BY ApartIsList DEF Lined, Lists
      <3>2. t \in Lists /\ Covered(b.spans) \subseteq Covered(t)
        BY <2>1, <2>5, <3>1, GivenBackTries
      <3>3. \A k : Has(b.spans, k) => Has(t, k)
        BY <3>2 DEF Has
      <3>. QED
        BY <2>4, <3>2, <3>3 DEF Untried
    <2>. QED
      BY <1>2, <2>4, <2>5
  <1>. QED
    BY <1>1, <1>2

\* A line that a bucket gives back now is not in the offsets any more.
LEMMA GivenIsGone ==
  ASSUME NEW tf, Lined(tf.offsets), LinedBuckets(tf.buckets), NEW f, Reopened(tf, f),
         NEW i \in 1 .. Len(tf.buckets), Due(tf.buckets[i]), tf.buckets[i].tried \in Lists,
         NEW k, Untried(tf.buckets[i], k)
  PROVE  ~ Has(f.offsets, k)
  <1> DEFINE b == tf.buckets[i]
  <1>1. Lined(b.spans) /\ i \in DOMAIN tf.buckets
    BY SequenceProperties DEF LinedBuckets
  <1>2. Has(b.spans, k) /\ ~ Has(b.tried, k)
    BY DEF Untried
  <1>3. PICK j \in DOMAIN b.spans : 2 * k \in SpanBytes(b.spans[j])
    BY <1>2 DEF Has, Covered
  <1>4. b.spans[j].start \in Int /\ b.spans[j].end \in Int
    BY <1>1, TidyIsApart DEF Lined, Apart
  <1>5. ~ ContainsSpan(b.tried, b.spans[j])
    <2> SUFFICES ASSUME ContainsSpan(b.tried, b.spans[j]) PROVE FALSE
      OBVIOUS
    <2>1. PICK x : x = b.spans[j]
      OBVIOUS
    <2>2. PICK t : t = b.tried
      OBVIOUS
    <2> HIDE DEF b
    <2>3. t \in Lists
      BY <2>2 DEF b
    <2>4. SpanBytes(x) \subseteq Covered(t)
      BY <1>4, <2>1, <2>2, <2>3, ContainedIsCovered
    <2>. QED
      BY <1>2, <1>3, <2>1, <2>2, <2>4 DEF Has
  <1>6. 2 * k \in Given(tf)
    BY <1>1, <1>3, <1>5 DEF Given
  <1>. QED
    BY <1>6 DEF Reopened, Has

LEMMA ReopenOnTheWay ==
  ASSUME NEW tf, Inner(tf), Lined(tf.offsets), LinedBuckets(tf.buckets),
         NEW f, f = Reopen(tf), Reopened(tf, f),
         NEW d, NEW w, NEW v, NEW u, OnTheWay(tf.buckets, 1 .. Len(tf.buckets), d, w, u),
         \A a \in Waits \ {0} : w[a] > 0 => v[a] > 0
  PROVE  /\ OnTheWay(f.buckets, 1 .. Len(f.buckets), d, v, u)
         /\ \A k : Has(f.offsets, k) /\ ToBeRead(tf.buckets, 1 .. Len(tf.buckets), k) =>
                      ToBeRead(f.buckets, 1 .. Len(f.buckets), k)
  <1> DEFINE m == Len(tf.buckets)
  <1>1. PICK bs, offsets : bs = tf.buckets /\ offsets = tf.offsets
    OBVIOUS
  <1>2. m = Len(bs) /\ m \in Nat /\ DOMAIN bs = 1 .. m
    BY <1>1, SequenceProperties DEF LinedBuckets
  <1>3. PICK left : left = [i \in DOMAIN bs |-> AfterTry(bs[i], offsets)]
    OBVIOUS
  <1>4. PICK S : S = {i \in DOMAIN bs : Due(bs[i]) => bs[i].spans # <<>>}
    OBVIOUS
  <1>5. f.buckets = At(left, S) /\ S \in SUBSET (1 .. m)
    BY <1>1, <1>2, <1>3, <1>4, ReopenedBuckets
  <1>6. /\ \A i \in 1 .. m : Aged(bs[i], d)
        /\ \A i, j \in 1 .. m : i < j /\ bs[i].time > 0 /\ Full(bs[i], d) => Full(bs[j], d)
        /\ \A i \in 1 .. m : \A k \in Lines \ u : Untried(bs[i], k) => Announced(w, bs[i].time)
    BY <1>1 DEF OnTheWay
  <1>7. ASSUME NEW i \in 1 .. m
        PROVE  /\ left[i].time = bs[i].time /\ left[i].retries = bs[i].retries
               /\ left[i].spans = bs[i].spans
               /\ ~ Due(bs[i]) => left[i] = bs[i]
               /\ Due(bs[i]) => left[i].tried \in Lists /\ \A k : ~ Untried(left[i], k)
    <2>1. Bucket(bs[i]) /\ Lined(bs[i].spans) /\ bs[i].tried \in Lists
      BY <1>1, <1>6 DEF LinedBuckets, Aged
    <2>2. left[i] = AfterTry(bs[i], offsets)
      BY <1>2, <1>3
    <2>. QED
      BY <2>1, <2>2, TriedNow
  <1> HIDE DEF m
  <1>8. ASSUME NEW i \in 1 .. m PROVE Aged(left[i], d) /\ (Full(left[i], d) <=> Full(bs[i], d))
    <2>1. Due(bs[i]) => ~ (left[i].time > 0)
      BY <1>7 DEF Due
    <2>. QED
      BY <1>6, <1>7, <2>1 DEF Aged, Full
  <1>9. ASSUME NEW i \in 1 .. m, NEW j \in 1 .. m, i < j, left[i].time > 0, Full(left[i], d)
        PROVE  Full(left[j], d)
    BY <1>6, <1>7, <1>8, <1>9
  <1>10. ASSUME NEW i \in 1 .. m, NEW k \in Lines \ u, Untried(left[i], k)
         PROVE  Announced(v, left[i].time)
    <2>1. ~ Due(bs[i]) /\ left[i] = bs[i]
      BY <1>7, <1>10
    <2>2. bs[i].time \in 0 .. d * bs[i].retries /\ bs[i].time # 0
      BY <1>6, <2>1 DEF Aged, Due
    <2>3. PICK a \in Waits : w[a] > 0 /\ a >= bs[i].time
      BY <1>6, <1>10, <2>1 DEF Announced
    <2>4. a # 0
      BY <2>2, <2>3
    <2>5. v[a] > 0
      BY <2>3, <2>4
    <2>. QED
      BY <2>1, <2>3, <2>5 DEF Announced
  <1>11. OnTheWay(left, 1 .. m, d, v, u)
    BY <1>8, <1>9, <1>10 DEF OnTheWay
  <1>12. OnTheWay(left, S, d, v, u)
    BY <1>5, <1>11, SomePlaces
  <1>13. ASSUME NEW k, Has(f.offsets, k), ToBeRead(bs, 1 .. m, k) PROVE ToBeRead(left, S, k)
    <2>1. PICK i : /\ i \in 1 .. m /\ Has(bs[i].spans, k) /\ ~ Has(bs[i].tried, k)
                   /\ \A q \in 1 .. m : i < q => ~ Has(bs[q].spans, k)
      BY <1>13 DEF ToBeRead, LastWith
    <2>2. ~ Due(bs[i])
      <3> SUFFICES ASSUME Due(bs[i]) PROVE FALSE
        OBVIOUS
      <3>1. i \in 1 .. Len(tf.buckets) /\ Due(tf.buckets[i]) /\ tf.buckets[i].tried \in Lists
        BY <1>1, <1>2, <1>6, <2>1 DEF Aged
      <3>2. Untried(tf.buckets[i], k)
        BY <1>1, <2>1 DEF Untried
      <3>3. ~ Has(f.offsets, k)
        BY <3>1, <3>2, GivenIsGone
      <3>. QED
        BY <1>13, <3>3
    <2>3. i \in S /\ left[i] = bs[i]
      BY <1>2, <1>4, <1>7, <2>1, <2>2
    <2>4. \A q \in S : i < q => ~ Has(left[q].spans, k)
      BY <1>5, <1>7, <2>1
    <2>. QED
      BY <2>1, <2>3, <2>4 DEF ToBeRead, LastWith
  <1>14. PICK t : t = f.buckets
    OBVIOUS
  <1>15. /\ \A a, b, c : OnTheWay(left, S, a, b, c) => OnTheWay(t, 1 .. Len(t), a, b, c)
         /\ \A k : ToBeRead(left, S, k) => ToBeRead(t, 1 .. Len(t), k)
    <2>1. t = At(left, S)
      BY <1>5, <1>14
    <2>2. \A a, b, c : OnTheWay(left, S, a, b, c) => OnTheWay(t, 1 .. Len(t), a, b, c)
      BY <1>2, <1>5, <2>1, AtKeeps
    <2>3. \A k : ToBeRead(left, S, k) => ToBeRead(t, 1 .. Len(t), k)
      BY <1>2, <1>5, <2>1, AtKeeps
    <2>. QED
      BY <2>2, <2>3
  <1>. QED
    BY <1>1, <1>2, <1>12, <1>13, <1>14, <1>15
---------------------------------------------------------------------------
(* The second invariant.  Where bytes are taken for read, their line was   *)
(* settled or is to be read again, and what is to be read has an event; and*)
(* when nothing is queued and nothing is open the reader is at the end.    *)

Undisturbed(o) == o.slips \subseteq {"reopened"}
Found(r, d, w, o) ==
    /\ OnTheWay(r.buckets, 1 .. Len(r.buckets), d, w, o.unsent)
    /\ \A k \in Lines \ o.unsent :
          Has(r.offsets, k) => \/ o.sent[k] > 0 \/ k \in Excluded
                               \/ ToBeRead(r.buckets, 1 .. Len(r.buckets), k)

LostInv ==
    /\ wakes \in [Waits -> Nat] /\ delay \in Delays \cup {NotSet}
    /\ Undisturbed(out) /\ delay # 0 =>
          /\ Found(inner, delay, wakes, out)
          /\ write \/ resume \/ stream.open \/ inner.offset = len

LEMMA NothingFound ==
  ASSUME NEW r, r.offsets = <<>>, r.buckets = <<>>, NEW d, NEW w, NEW o
  PROVE  Found(r, d, w, o)
  <1>1. Len(<<>>) = 0 /\ \A k : ~ Has(<<>>, k)
    BY EmptyList DEF Has
  <1>2. \A i : i \notin 1 .. Len(r.buckets)
    BY <1>1
  <1>3. OnTheWay(r.buckets, 1 .. Len(r.buckets), d, w, o.unsent)
    BY <1>2 DEF OnTheWay
  <1>. QED
    BY <1>1, <1>3 DEF Found

LEMMA InitLostInv == Init => LostInv
  <1> SUFFICES ASSUME Init PROVE LostInv
    OBVIOUS
  <1>1. wakes = [t \in Waits |-> 0] /\ delay \in Delays \cup {NotSet} /\ len = 0 /\ inner = Fresh
    BY DEF Init
  <1>2. wakes \in [Waits -> Nat]
    BY <1>1
  <1>3. inner.offsets = <<>> /\ inner.buckets = <<>> /\ inner.offset = 0
    BY <1>1 DEF Fresh
  <1>4. Found(inner, delay, wakes, out)
    BY <1>3, NothingFound
  <1>. QED
    BY <1>1, <1>2, <1>3, <1>4 DEF LostInv

LEMMA WriteBytesFinds ==
  ASSUME LostInv, NEW n \in 1 .. 2, WriteBytes(n)
  PROVE  LostInv'
  BY DEF LostInv, WriteBytes

LEMMA MetadataFinds ==
  ASSUME LostInv, Metadata
  PROVE  LostInv'
  BY DEF LostInv, Metadata

LEMMA EndStreamFinds ==
  ASSUME LostInv, EndStream
  PROVE  LostInv'
  BY DEF LostInv, EndStream

LEMMA ReadFailsFinds ==
  ASSUME TailInv, LostInv, ReadFails
  PROVE  LostInv'
  <1>1. /\ delay' = delay /\ wakes' = wakes /\ stream' = stream /\ inner' = Fresh /\ stream.open
    BY DEF ReadFails
  <1>2. inner'.offsets = <<>> /\ inner'.buckets = <<>>
    BY <1>1 DEF Fresh
  <1>3. Found(inner', delay, wakes, out')
    BY <1>2, NothingFound
  <1>. QED
    BY <1>1, <1>3 DEF LostInv

\* A stream ends without a line only where the file ends.
LEMMA ReadNoLineFinds ==
  ASSUME TailInv, LostInv, ReadNoLine
  PROVE  LostInv'
  <1> DEFINE A == out.slips \cup {"half"}
  <1>1. /\ len' = len /\ delay' = delay /\ wakes' = wakes /\ inner' = AfterRead
        /\ FeedsIn(Taken) = {}
        /\ out' = IF Taken # <<>> THEN [out EXCEPT !.slips = A] ELSE out
    BY DEF ReadNoLine
  <1> HIDE DEF A
  <1>2. ASSUME Undisturbed(out'), delay # 0
        PROVE  Found(inner', delay, wakes, out') /\ inner'.offset = len
    <2>1. Taken = <<>> /\ out' = out
      <3> SUFFICES ASSUME Taken # <<>> PROVE FALSE
        BY <1>1
      <3>1. out'.slips = A
        BY <1>1, OutWith DEF TailInv
      <3>. QED
        BY <1>2, <3>1 DEF A, Undisturbed
    <2>2. len \in Nat /\ Steady(out) /\ "half" \notin out.slips /\ Undisturbed(out)
      BY <1>2, <2>1 DEF TailInv, Undisturbed, Steady
    <2>3. Reader(inner, len) /\ Inner(inner) /\ OnALine(inner, len)
      BY <2>2 DEF TailInv, Follows, Reader
    <2>4. PICK q : q = AfterRead
      OBVIOUS
    <2>5. q.offsets = inner.offsets /\ q.offset = inner.offset /\ q.buckets = inner.buckets
      BY <2>3, <2>4, ReadShape
    <2>6. NextByte(inner) + Len(Taken) = len /\ NextByte(inner) \in Nat
      BY <1>1, <2>2, <2>3, TakenBytes, AvailableRuns
    <2>7. inner.offset = len
      <3>1. Len(Taken) = 0
        BY <2>1
      <3>. QED
        BY <2>3, <2>6, <3>1 DEF OnALine
    <2>8. Found(q, delay, wakes, out)
      BY <1>2, <2>2, <2>5 DEF LostInv, Found
    <2>. QED
      BY <1>1, <2>1, <2>4, <2>5, <2>7, <2>8
  <1>. QED
    BY <1>1, <1>2 DEF LostInv

LEMMA TailFileFinds ==
  ASSUME TailInv, LostInv, TailFile, len' = len, delay' = delay,
         wakes' \in [Waits -> Nat], \A a \in Waits \ {0} : wakes'[a] = wakes[a]
  PROVE  LostInv'
  <1>1. PICK f : /\ f = Reopen(inner)
                 /\ inner' = StartOver(SeekTo(f, FirstGap(f.offsets)))
                 /\ stream' = IF inner'.offset = len THEN Closed
                              ELSE [open |-> TRUE, total |-> 0,
                                    target |-> TargetOf(FirstGap(f.offsets), inner')]
                 /\ out' = [out EXCEPT
                       !.slips = @
                           \cup (IF Stale(f, inner') THEN {"seek"} ELSE {})
                           \cup (IF ~Reopened(inner, f) THEN {"remove"} ELSE {})
                           \cup (IF "half" \in out.slips /\ f.offsets # inner.offsets
                                 THEN {"moved"} ELSE {}),
                       !.over = @ \/ stream'.target = Huge]
    BY DEF TailFile
  <1>2. PICK q, s, gap : q = inner' /\ s = stream' /\ gap = FirstGap(f.offsets)
    OBVIOUS
  <1> DEFINE A == out.slips
                  \cup (IF Stale(f, q) THEN {"seek"} ELSE {})
                  \cup (IF ~Reopened(inner, f) THEN {"remove"} ELSE {})
                  \cup (IF "half" \in out.slips /\ f.offsets # inner.offsets THEN {"moved"} ELSE {})
             v == out.over \/ s.target = Huge
  <1>3. len \in Nat /\ OutType(out)
    BY DEF TailInv
  <1>4. out' = [out EXCEPT !.slips = A, !.over = v] /\ q = StartOver(SeekTo(f, gap))
    BY <1>1, <1>2
  <1>5. v \in BOOLEAN
    BY <1>3 DEF OutType
  <1>6. /\ out.slips \subseteq A
        /\ Stale(f, q) => "seek" \in A
        /\ ~Reopened(inner, f) => "remove" \in A
    OBVIOUS
  <1> HIDE DEF A, v
  <1>7. out'.slips = A /\ out'.sent = out.sent /\ out'.unsent = out.unsent
    <2>1. Turned([out EXCEPT !.slips = A, !.over = v], out, A, v)
      BY <1>3, <1>5, OutTurned
    <2>2. Turned(out', out, A, v)
      BY <1>4, <2>1
    <2>. QED
      BY <2>2 DEF Turned
  <1>8. s.open \/ q.offset = len
    BY <1>1, <1>2
  <1>9. ASSUME Undisturbed(out'), delay # 0 PROVE Found(q, delay, wakes', out')
    <2>1. Undisturbed(out) /\ ~ Stale(f, q) /\ Reopened(inner, f)
      BY <1>6, <1>7, <1>9 DEF Undisturbed
    <2>2. Steady(out) /\ "half" \notin out.slips
      BY <2>1 DEF Undisturbed, Steady
    <2>3. Reader(inner, len) /\ Inner(inner) /\ OnALine(inner, len)
      BY <2>2 DEF TailInv, Follows, Reader
    <2>4. q.offsets = f.offsets /\ q.buckets = f.buckets
      BY <1>1, <1>2, <1>3, <1>4, <2>1, <2>3, SeekOnALine
    <2>5. Lined(inner.offsets) /\ LinedBuckets(inner.buckets)
      BY <2>3 DEF OnALine
    <2>6. Found(inner, delay, wakes, out)
      BY <1>9, <2>1 DEF LostInv
    <2>7. PICK w, v2, d, tf : w = wakes /\ v2 = wakes' /\ d = delay /\ tf = inner
      OBVIOUS
    <2>8. \A a \in Waits \ {0} : w[a] > 0 => v2[a] > 0
      BY <2>7
    <2>9. OnTheWay(tf.buckets, 1 .. Len(tf.buckets), d, w, out.unsent)
      BY <2>6, <2>7 DEF Found
    <2>10. /\ OnTheWay(f.buckets, 1 .. Len(f.buckets), d, v2, out.unsent)
           /\ \A k : Has(f.offsets, k) /\ ToBeRead(tf.buckets, 1 .. Len(tf.buckets), k) =>
                        ToBeRead(f.buckets, 1 .. Len(f.buckets), k)
      <3>1. Inner(tf) /\ Lined(tf.offsets) /\ LinedBuckets(tf.buckets) /\ f = Reopen(tf) /\ Reopened(tf, f)
        BY <1>1, <2>1, <2>3, <2>5, <2>7
      <3>. QED
        BY <2>8, <2>9, <3>1, ReopenOnTheWay
    <2>11. Covered(f.offsets) \subseteq Covered(inner.offsets)
      BY <2>1, <2>5, ReopenedOffsets
    <2>12. \A k : Has(f.offsets, k) => Has(inner.offsets, k)
      BY <2>11 DEF Has
    <2>13. ASSUME NEW k \in Lines \ out.unsent, Has(f.offsets, k)
           PROVE  \/ out.sent[k] > 0 \/ k \in Excluded
                  \/ ToBeRead(f.buckets, 1 .. Len(f.buckets), k)
      BY <2>6, <2>7, <2>10, <2>12, <2>13 DEF Found
    <2>. QED
      BY <1>7, <2>4, <2>7, <2>10, <2>13 DEF Found
  <1>. QED
    BY <1>2, <1>8, <1>9 DEF LostInv

LEMMA TakeFinds ==
  ASSUME TailInv, LostInv, TakeWrite \/ TakeResume \/ TakeRetry
  PROVE  LostInv'
  <1>1. TailFile /\ len' = len /\ delay' = delay
    BY DEF TakeWrite, TakeResume, TakeRetry
  <1>2. wakes \in [Waits -> Nat]
    BY DEF LostInv
  <1>3. wakes' \in [Waits -> Nat] /\ \A a \in Waits \ {0} : wakes'[a] = wakes[a]
    <2>1. CASE wakes' = wakes
      BY <1>2, <2>1
    <2>2. CASE wakes[0] > 0 /\ wakes' = [wakes EXCEPT ![0] = @ - 1]
      <3>1. 0 \in Waits => wakes[0] \in Nat /\ wakes[0] - 1 \in Nat
        BY <1>2, <2>2
      <3>. QED
        BY <1>2, <2>2, <3>1
    <2>. QED
      BY <2>1, <2>2 DEF TakeWrite, TakeResume, TakeRetry
  <1>. QED
    BY <1>1, <1>3, TailFileFinds

\* A tick later.
Passed(w) == [t \in Waits |-> (IF t + 1 \in Waits THEN w[t + 1] ELSE 0)
                              + (IF t = 0 THEN w[0] ELSE 0)]

LEMMA ShorterWait ==
  ASSUME NEW t \in Nat
  PROVE  /\ t > 0 => Max({0, t - 1}) = t - 1
         /\ t = 0 => Max({0, t - 1}) = 0
  <1> DEFINE S == {0, t - 1}
             m == IF t > 0 THEN t - 1 ELSE 0
  <1>1. m \in S /\ \A k \in S : k <= m
    OBVIOUS
  <1>2. \A a \in S : (\A k \in S : k <= a) => a = m
    BY <1>1
  <1>3. Max(S) = m
    <2>1. Max(S) = CHOOSE a \in S : \A k \in S : k <= a
      BY DEF Max
    <2> HIDE DEF S, m
    <2>2. Max(S) \in S /\ \A k \in S : k <= Max(S)
      BY <1>1, <2>1
    <2>. QED
      BY <1>2, <2>2
  <1>. QED
    BY <1>3

LEMMA PassedCounts ==
  ASSUME NEW w \in [Waits -> Nat]
  PROVE  /\ Passed(w) \in [Waits -> Nat]
         /\ Delays # {} => /\ \A a \in Waits : a \in Nat /\ (a > 0 => a - 1 \in Waits)
                           /\ \A a \in Waits : w[a] > 0 /\ a > 0 => Passed(w)[a - 1] > 0
                           /\ \A a \in Waits : w[a] > 0 /\ a = 0 => Passed(w)[0] > 0
  <1> DEFINE next(t) == IF t + 1 \in Waits THEN w[t + 1] ELSE 0
             now(t) == IF t = 0 THEN w[0] ELSE 0
  <1>1. \A t \in Waits : next(t) \in Nat /\ now(t) \in Nat
    OBVIOUS
  <1>2. Passed(w) = [t \in Waits |-> next(t) + now(t)]
    BY DEF Passed
  <1> HIDE DEF next, now
  <1>3. Passed(w) \in [Waits -> Nat] /\ \A t \in Waits : Passed(w)[t] = next(t) + now(t)
    BY <1>1, <1>2
  <1>4. ASSUME Delays # {}
        PROVE  \A a \in Waits : a \in Nat /\ (a > 0 => a - 1 \in Waits)
    <2>1. Delays \in SUBSET Nat /\ IsFiniteSet(Delays) /\ Tries \in Nat
      BY TailedFileAssumption
    <2>2. Max(Delays) \in Nat
      BY <1>4, <2>1, LargestNumber
    <2>3. PICK x : x = Tries * Max(Delays)
      OBVIOUS
    <2>4. x \in Nat /\ Waits = 0 .. x
      BY <2>1, <2>2, <2>3 DEF Waits
    <2>. QED
      BY <2>4
  <1>5. ASSUME Delays # {}, NEW a \in Waits, w[a] > 0, a > 0 PROVE Passed(w)[a - 1] > 0
    <2>1. a - 1 \in Waits /\ a - 1 + 1 = a
      BY <1>4, <1>5
    <2>2. next(a - 1) = w[a]
      BY <2>1 DEF next
    <2>3. w[a] \in Nat /\ now(a - 1) \in Nat /\ Passed(w)[a - 1] = next(a - 1) + now(a - 1)
      BY <1>1, <1>3, <2>1
    <2>. QED
      BY <1>5, <2>2, <2>3
  <1>6. ASSUME NEW a \in Waits, w[a] > 0, a = 0 PROVE Passed(w)[0] > 0
    <2>1. next(0) \in Nat /\ now(0) = w[0] /\ w[0] \in Nat /\ Passed(w)[0] = next(0) + now(0)
      BY <1>1, <1>3, <1>6 DEF now
    <2>. QED
      BY <1>6, <2>1
  <1>. QED
    BY <1>3, <1>4, <1>5, <1>6

LEMMA SoonerFields ==
  ASSUME NEW b, Bucket(b), NEW c, c = Sooner(b)
  PROVE  /\ Bucket(c) /\ c.time = Max({0, b.time - 1}) /\ c.retries = b.retries
         /\ c.spans = b.spans /\ c.tried = b.tried
  <1> DEFINE u == Max({0, b.time - 1})
             e == [time |-> u, retries |-> b.retries, spans |-> b.spans, tried |-> b.tried]
  <1>1. c = [b EXCEPT !.time = u]
    BY DEF Sooner
  <1> HIDE DEF u
  <1>2. c = e
    BY <1>1 DEF Bucket
  <1>3. Bucket(e) /\ e.time = u /\ e.retries = b.retries /\ e.spans = b.spans /\ e.tried = b.tried
    BY DEF Bucket
  <1>. QED
    BY <1>2, <1>3 DEF u

LEMMA SoonerOnTheWay ==
  ASSUME NEW bs, LinedBuckets(bs), NEW d \in Delays \cup {NotSet}, NEW w \in [Waits -> Nat], NEW u,
         OnTheWay(bs, 1 .. Len(bs), d, w, u), NEW v, v = Passed(w),
         NEW cs, cs = [i \in DOMAIN bs |-> Sooner(bs[i])]
  PROVE  /\ OnTheWay(cs, 1 .. Len(cs), d, v, u)
         /\ \A k : ToBeRead(bs, 1 .. Len(bs), k) => ToBeRead(cs, 1 .. Len(cs), k)
  <1>1. Len(bs) \in Nat /\ DOMAIN bs = 1 .. Len(bs)
    BY SequenceProperties DEF LinedBuckets
  <1>2. PICK m : m = Len(bs)
    OBVIOUS
  <1>3. DOMAIN cs = 1 .. m /\ cs = [i \in 1 .. m |-> cs[i]] /\ m \in Nat
    BY <1>1, <1>2
  <1>4. Len(cs) = m
    BY <1>3, FunctionIsSequence
  <1>5. /\ \A i \in 1 .. m : Aged(bs[i], d)
        /\ \A i \in 1 .. m : \A k \in Lines \ u : Untried(bs[i], k) => Announced(w, bs[i].time)
    BY <1>2 DEF OnTheWay
  <1>6. ASSUME NEW i \in 1 .. m
        PROVE  /\ cs[i].time = Max({0, bs[i].time - 1}) /\ cs[i].retries = bs[i].retries
               /\ cs[i].spans = bs[i].spans /\ cs[i].tried = bs[i].tried
    <2>1. cs[i] = Sooner(bs[i]) /\ Bucket(bs[i])
      BY <1>1, <1>2 DEF LinedBuckets
    <2>. QED
      BY <2>1, SoonerFields
  <1>7. ASSUME NEW i \in 1 .. m
        PROVE  /\ d \in Nat /\ Delays # {} /\ bs[i].time \in Nat /\ bs[i].time <= d * bs[i].retries
               /\ d * bs[i].retries \in Nat
               /\ bs[i].time > 0 => cs[i].time = bs[i].time - 1
               /\ bs[i].time = 0 => cs[i].time = 0
    <2>1. bs[i].retries \in Nat \ {0} /\ bs[i].time \in 0 .. d * bs[i].retries
      BY <1>5 DEF Aged
    <2>2. d # NotSet
      <3> SUFFICES ASSUME d = NotSet PROVE FALSE
        OBVIOUS
      <3>1. PICK n : n = bs[i].retries
        OBVIOUS
      <3>2. n \in Nat \ {0} /\ bs[i].time \in 0 .. -1 * n
        BY <2>1, <3>1 DEF NotSet
      <3>3. -1 * n < 0
        BY <3>2
      <3>. QED
        BY <3>2, <3>3
    <2>3. d \in Nat /\ Delays # {}
      BY <2>2, TailedFileAssumption
    <2>4. d * bs[i].retries \in Nat
      BY <2>1, <2>3
    <2>5. bs[i].time \in Nat /\ bs[i].time <= d * bs[i].retries
      BY <2>1, <2>4
    <2>. QED
      BY <1>6, <2>3, <2>4, <2>5, ShorterWait
  <1>8. ASSUME NEW i \in 1 .. m PROVE Aged(cs[i], d) /\ ~ (cs[i].time > 0 /\ Full(cs[i], d))
    <2>1. Aged(bs[i], d)
      BY <1>5
    <2>2. PICK t, n, c : t = bs[i].time /\ n = d * bs[i].retries /\ c = cs[i].time
      OBVIOUS
    <2>3. t \in Nat /\ n \in Nat /\ t <= n /\ (t > 0 => c = t - 1) /\ (t = 0 => c = 0)
      BY <1>7, <2>2
    <2>4. c \in 0 .. n /\ (c > 0 => t > 0 /\ c < n)
      BY <2>3
    <2>5. cs[i].retries = bs[i].retries /\ cs[i].tried = bs[i].tried
      BY <1>6
    <2>6. bs[i].retries \in Nat \ {0} /\ bs[i].tried \in Lists /\ (t > 0 => bs[i].tried = <<>>)
      BY <2>1, <2>2 DEF Aged
    <2>7. cs[i].time \in 0 .. d * cs[i].retries /\ (cs[i].time > 0 => cs[i].time # d * cs[i].retries)
      <3>1. c > 0 => c # n
        BY <2>3, <2>4
      <3>2. n = d * cs[i].retries
        BY <2>2, <2>5
      <3>. QED
        BY <2>2, <2>4, <3>1, <3>2
    <2>. QED
      BY <2>2, <2>4, <2>5, <2>6, <2>7 DEF Aged, Full
  <1>9. ASSUME NEW i \in 1 .. m, NEW k \in Lines \ u, Untried(cs[i], k)
        PROVE  Announced(v, cs[i].time)
    <2>1. Untried(bs[i], k)
      BY <1>6, <1>9 DEF Untried
    <2>2. PICK a \in Waits : w[a] > 0 /\ a >= bs[i].time
      BY <1>5, <2>1 DEF Announced
    <2>3. /\ a \in Nat /\ (a > 0 => a - 1 \in Waits /\ v[a - 1] > 0)
          /\ a = 0 => v[0] > 0
      BY <1>7, <2>2, PassedCounts
    <2>3a. PICK t, c : t = bs[i].time /\ c = cs[i].time
      OBVIOUS
    <2>3b. t \in Nat /\ a >= t /\ (t > 0 => c = t - 1) /\ (t = 0 => c = 0)
      BY <1>7, <2>2, <2>3a
    <2>4. CASE a > 0
      <3>1. a - 1 >= cs[i].time
        BY <2>3, <2>3a, <2>3b, <2>4
      <3>. QED
        BY <2>3, <2>4, <3>1 DEF Announced
    <2>5. CASE a = 0
      <3>1. cs[i].time = 0
        BY <2>3a, <2>3b, <2>5
      <3>2. a \in Waits /\ v[a] > 0 /\ a >= cs[i].time
        BY <2>3, <2>5, <3>1
      <3>. QED
        BY <3>2 DEF Announced
    <2>. QED
      BY <2>3, <2>4, <2>5
  <1>10. OnTheWay(cs, 1 .. m, d, v, u)
    BY <1>8, <1>9 DEF OnTheWay
  <1>11. ASSUME NEW k, ToBeRead(bs, 1 .. m, k) PROVE ToBeRead(cs, 1 .. m, k)
    <2>1. PICK i : /\ i \in 1 .. m /\ Has(bs[i].spans, k) /\ ~ Has(bs[i].tried, k)
                   /\ \A q \in 1 .. m : i < q => ~ Has(bs[q].spans, k)
      BY <1>11 DEF ToBeRead, LastWith
    <2>2. \A q \in 1 .. m : i < q => ~ Has(cs[q].spans, k)
      BY <1>6, <2>1
    <2>. QED
      BY <1>6, <2>1, <2>2 DEF ToBeRead, LastWith
  <1>. QED
    BY <1>2, <1>4, <1>10, <1>11

LEMMA TickFinds ==
  ASSUME TailInv, LostInv, Tick
  PROVE  LostInv'
  <1>1. PICK bs, cs : bs = inner.buckets /\ cs = [i \in DOMAIN bs |-> Sooner(bs[i])]
    OBVIOUS
  <1>2. /\ len' = len /\ delay' = delay /\ stream' = stream /\ out' = out
        /\ write' = write /\ resume' = resume
        /\ inner' = [inner EXCEPT !.buckets = cs]
        /\ wakes' = Passed(wakes)
    BY <1>1 DEF Tick, Passed
  <1>3. wakes' \in [Waits -> Nat] /\ wakes \in [Waits -> Nat] /\ delay \in Delays \cup {NotSet}
    BY <1>2, PassedCounts DEF LostInv
  <1>4. ASSUME Undisturbed(out), delay # 0
        PROVE  Found(inner', delay, wakes', out) /\ inner'.offset = inner.offset
    <2>1. Steady(out) /\ "half" \notin out.slips
      BY <1>4 DEF Undisturbed, Steady
    <2>2. Inner(inner) /\ LinedBuckets(bs)
      BY <1>1, <2>1 DEF TailInv, Follows, Reader, OnALine
    <2>3. inner'.offsets = inner.offsets /\ inner'.buckets = cs /\ inner'.offset = inner.offset
      BY <1>2, <2>2, WithBuckets DEF SameReader
    <2>4. PICK w, v, d, u : w = wakes /\ v = wakes' /\ d = delay /\ u = out.unsent
      OBVIOUS
    <2>5. OnTheWay(bs, 1 .. Len(bs), d, w, u)
      BY <1>1, <1>4, <2>4 DEF LostInv, Found
    <2>6. /\ OnTheWay(cs, 1 .. Len(cs), d, v, u)
          /\ \A k : ToBeRead(bs, 1 .. Len(bs), k) => ToBeRead(cs, 1 .. Len(cs), k)
      <3>1. v = Passed(w) /\ w \in [Waits -> Nat] /\ d \in Delays \cup {NotSet}
        BY <1>2, <1>3, <2>4
      <3>. QED
        BY <1>1, <2>2, <2>5, <3>1, SoonerOnTheWay
    <2>7. Found(inner, delay, wakes, out)
      BY <1>4 DEF LostInv
    <2>. QED
      BY <1>1, <2>3, <2>4, <2>6, <2>7 DEF Found
  <1>. QED
    BY <1>2, <1>3, <1>4 DEF LostInv
---------------------------------------------------------------------------
(* A line is read: it is settled, or its bucket has an event.              *)

LEMMA LineCases ==
  ASSUME NEW k \in Lines, NEW x, NEW tf, Pipeline(Whole(k), x, tf)
  PROVE  \/ k \in Excluded /\ Skips(inner', out', tf) /\ wakes' = wakes
         \/ SendsUnset(inner', out', Whole(k), tf) /\ wakes' = wakes
         \/ SendsCommitted(inner', out', Whole(k), x, tf) /\ wakes' = wakes
         \/ PutBack(x, tf)
  <1> DEFINE content == Whole(k)
             commit == Commit(tf.buckets, x)
             committed == [tf EXCEPT !.buckets = commit.buckets]
             o == Slipped(out, "remove", ~commit.exact)
  <1>1. content[1] \div 2 = k
    BY TailedFileAssumption DEF Whole, Lines
  <1> HIDE DEF content
  <1>2. CASE Validated(content, tf, committed, o)
    <2>1. /\ inner' = IF content = Whole(k) /\ k \in Excluded THEN tf ELSE committed
          /\ out' = IF content = Whole(k) /\ k \in Excluded THEN out ELSE Sent(o, content)
          /\ wakes' = wakes
      BY <1>1, <1>2 DEF Validated
    <2>. QED
      BY <2>1 DEF Skips, SendsCommitted, content
  <1>3. CASE PutBack(x, tf)
    BY <1>3
  <1>4. CASE SentAsIs(content, x, tf, committed, o)
    BY <1>4 DEF SentAsIs, SendsUnset, SendsCommitted, content
  <1>. QED
    BY <1>2, <1>3, <1>4 DEF Pipeline, content

\* What a line that is put off makes of the reader, the events and the history.
PutBackAs(q, v, o, r, tf, x, k) ==
    /\ delay # NotSet /\ RetriesRemaining(tf.buckets, x) > 0
    /\ q.offsets = tf.offsets /\ q.buckets = r.buckets
    /\ v = WithEvent(wakes, r)
    /\ o.sent = out.sent /\ o.unsent = Excused(out.unsent, r, k)
    /\ Undisturbed(o) => Undisturbed(out) /\ r.exact

LEMMA PutBackParts ==
  ASSUME OutType(out), NEW k \in Lines, NEW x, x = LineAt(k), NEW tf, Inner(tf), PutBack(x, tf)
  PROVE  \E i \in Places(tf.buckets, delay * NextTry(tf.buckets, x), NextTry(tf.buckets, x)) :
            PutBackAs(inner', wakes', out', Retry(tf.buckets, x, i), tf, x, k)
  <1>1. PICK n : n = NextTry(tf.buckets, x)
    OBVIOUS
  <1>2. PICK l : l = {x.start \div 2}
    OBVIOUS
  <1>3. l = {k}
    <2>1. k \in Nat
      BY TailedFileAssumption DEF Lines
    <2>2. x.start = 2 * k
      BY DEF LineAt, Span
    <2>. QED
      BY <1>2, <2>1, <2>2
  <1>4. PICK i \in Places(tf.buckets, delay * n, n) :
           LET r == Retry(tf.buckets, x, i)
           IN  /\ inner' = [tf EXCEPT !.buckets = r.buckets]
               /\ wakes' = IF r.send THEN [wakes EXCEPT ![r.time] = @ + 1] ELSE wakes
               /\ out' = [Slipped(out, "remove", ~r.exact) EXCEPT
                             !.unsent = IF r.send THEN @ ELSE @ \cup l]
    BY <1>1, <1>2 DEF PutBack
  <1>5. PICK r : r = Retry(tf.buckets, x, i)
    OBVIOUS
  <1>6. PICK c, bs, e : c = Slipped(out, "remove", ~ e) /\ bs = r.buckets /\ e = r.exact
    OBVIOUS
  <1>7. /\ inner' = [tf EXCEPT !.buckets = bs]
        /\ wakes' = IF r.send THEN [wakes EXCEPT ![r.time] = @ + 1] ELSE wakes
    BY <1>4, <1>5, <1>6
  <1>8. PICK A : A = IF r.send THEN c.unsent ELSE c.unsent \cup l
    OBVIOUS
  <1>9. out' = [c EXCEPT !.unsent = A]
    BY <1>4, <1>5, <1>6, <1>8
  <1>10. delay # NotSet /\ RetriesRemaining(tf.buckets, x) > 0
    BY DEF PutBack
  <1>11. inner'.offsets = tf.offsets /\ inner'.buckets = bs
    BY <1>7, WithBuckets
  <1>12. /\ OutType(c) /\ c.sent = out.sent /\ out.slips \subseteq c.slips /\ c.unsent = out.unsent
         /\ ~ e => "remove" \in c.slips
    BY <1>6, SlippedUnless
  <1>13. out'.slips = c.slips /\ out'.sent = c.sent /\ out'.unsent = A
    BY <1>9, <1>12, OutUnsent
  <1>14. Undisturbed(out') => Undisturbed(out) /\ r.exact
    BY <1>6, <1>12, <1>13 DEF Undisturbed
  <1>15. wakes' = WithEvent(wakes, r) /\ out'.unsent = Excused(out.unsent, r, k)
    BY <1>3, <1>7, <1>8, <1>12, <1>13 DEF WithEvent, Excused
  <1>16. PutBackAs(inner', wakes', out', r, tf, x, k)
    BY <1>6, <1>10, <1>11, <1>12, <1>13, <1>14, <1>15 DEF PutBackAs
  <1>. QED
    BY <1>1, <1>4, <1>5, <1>16

\* The line is settled, and the buckets are what they were or a commit left of them.
LEMMA SettledFinds ==
  ASSUME NEW k \in Lines, NEW r, LinedBuckets(r.buckets), NEW d, NEW w, NEW c, Found(r, d, w, c),
         NEW q, NEW o,
         \/ q.buckets = r.buckets
         \/ Commit(r.buckets, LineAt(k)).exact /\ q.buckets = Commit(r.buckets, LineAt(k)).buckets,
         \A j \in Lines : Has(q.offsets, j) => Has(r.offsets, j) \/ j = k,
         o.unsent = c.unsent, \A j \in Lines : j # k => o.sent[j] = c.sent[j],
         o.sent[k] > 0 \/ k \in Excluded
  PROVE  Found(q, d, w, o)
  <1>1. PICK bs, t, u : bs = r.buckets /\ t = q.buckets /\ u = c.unsent
    OBVIOUS
  <1>2. OnTheWay(bs, 1 .. Len(bs), d, w, u)
    BY <1>1 DEF Found
  <1>3. /\ OnTheWay(t, 1 .. Len(t), d, w, u)
        /\ \A j \in Lines \ {k} : ToBeRead(bs, 1 .. Len(bs), j) => ToBeRead(t, 1 .. Len(t), j)
    <2>1. CASE q.buckets = r.buckets
      BY <1>1, <1>2, <2>1
    <2>2. CASE Commit(r.buckets, LineAt(k)).exact /\ q.buckets = Commit(r.buckets, LineAt(k)).buckets
      <3>1. LinedBuckets(bs) /\ Commit(bs, LineAt(k)).exact /\ t = Commit(bs, LineAt(k)).buckets
        BY <1>1, <2>2
      <3>. QED
        BY <1>2, <3>1, CommitOnTheWay
    <2>. QED
      BY <2>1, <2>2
  <1>4. ASSUME NEW j \in Lines \ u, Has(q.offsets, j)
        PROVE  o.sent[j] > 0 \/ j \in Excluded \/ ToBeRead(t, 1 .. Len(t), j)
    <2>1. CASE j = k
      BY <2>1
    <2>2. CASE j # k
      <3>1. Has(r.offsets, j) /\ o.sent[j] = c.sent[j]
        BY <1>4, <2>2
      <3>2. c.sent[j] > 0 \/ j \in Excluded \/ ToBeRead(bs, 1 .. Len(bs), j)
        BY <1>1, <1>4, <3>1 DEF Found
      <3>. QED
        BY <1>3, <1>4, <2>2, <3>1, <3>2
    <2>. QED
      BY <2>1, <2>2
  <1>. QED
    BY <1>1, <1>3, <1>4 DEF Found

\* The line is put off.
LEMMA PutBackFinds ==
  ASSUME NEW k \in Lines, NEW tf, LinedBuckets(tf.buckets), wakes \in [Waits -> Nat],
         delay \in Delays \ {0}, RetriesRemaining(tf.buckets, LineAt(k)) > 0,
         NEW i \in Places(tf.buckets, delay * NextTry(tf.buckets, LineAt(k)),
                          NextTry(tf.buckets, LineAt(k))),
         NEW r, r = Retry(tf.buckets, LineAt(k), i), r.exact,
         NEW v, v = WithEvent(wakes, r), NEW p, p.buckets = tf.buckets, Found(p, delay, wakes, out),
         NEW q, q.buckets = r.buckets,
         \A j \in Lines : Has(q.offsets, j) => Has(p.offsets, j) \/ j = k,
         NEW o, o.sent = out.sent, o.unsent = Excused(out.unsent, r, k)
  PROVE  Found(q, delay, v, o)
  <1>1. PICK bs, x, n, w, u, z, d : /\ bs = tf.buckets /\ x = LineAt(k) /\ n = NextTry(bs, x)
                                    /\ w = wakes /\ u = out.unsent /\ z = o.unsent /\ d = delay
    OBVIOUS
  <1>2. OnTheWay(bs, 1 .. Len(bs), delay, w, u)
    BY <1>1 DEF Found
  <1>3. PICK t : t = r.buckets
    OBVIOUS
  <1>4. /\ OnTheWay(r.buckets, 1 .. Len(r.buckets), delay, v, z)
        /\ ToBeRead(r.buckets, 1 .. Len(r.buckets), k)
        /\ \A j \in Lines \ {k} :
              ToBeRead(bs, 1 .. Len(bs), j) => ToBeRead(r.buckets, 1 .. Len(r.buckets), j)
    <2>1. /\ LinedBuckets(bs) /\ RetriesRemaining(bs, LineAt(k)) > 0 /\ n = NextTry(bs, LineAt(k))
          /\ i \in Places(bs, delay * n, n) /\ r = Retry(bs, LineAt(k), i)
          /\ w \in [Waits -> Nat]
          /\ v = WithEvent(w, r) /\ z = Excused(u, r, k)
      BY <1>1
    <2>. QED
      BY <1>2, <2>1, RetryOnTheWay
  <1>5. ASSUME NEW j \in Lines \ z, Has(q.offsets, j)
        PROVE  o.sent[j] > 0 \/ j \in Excluded \/ ToBeRead(t, 1 .. Len(t), j)
    <2>1. CASE j = k
      BY <1>3, <1>4, <2>1
    <2>2. CASE j # k
      <3>1. Has(p.offsets, j) /\ j \notin out.unsent
        <4>1. out.unsent \subseteq z
          BY <1>1 DEF Excused
        <4>. QED
          BY <1>1, <1>5, <2>2, <4>1
      <3>2. out.sent[j] > 0 \/ j \in Excluded \/ ToBeRead(bs, 1 .. Len(bs), j)
        BY <1>1, <1>5, <3>1 DEF Found
      <3>. QED
        BY <1>3, <1>4, <1>5, <2>2, <3>2
    <2>. QED
      BY <2>1, <2>2
  <1>. QED
    BY <1>1, <1>3, <1>4, <1>5 DEF Found

LEMMA ReadLineFinds ==
  ASSUME TailInv, LostInv, ReadLine
  PROVE  LostInv'
  <1> DEFINE before == Max({0, inner.offset - Len(Kept)})
             after == inner.offset + Len(Taken)
             t == Len(Taken)
             k == NextByte(inner) \div 2
  <1>1. PICK a, b, x, tf : /\ a = after /\ b = before /\ x = Span(b, a)
                           /\ tf = [AfterRead EXCEPT !.offset = a, !.offsets = Insert(AfterRead.offsets, x)]
    OBVIOUS
  <1>2. /\ stream.open /\ FeedsIn(Taken) # {}
        /\ stream' = [stream EXCEPT !.total = @ + t]
        /\ Pipeline(tf.buf, x, tf) /\ len' = len /\ delay' = delay
    BY <1>1 DEF ReadLine
  <1>3. len \in 0 .. 2 * MaxLines /\ OutType(out) /\ len \in Nat
    BY DEF TailInv
  <1>4. wakes \in [Waits -> Nat] /\ delay \in Delays \cup {NotSet}
    BY DEF LostInv
  <1>5. wakes' \in [Waits -> Nat]
    <2>1. wakes' = wakes \/ \E time : wakes' = [wakes EXCEPT ![time] = @ + 1]
      BY <1>2 DEF Pipeline, Validated, SentAsIs, PutBack
    <2>2. ASSUME NEW time, wakes' = [wakes EXCEPT ![time] = @ + 1] PROVE wakes' \in [Waits -> Nat]
      <3>1. time \in Waits => wakes[time] + 1 \in Nat
        BY <1>4
      <3>. QED
        BY <1>4, <2>2, <3>1
    <2>. QED
      BY <1>4, <2>1, <2>2
  <1> HIDE DEF before, after, k, t
  <1>6. out.slips \subseteq out'.slips
    <2>1. Outcome(inner', out', tf.buf, x, tf)
      BY <1>2, PipelineCases DEF Outcome
    <2>. QED
      BY <1>3, <2>1, OutcomeHistory
  <1>7. ASSUME Undisturbed(out'), delay # 0 PROVE Found(inner', delay, wakes', out') /\ stream'.open
    <2>1. Undisturbed(out) /\ Steady(out) /\ "half" \notin out.slips
      BY <1>6, <1>7 DEF Undisturbed, Steady
    <2>2. /\ Follows(inner, len, delay, out, stream) /\ Reader(inner, len) /\ StreamType(stream)
          /\ OnALine(inner, len)
      BY <2>1 DEF TailInv, Follows
    <2>3. Found(inner, delay, wakes, out)
      BY <1>7, <2>1 DEF LostInv
    <2>4. stream'.open
      BY <1>2, <2>2 DEF StreamType
    <2>5. AfterRead.offsets = inner.offsets /\ Inner(AfterRead)
      <3>1. PICK r : r = AfterRead
        OBVIOUS
      <3>2. r.offsets = inner.offsets /\ Inner(r)
        BY <2>2, <3>1, ReadShape DEF Reader
      <3>. QED
        BY <3>1, <3>2
    <2>6. PICK os : os = Insert(inner.offsets, x)
      OBVIOUS
    <2>7. MovedTo(tf, AfterRead, a, os)
      <3>1. tf = [AfterRead EXCEPT !.offset = a, !.offsets = os]
        BY <1>1, <2>5, <2>6
      <3>2. MovedTo([AfterRead EXCEPT !.offset = a, !.offsets = os], AfterRead, a, os)
        BY <2>5, AtLine
      <3>. QED
        BY <3>1, <3>2
    <2>8. /\ Reader(tf, len) /\ tf.buckets = inner.buckets /\ k \in Lines /\ tf.buf = Whole(k)
      BY <1>2, <1>3, <2>2, <2>7, ContentOfLine DEF k
    <2>9. MovedTo(tf, AfterRead, a, Insert(inner.offsets, x))
      BY <2>6, <2>7
    <2>10. /\ x = LineAt(k)
           /\ Covered(tf.offsets) = Covered(inner.offsets) \cup SpanBytes(LineAt(k))
      BY <1>1, <1>2, <1>3, <2>2, <2>9, LineOnALine DEF before, after, k
    <2>11. Inner(tf) /\ LinedBuckets(inner.buckets) /\ LinedBuckets(tf.buckets)
      BY <2>2, <2>8 DEF Reader, OnALine
    <2>12. \A j \in Lines : Has(tf.offsets, j) => Has(inner.offsets, j) \/ j = k
      <3> SUFFICES ASSUME NEW j \in Lines, Has(tf.offsets, j) PROVE Has(inner.offsets, j) \/ j = k
        OBVIOUS
      <3>1. j \in Nat /\ k \in Nat
        BY <2>8, TailedFileAssumption DEF Lines
      <3>2. Has(tf.offsets, j) <=> Has(inner.offsets, j) \/ j = k
        BY <2>10, <3>1, OtherLines
      <3>. QED
        BY <3>2
    <2>13. PICK q, o, v : q = inner' /\ o = out' /\ v = wakes'
      OBVIOUS
    <2>14. Pipeline(Whole(k), x, tf)
      BY <1>2, <2>8
    <2>15. CASE k \in Excluded /\ Skips(inner', out', tf) /\ wakes' = wakes
      <3>1. q = tf /\ o = out /\ v = wakes
        BY <2>13, <2>15 DEF Skips
      <3>2. Found(q, delay, wakes, o)
        BY <2>3, <2>8, <2>11, <2>12, <2>15, <3>1, SettledFinds
      <3>. QED
        BY <2>4, <2>13, <3>1, <3>2
    <2>16. CASE SendsUnset(inner', out', Whole(k), tf) /\ wakes' = wakes
      <3>1. q = tf /\ o = Sent(out, Whole(k)) /\ v = wakes
        BY <2>13, <2>16 DEF SendsUnset
      <3>2. o.unsent = out.unsent /\ o.sent[k] > 0 /\ \A j \in Lines : j # k => o.sent[j] = out.sent[j]
        BY <1>3, <2>8, <3>1, SentWhole
      <3>3. Found(q, delay, wakes, o)
        BY <2>3, <2>8, <2>11, <2>12, <3>1, <3>2, SettledFinds
      <3>. QED
        BY <2>4, <2>13, <3>1, <3>3
    <2>17. CASE SendsCommitted(inner', out', Whole(k), x, tf) /\ wakes' = wakes
      <3>1. PICK c, bs, e : /\ bs = Commit(tf.buckets, x).buckets /\ e = Commit(tf.buckets, x).exact
                            /\ c = Slipped(out, "remove", ~ e)
        OBVIOUS
      <3>2. q = [tf EXCEPT !.buckets = bs] /\ o = Sent(c, Whole(k)) /\ v = wakes
        BY <2>13, <2>17, <3>1 DEF SendsCommitted
      <3>3. q.offsets = tf.offsets /\ q.buckets = bs
        BY <2>11, <3>2, WithBuckets
      <3>4. OutType(c) /\ c.sent = out.sent /\ c.unsent = out.unsent /\ (~ e => "remove" \in c.slips)
        BY <1>3, <3>1, SlippedUnless
      <3>5. /\ o.unsent = c.unsent /\ o.sent[k] > 0 /\ o.slips = c.slips
            /\ \A j \in Lines : j # k => o.sent[j] = c.sent[j]
        BY <2>8, <3>2, <3>4, SentWhole
      <3>6. e
        BY <1>7, <2>13, <3>4, <3>5 DEF Undisturbed
      <3>7. /\ Commit(inner.buckets, LineAt(k)).exact
            /\ q.buckets = Commit(inner.buckets, LineAt(k)).buckets
        BY <2>8, <2>10, <3>1, <3>3, <3>6
      <3>8. /\ o.unsent = out.unsent /\ \A j \in Lines : j # k => o.sent[j] = out.sent[j]
            /\ \A j \in Lines : Has(q.offsets, j) => Has(inner.offsets, j) \/ j = k
        BY <2>12, <3>3, <3>4, <3>5
      <3>9. Found(q, delay, wakes, o)
        BY <2>3, <2>8, <2>11, <3>5, <3>7, <3>8, SettledFinds
      <3>. QED
        BY <2>4, <2>13, <3>2, <3>9
    <2>18. CASE PutBack(x, tf)
      <3>1. PICK l : l = k
        OBVIOUS
      <3>2. PICK i \in Places(tf.buckets, delay * NextTry(tf.buckets, x), NextTry(tf.buckets, x)) :
               PutBackAs(inner', wakes', out', Retry(tf.buckets, x, i), tf, x, l)
        BY <1>3, <2>8, <2>10, <2>11, <2>18, <3>1, PutBackParts
      <3>3. PICK r : r = Retry(tf.buckets, x, i)
        OBVIOUS
      <3>4. PutBackAs(q, v, o, r, tf, x, k)
        BY <2>13, <3>1, <3>2, <3>3
      <3>5. /\ r = Retry(tf.buckets, LineAt(k), i) /\ r.exact
            /\ delay \in Delays \ {0} /\ RetriesRemaining(tf.buckets, LineAt(k)) > 0
            /\ i \in Places(tf.buckets, delay * NextTry(tf.buckets, LineAt(k)), NextTry(tf.buckets, LineAt(k)))
        BY <1>4, <1>7, <2>10, <2>13, <3>2, <3>3, <3>4 DEF PutBackAs
      <3>6. /\ q.offsets = tf.offsets /\ q.buckets = r.buckets /\ v = WithEvent(wakes, r)
            /\ o.sent = out.sent /\ o.unsent = Excused(out.unsent, r, k)
        BY <3>4 DEF PutBackAs
      <3>7. PICK p : p = inner
        OBVIOUS
      <3>8. /\ p.buckets = tf.buckets /\ Found(p, delay, wakes, out)
            /\ \A j \in Lines : Has(q.offsets, j) => Has(p.offsets, j) \/ j = k
        BY <2>3, <2>8, <2>12, <3>6, <3>7
      <3>9. Found(q, delay, v, o)
        BY <1>4, <2>8, <2>11, <3>5, <3>6, <3>8, PutBackFinds
      <3>. QED
        BY <2>4, <2>13, <3>9
    <2>. QED
      BY <2>8, <2>14, <2>15, <2>16, <2>17, <2>18, LineCases
  <1>. QED
    BY <1>2, <1>5, <1>7, <1>4 DEF LostInv
---------------------------------------------------------------------------
LEMMA LostInvStep ==
  ASSUME TailInv, LostInv, [Next]_vars
  PROVE  LostInv'
  <1>1. CASE \E n \in 1 .. 2 : WriteBytes(n)
    BY <1>1, WriteBytesFinds
  <1>2. CASE Metadata
    BY <1>2, MetadataFinds
  <1>3. CASE Tick
    BY <1>3, TickFinds
  <1>4. CASE ReadFails
    BY <1>4, ReadFailsFinds
  <1>5. CASE TakeWrite \/ TakeResume \/ TakeRetry
    BY <1>5, TakeFinds
  <1>6. CASE EndStream
    BY <1>6, EndStreamFinds
  <1>7. CASE ReadNoLine
    BY <1>7, ReadNoLineFinds
  <1>8. CASE ReadLine
    BY <1>8, ReadLineFinds
  <1>9. CASE UNCHANGED vars
    BY <1>9 DEF vars, LostInv
  <1>. QED
    BY <1>1, <1>2, <1>3, <1>4, <1>5, <1>6, <1>7, <1>8, <1>9 DEF Next, Agent

\* Nothing queued, nothing open: the reader is at the end of the file, so a line that
\* is complete is in the offsets, and what is to be read again has no event to come.
LEMMA QuietIsDone ==
  ASSUME TailInv, LostInv, delay # 0
  PROVE  NothingLost
  <1> SUFFICES ASSUME Quiet, out.slips \subseteq {"reopened"}, NEW k \in Complete \ out.unsent
               PROVE  Settled(k)
    BY DEF NothingLost
  <1>1. /\ ~ write /\ ~ resume /\ ~ stream.open /\ \A t \in Waits : wakes[t] = 0
    BY DEF Quiet
  <1>2. Undisturbed(out) /\ Steady(out) /\ "half" \notin out.slips
    BY DEF Undisturbed, Steady
  <1>3. Found(inner, delay, wakes, out) /\ inner.offset = len
    BY <1>1, <1>2 DEF LostInv
  <1>4. OnALine(inner, len) /\ len \in Nat
    BY <1>2 DEF TailInv, Follows
  <1>5. k \in Lines /\ k \in Nat /\ 2 * k + 2 <= len
    BY TailedFileAssumption DEF Complete, Lines
  <1>6. Has(inner.offsets, k)
    <2>1. 2 * k \in Nat /\ 2 * k < len
      BY <1>4, <1>5
    <2>. QED
      BY <1>3, <1>4, <2>1 DEF OnALine, Has
  <1>7. ~ ToBeRead(inner.buckets, 1 .. Len(inner.buckets), k)
    <2> SUFFICES ASSUME ToBeRead(inner.buckets, 1 .. Len(inner.buckets), k) PROVE FALSE
      OBVIOUS
    <2>1. PICK i \in 1 .. Len(inner.buckets) : Untried(inner.buckets[i], k)
      BY DEF ToBeRead, LastWith, Untried
    <2>2. Announced(wakes, inner.buckets[i].time)
      BY <1>3, <1>5, <2>1 DEF Found, OnTheWay
    <2>. QED
      BY <1>1, <2>2 DEF Announced
  <1>. QED
    BY <1>3, <1>5, <1>6, <1>7 DEF Found, Settled

(* And no line is left behind, but for the setting of no delay at all: when *)
(* nothing is queued and no retry is on its way, a complete line was sent  *)
(* or dropped by a rule, unless retry() put it off without an event.       *)
THEOREM NothingIsLost == Spec => [](delay # 0 => NothingLost)
  <1>1. TailInv /\ LostInv => (delay # 0 => NothingLost)
    BY QuietIsDone
  <1>2. Init => LostInv
    BY InitLostInv
  <1>3. TailInv /\ LostInv /\ [Next]_vars => LostInv'
    BY LostInvStep
  <1>. QED
    BY <1>1, <1>2, <1>3, TailInvHolds, PTL DEF Spec
=============================================================================
