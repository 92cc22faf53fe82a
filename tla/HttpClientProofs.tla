-------------------------- MODULE HttpClientProofs --------------------------
(***************************************************************************)
(* The two parts of the HTTP client that its tasks share.                  *)
(*                                                                         *)
(* The rate limiter, for any number of tasks and any limit: its counter is *)
(* the number of slots in use, and that number respects the limit.         *)
(*                                                                         *)
(* The files of the retry directory, for any set of batches, any sizes and *)
(* any number of errors and restarts: the stream reads whole files only,   *)
(* and gives no batch on twice.  Both follow from the life of one file,    *)
(* which FileLife states: calls, stream and restarts each touch it in turn.*)
(*                                                                         *)
(* And the counter of the bytes they use: whoever reserves, stores or      *)
(* removes, it differs from what is stored by what is reserved, removed or *)
(* leaked at the moment, so that the directory keeps to its limit.         *)
(***************************************************************************)
EXTENDS RateLimiter, RetryDisk, FiniteSetTheorems, TLAPS

(* The inductive invariant.  SlotsCountHolders alone is not inductive: an  *)
(* exchange must not pass the limit (LoadedBelowMax), and a drop must find *)
(* a positive counter (there is a holder, so the cardinality is not 0).    *)
LimiterInv == TypeOK /\ LoadedBelowMax /\ SlotsCountHolders

(* The set of holders is finite, so its cardinality is a number.           *)
LEMMA HoldersFinite == IsFiniteSet(Holders) /\ Cardinality(Holders) \in Nat
  BY RateLimiterAssumption, FS_Subset, FS_CardinalityType DEF Holders

(* A task that takes a slot joins the holders: one more than before.       *)
LEMMA TakeCounts ==
  ASSUME NEW t \in Tasks, TypeOK, doing[t] # "holding",
         doing' = [doing EXCEPT ![t] = "holding"]
  PROVE  Cardinality(Holders') = Cardinality(Holders) + 1
  <1>1. Holders' = Holders \cup {t} /\ t \notin Holders
    BY DEF Holders, TypeOK
  <1>. QED
    BY <1>1, HoldersFinite, FS_AddElement

(* A task that drops its slot leaves the holders, which were not empty.    *)
LEMMA DropCounts ==
  ASSUME NEW t \in Tasks, TypeOK, doing[t] = "holding",
         doing' = [doing EXCEPT ![t] = "away"]
  PROVE  /\ Cardinality(Holders') = Cardinality(Holders) - 1
         /\ Cardinality(Holders) > 0
  <1>1. Holders' = Holders \ {t} /\ t \in Holders
    BY DEF Holders, TypeOK
  <1>2. Cardinality(Holders') = Cardinality(Holders) - 1
    BY <1>1, HoldersFinite, FS_RemoveElement
  <1>3. Holders # {}
    BY <1>1
  <1>4. Cardinality(Holders) # 0
    BY <1>3, HoldersFinite, FS_EmptySet
  <1>. QED
    BY <1>2, <1>4, HoldersFinite

(* A task that moves between two places none of which is "holding" leaves  *)
(* the set of holders alone.                                               *)
LEMMA MoveCounts ==
  ASSUME NEW t \in Tasks, NEW to \in Location \ {"holding"}, TypeOK,
         doing[t] # "holding", doing' = [doing EXCEPT ![t] = to]
  PROVE  Holders' = Holders
  BY DEF Holders, TypeOK, Location

LEMMA InitLimiterInv == LimiterInit => LimiterInv
  <1> SUFFICES ASSUME LimiterInit PROVE LimiterInv
    OBVIOUS
  <1>1. TypeOK
    BY RateLimiterAssumption DEF LimiterInit, TypeOK, Location
  <1>2. LoadedBelowMax
    BY DEF LimiterInit, LoadedBelowMax
  <1>3. SlotsCountHolders
    <2>1. Holders = {}
      BY DEF LimiterInit, Holders
    <2>. QED
      BY <2>1, FS_EmptySet DEF LimiterInit, SlotsCountHolders
  <1>. QED
    BY <1>1, <1>2, <1>3 DEF LimiterInv

LEMMA StepLimiterInv ==
  ASSUME LimiterInv, NEW t \in Tasks, GetSlot(t) \/ Step(t)
  PROVE  LimiterInv'
  <1> USE RateLimiterAssumption DEF Goto
  <1>0. TypeOK /\ LoadedBelowMax /\ SlotsCountHolders
    BY DEF LimiterInv
  <1>1. CASE GetSlot(t)
    <2>1. Holders' = Holders
      BY <1>0, <1>1, MoveCounts DEF GetSlot, Location
    <2>2. TypeOK'
      BY <1>0, <1>1 DEF GetSlot, TypeOK, Location
    <2>3. LoadedBelowMax'
      BY <1>0, <1>1 DEF GetSlot, TypeOK, LoadedBelowMax
    <2>. QED
      BY <1>0, <1>1, <2>1, <2>2, <2>3 DEF GetSlot, LimiterInv, SlotsCountHolders
  <1>2. CASE LoadFree(t)
    <2>1. Holders' = Holders
      BY <1>0, <1>2, MoveCounts DEF LoadFree, Location
    <2>2. TypeOK'
      BY <1>0, <1>2 DEF LoadFree, TypeOK, Location
    <2>3. LoadedBelowMax'
      BY <1>0, <1>2 DEF LoadFree, TypeOK, LoadedBelowMax
    <2>. QED
      BY <1>0, <1>2, <2>1, <2>2, <2>3 DEF LoadFree, LimiterInv, SlotsCountHolders
  <1>3. CASE LoadFull(t)
    <2>1. Holders' = Holders
      BY <1>0, <1>3, MoveCounts DEF LoadFull, Location
    <2>2. TypeOK'
      BY <1>0, <1>3 DEF LoadFull, TypeOK, Location
    <2>3. LoadedBelowMax'
      BY <1>0, <1>3 DEF LoadFull, TypeOK, LoadedBelowMax
    <2>. QED
      BY <1>0, <1>3, <2>1, <2>2, <2>3 DEF LoadFull, LimiterInv, SlotsCountHolders
  <1>4. CASE ExchangeOk(t)
    <2>1. Cardinality(Holders') = Cardinality(Holders) + 1
      BY <1>0, <1>4, TakeCounts DEF ExchangeOk
    <2>2. slots < MaxSlots
      BY <1>0, <1>4 DEF ExchangeOk, TypeOK, LoadedBelowMax
    <2>3. TypeOK'
      BY <1>0, <1>4, <2>2 DEF ExchangeOk, TypeOK, Location
    <2>4. LoadedBelowMax'
      BY <1>0, <1>4 DEF ExchangeOk, TypeOK, LoadedBelowMax
    <2>. QED
      BY <1>0, <1>4, <2>1, <2>3, <2>4 DEF ExchangeOk, LimiterInv, SlotsCountHolders
  <1>5. CASE ExchangeLost(t)
    <2>1. Holders' = Holders
      BY <1>0, <1>5, MoveCounts DEF ExchangeLost, Location
    <2>2. TypeOK'
      BY <1>0, <1>5 DEF ExchangeLost, TypeOK, Location
    <2>3. LoadedBelowMax'
      BY <1>0, <1>5 DEF ExchangeLost, TypeOK, LoadedBelowMax
    <2>. QED
      BY <1>0, <1>5, <2>1, <2>2, <2>3 DEF ExchangeLost, LimiterInv, SlotsCountHolders
  <1>6. CASE Wake(t)
    <2>1. Holders' = Holders
      BY <1>0, <1>6, MoveCounts DEF Wake, Location
    <2>2. TypeOK'
      BY <1>0, <1>6 DEF Wake, TypeOK, Location
    <2>3. LoadedBelowMax'
      BY <1>0, <1>6 DEF Wake, TypeOK, LoadedBelowMax
    <2>. QED
      BY <1>0, <1>6, <2>1, <2>2, <2>3 DEF Wake, LimiterInv, SlotsCountHolders
  <1>7. CASE DropSlot(t)
    <2>1. /\ Cardinality(Holders') = Cardinality(Holders) - 1
          /\ Cardinality(Holders) > 0
      BY <1>0, <1>7, DropCounts DEF DropSlot
    <2>2. TypeOK'
      BY <1>0, <1>7, <2>1 DEF DropSlot, TypeOK, Location, SlotsCountHolders
    <2>3. LoadedBelowMax'
      BY <1>0, <1>7 DEF DropSlot, TypeOK, LoadedBelowMax
    <2>. QED
      BY <1>0, <1>7, <2>1, <2>2, <2>3 DEF DropSlot, LimiterInv, SlotsCountHolders
  <1>. QED
    BY <1>1, <1>2, <1>3, <1>4, <1>5, <1>6, <1>7 DEF Step

LEMMA LimiterInvIsInvariant == LimiterSpec => []LimiterInv
  <1>1. LimiterInv /\ [LimiterNext]_limiterVars => LimiterInv'
    <2> SUFFICES ASSUME LimiterInv, [LimiterNext]_limiterVars PROVE LimiterInv'
      OBVIOUS
    <2>1. CASE LimiterNext
      BY <2>1, StepLimiterInv DEF LimiterNext
    <2>2. CASE UNCHANGED limiterVars
      BY <2>2 DEF limiterVars, LimiterInv, TypeOK, LoadedBelowMax, SlotsCountHolders, Holders
    <2>. QED
      BY <2>1, <2>2
  <1>. QED
    BY InitLimiterInv, <1>1, PTL DEF LimiterSpec

(* Type correctness; in particular the counter never leaves 0 .. MaxSlots.      *)
THEOREM RateLimiterTypeOK == LimiterSpec => []TypeOK
  BY LimiterInvIsInvariant, PTL DEF LimiterInv

(* The counter and the slots in use never drift apart.                     *)
THEOREM SlotsNeverDrift == LimiterSpec => []SlotsCountHolders
  BY LimiterInvIsInvariant, PTL DEF LimiterInv

(* The limit holds for every number of tasks racing for the last slot.     *)
THEOREM LimitHolds == LimiterSpec => []AtMostMaxHolders
  <1>1. LimiterInv => AtMostMaxHolders
    BY RateLimiterAssumption DEF LimiterInv, TypeOK, SlotsCountHolders, AtMostMaxHolders
  <1>. QED
    BY <1>1, LimiterInvIsInvariant, PTL
---------------------------------------------------------------------------
FileStates == {"absent", "partial", "fresh", "ripe"}
WithPartial == {"writing", "loading", "exchanging", "renaming"}
CallStates == {"idle", "over"} \cup WithPartial
Readers == {Looking} \cup [at : {"reading", "removing", "subtracting"}, batch : Batches]

(* Every variable that says where a file is has its type.                  *)
FilesTyped ==
    /\ dir \in [Batches -> FileStates]
    /\ pc \in [Batches -> CallStates]
    /\ written \subseteq Batches /\ waiting \subseteq Batches /\ lost \subseteq Batches
    /\ reader \in Readers
    /\ handed \in [Batches -> Nat]

\* A file is partial while its call is under way, and whole when the call renames it.
CallAndFile(b) ==
    /\ pc[b] = "idle" => dir[b] = "absent"
    /\ pc[b] \in WithPartial => dir[b] = "partial"
    /\ pc[b] \in WithPartial \ {"writing"} \/ b \in Stored => b \in written

\* The stream holds on to files that are there, one at a time, and lets go of the
\* batch when its file is gone.
StreamAndFile(b) ==
    /\ b \in waiting => dir[b] = "ripe"
    /\ reader \in {Busy("reading", b), Busy("removing", b)} => dir[b] = "ripe" /\ b \notin waiting
    /\ reader = Busy("subtracting", b) =>
           dir[b] = "absent" /\ pc[b] = "over" /\ handed[b] = 0 /\ b \notin lost

\* A batch that was given on, or lost, has no file, and gets none.
GivenOrThere(b) ==
    /\ dir[b] # "absent" \/ pc[b] = "idle" => handed[b] = 0 /\ b \notin lost
    /\ handed[b] <= 1 /\ (handed[b] = 1 => b \notin lost)

FileLife == \A b \in Batches : CallAndFile(b) /\ StreamAndFile(b) /\ GivenOrThere(b)
Inv == FilesTyped /\ FileLife
---------------------------------------------------------------------------
LEMMA InitInv == Init => Inv
  <1> SUFFICES ASSUME Init PROVE Inv
    OBVIOUS
  <1>1. FilesTyped
    BY DEF Init, FilesTyped, FileStates, CallStates, Readers
  <1>2. \A b \in Batches : reader # Busy("reading", b) /\ reader # Busy("removing", b)
                           /\ reader # Busy("subtracting", b)
    BY DEF Init, Looking, Busy
  <1>3. FileLife
    BY <1>2 DEF Init, FileLife, CallAndFile, StreamAndFile, GivenOrThere, Stored, WithPartial
  <1>. QED
    BY <1>1, <1>3 DEF Inv

(* A call of retry() moves its own file only.                              *)
LEMMA CallKeeps ==
  ASSUME Inv, NEW c \in Batches, RetryCall(c)
  PROVE  Inv'
  <1> USE DEF Inv, sender, stream, bounds, GoesTo
  <1>1. UNCHANGED <<waiting, reader, handed, lost>>
    BY DEF RetryCall, CreatePartial, FinishWriting, WritingFails, LoadUsed, LimitReached,
           Reserve, ReserveAgain, AttemptsExhausted, RemovingPartialFails, Rename, RenameFails
  <1> DEFINE Goes(from, to, file) ==
               /\ pc[c] = from /\ pc' = [pc EXCEPT ![c] = to]
               /\ dir' = [dir EXCEPT ![c] = file]
  <1>2. FilesTyped => \A f \in FileStates : dir[c] = f => dir = [dir EXCEPT ![c] = f]
    BY DEF FilesTyped
  <1>3. \/ Goes("idle", "writing", "partial") /\ written' = written
        \/ Goes("writing", "loading", dir[c]) /\ written' = written \cup {c}
        \/ \E from \in WithPartial, file \in {dir[c], "absent"} :
              Goes(from, "over", file) /\ written' = written
        \/ \E from, to \in WithPartial \ {"writing"} :
              Goes(from, to, dir[c]) /\ written' = written
        \/ Goes("renaming", "over", "fresh") /\ written' = written
    BY <1>2 DEF WithPartial, FilesTyped, RetryCall, CreatePartial, FinishWriting, WritingFails,
           LoadUsed, LimitReached, Reserve, ReserveAgain, AttemptsExhausted,
           RemovingPartialFails, Rename, RenameFails
  <1>4. FilesTyped'
    BY <1>1, <1>3 DEF FilesTyped, FileStates, CallStates, WithPartial
  <1>5. ASSUME NEW b \in Batches PROVE (CallAndFile(b) /\ StreamAndFile(b) /\ GivenOrThere(b))'
    <2>1. CallAndFile(b) /\ StreamAndFile(b) /\ GivenOrThere(b)
      BY DEF FileLife
    <2>2. CASE b # c
      <3>1. dir'[b] = dir[b] /\ pc'[b] = pc[b] /\ (b \in written => b \in written')
        BY <1>3, <2>2 DEF FilesTyped
      <3>. QED
        BY <1>1, <2>1, <3>1 DEF CallAndFile, StreamAndFile, GivenOrThere, Stored
    <2>3. CASE b = c
      <3>1. pc[c] \in WithPartial \cup {"idle"} /\ dir[c] \in {"partial", "absent"}
        BY <1>3, <2>1, <2>3 DEF CallAndFile, WithPartial
      <3>2. CallAndFile(c)'
        BY <1>3, <2>1, <2>3, <3>1 DEF CallAndFile, FilesTyped, Stored, WithPartial
      <3>3. StreamAndFile(c)'
        BY <1>1, <2>1, <2>3, <3>1 DEF StreamAndFile, WithPartial
      <3>4. handed[c] = 0 /\ c \notin lost
        BY <2>1, <2>3, <3>1 DEF CallAndFile, GivenOrThere
      <3>5. GivenOrThere(c)'
        BY <1>1, <3>4 DEF GivenOrThere
      <3>. QED
        BY <2>3, <3>2, <3>3, <3>5
    <2>. QED
      BY <2>2, <2>3
  <1>. QED
    BY <1>4, <1>5 DEF FileLife

(* The stream, step by step.                                               *)
LEMMA StreamKeeps ==
  ASSUME Inv, StreamStep
  PROVE  Inv'
  <1> USE DEF Inv, sender, bounds, IoError, FilesTyped, FileStates, Readers, Looking, Busy
  <1>1. UNCHANGED <<pc, written>>
    BY DEF StreamStep, FillWaiting, Pop, ReadFile, RemoveFile, ReadOrRemoveFails,
           GiveBackAndYield, GiveBackUnparsed
  <1>2. \A b \in Batches : CallAndFile(b) /\ StreamAndFile(b) /\ GivenOrThere(b)
    BY DEF FileLife
  <1> USE DEF CallAndFile, StreamAndFile, GivenOrThere, Stored, FileLife, WithPartial
  <1>3. CASE FillWaiting
    BY <1>1, <1>2, <1>3 DEF FillWaiting
  <1>4. ASSUME NEW c \in Batches, Pop(c) PROVE Inv'
    BY <1>1, <1>2, <1>4 DEF Pop
  <1>5. ASSUME NEW c \in Batches, ReadFile(c) PROVE Inv'
    BY <1>1, <1>2, <1>5 DEF ReadFile
  <1>6. ASSUME NEW c \in Batches, RemoveFile(c) PROVE Inv'
    <2>1. /\ reader = Busy("removing", c) /\ reader' = Busy("subtracting", c)
          /\ dir' = [dir EXCEPT ![c] = "absent"]
          /\ UNCHANGED <<waiting, handed, lost>>
      BY <1>6 DEF RemoveFile
    <2>2. FilesTyped'
      BY <1>1, <2>1
    <2>3. dir[c] = "ripe" /\ c \notin waiting /\ pc[c] = "over" /\ handed[c] = 0 /\ c \notin lost
      BY <1>2, <2>1 DEF CallStates
    <2>4. ASSUME NEW b \in Batches PROVE (CallAndFile(b) /\ StreamAndFile(b) /\ GivenOrThere(b))'
      <3>1. CASE b = c
        BY <1>1, <1>2, <2>1, <2>3, <3>1
      <3>2. CASE b # c
        BY <1>1, <1>2, <2>1, <3>2
      <3>. QED
        BY <3>1, <3>2
    <2>. QED
      BY <2>2, <2>4
  <1>7. ASSUME NEW c \in Batches, ReadOrRemoveFails(c) PROVE Inv'
    BY <1>1, <1>2, <1>7 DEF ReadOrRemoveFails
  <1>8. ASSUME NEW c \in Batches, GiveBackAndYield(c) PROVE Inv'
    BY <1>1, <1>2, <1>8 DEF GiveBackAndYield
  <1>9. ASSUME NEW c \in Batches, GiveBackUnparsed(c) PROVE Inv'
    BY <1>1, <1>2, <1>9 DEF GiveBackUnparsed
  <1>. QED
    BY <1>3, <1>4, <1>5, <1>6, <1>7, <1>8, <1>9 DEF StreamStep

LEMMA RipenKeeps ==
  ASSUME Inv, NEW c \in Batches, Ripen(c)
  PROVE  Inv'
  <1> USE DEF Inv, sender, stream, bounds
  <1>1. /\ dir[c] = "fresh" /\ dir' = [dir EXCEPT ![c] = "ripe"]
        /\ UNCHANGED <<pc, written, waiting, reader, handed, lost>>
    BY DEF Ripen
  <1>2. FilesTyped'
    BY <1>1 DEF FilesTyped, FileStates
  <1>3. FileLife'
    BY <1>1 DEF FilesTyped, FileLife, CallAndFile, StreamAndFile, GivenOrThere, Stored,
                WithPartial
  <1>. QED
    BY <1>2, <1>3

(* A restart forgets calls, queue and reader; the files stay.              *)
LEMMA RestartKeeps ==
  ASSUME Inv, Restart
  PROVE  Inv'
  <1> USE DEF Inv
  <1>1. /\ pc' = [b \in Batches |-> IF pc[b] = "idle" THEN "idle" ELSE "over"]
        /\ waiting' = {} /\ reader' = Looking
        /\ lost' = lost \cup {b \in Batches : reader = Busy("subtracting", b)}
        /\ UNCHANGED <<dir, written, handed>>
    BY DEF Restart, ForgetCalls
  <1>2. FilesTyped'
    BY <1>1 DEF FilesTyped, CallStates, Readers
  <1>3. FileLife'
    BY <1>1 DEF FilesTyped, FileLife, CallAndFile, StreamAndFile, GivenOrThere, Stored,
                WithPartial, Looking, Busy
  <1>. QED
    BY <1>2, <1>3

LEMMA InvKept == Inv /\ [Next]_vars => Inv'
  <1> SUFFICES ASSUME Inv, [Next]_vars PROVE Inv'
    OBVIOUS
  <1>1. CASE UNCHANGED vars
    BY <1>1 DEF vars, Inv, FilesTyped, FileLife, CallAndFile, StreamAndFile, GivenOrThere,
                Stored
  <1>. QED
    BY <1>1, CallKeeps, StreamKeeps, RipenKeeps, RestartKeeps DEF Next
---------------------------------------------------------------------------
THEOREM RetryDiskInv == Spec => []Inv
  <1>. QED
    BY InitInv, InvKept, PTL DEF Spec

(* A file that the stream reads is ripe, and a file that has its final     *)
(* name is whole.                                                          *)
THEOREM WholeFilesOnly == Spec => []OnlyWholeFilesRead
  <1>1. Inv => OnlyWholeFilesRead
    <2> SUFFICES ASSUME Inv, NEW b \in Batches,
                        reader \in [at : {"reading", "removing"}, batch : {b}]
                 PROVE  b \in written
      BY DEF OnlyWholeFilesRead
    <2>1. reader \in {Busy("reading", b), Busy("removing", b)}
      BY DEF Busy
    <2>. QED
      BY <2>1 DEF Inv, FileLife, StreamAndFile, CallAndFile, Stored
  <1>. QED
    BY <1>1, RetryDiskInv, PTL

(* A batch is given on only while its file is gone and it was not given    *)
(* before, and no file comes back.                                         *)
THEOREM GivenOnce == Spec => []HandedOnce
  <1>1. Inv => HandedOnce
    BY DEF Inv, FilesTyped, FileLife, GivenOrThere, HandedOnce, Stored
  <1>. QED
    BY <1>1, RetryDiskInv, PTL
---------------------------------------------------------------------------
(* Induction over finite sets and over the numbers, as the existence of a  *)
(* smallest counterexample.                                                *)
LEMMA SmallestSet ==
  ASSUME NEW T, T # {}, \A x \in T : IsFiniteSet(x)
  PROVE  \E x \in T : \A y \in T : y \subseteq x => y = x
  <1> DEFINE S == UNION T
  <1>1. T \subseteq FiniteSubsetsOf(S)
    BY DEF FiniteSubsetsOf
  <1>2. \E x \in T : \A y \in T : ~ (<<y, x>> \in StrictSubsetOrdering(S))
    <2> HIDE DEF S
    <2>. QED
      BY <1>1, WFMin, FS_StrictSubsetOrderingWellFounded
  <1>. QED
    BY <1>2 DEF StrictSubsetOrdering

LEMMA SmallestNumber ==
  ASSUME NEW T \in SUBSET Nat, T # {}
  PROVE  \E n \in T : \A m \in T : n <= m
  <1> DEFINE Less == {p \in Nat \X Nat : p[1] < p[2]}
  <1>1. IsWellFoundedOn(Less, Nat)
    BY NatLessThanWellFounded DEF OpToRel
  <1>2. \A m, n \in Nat : m < n => <<m, n>> \in Less
    OBVIOUS
  <1> HIDE DEF Less
  <1>3. PICK n \in T : \A m \in T : ~ (<<m, n>> \in Less)
    BY <1>1, WFMin
  <1>4. ASSUME NEW m \in T PROVE n <= m
    <2>1. m \in Nat /\ n \in Nat /\ ~ (m < n)
      BY <1>2, <1>3
    <2>. QED
      BY <2>1
  <1>. QED
    BY <1>4

(* TotalSize is computed by a recursive function: it takes one element     *)
(* after the other, in an order of its own.                                *)
First(s) == CHOOSE x \in s : TRUE
SumsUp(g, F) == g = [s \in F |-> IF s = {} THEN 0 ELSE Size[First(s)] + g[s \ {First(s)}]]

LEMMA TotalIsSum ==
  ASSUME NEW S
  PROVE  TotalSize(S) = (CHOOSE g : SumsUp(g, SUBSET S))[S]
  BY DEF TotalSize, MapThenSumSet, MapThenFoldSet, SumsUp, First

LEMMA SumExists ==
  ASSUME NEW S, IsFiniteSet(S)
  PROVE  \E g : SumsUp(g, SUBSET S)
  <1> DEFINE Small(n) == {s \in SUBSET S : Cardinality(s) <= n}
             Bad == {n \in Nat : ~ \E g : SumsUp(g, Small(n))}
  <1>1. \A s \in SUBSET S : IsFiniteSet(s) /\ Cardinality(s) \in Nat
                            /\ Cardinality(s) <= Cardinality(S)
    BY FS_Subset, FS_CardinalityType
  <1>2. Bad = {}
    <2> SUFFICES ASSUME Bad # {} PROVE FALSE
      OBVIOUS
    <2>0. Bad \in SUBSET Nat
      OBVIOUS
    <2> HIDE DEF Bad
    <2>1. PICK n \in Bad : \A m \in Bad : n <= m
      BY <2>0, SmallestNumber
    <2> USE DEF Bad
    <2>2. CASE n = 0
      <3>1. \A s \in Small(0) : s = {}
        BY <1>1, FS_EmptySet
      <3>2. SumsUp([s \in Small(0) |-> 0], Small(0))
        BY <3>1 DEF SumsUp
      <3>. QED
        BY <2>2, <3>2, <2>1
    <2>3. CASE n > 0
      <3> HIDE DEF Bad
      <3>1. n - 1 \in Nat /\ n - 1 \notin Bad
        BY <2>0, <2>1, <2>3
      <3> USE DEF Bad
      <3>2. PICK g : SumsUp(g, Small(n - 1))
        BY <3>1
      <3> DEFINE h == [s \in Small(n) |->
                          IF s = {} THEN 0 ELSE Size[First(s)] + g[s \ {First(s)}]]
      <3>3. ASSUME NEW s \in Small(n), s # {}
            PROVE  s \ {First(s)} \in Small(n - 1) /\ s \ {First(s)} \in Small(n)
        <4>1. First(s) \in s
          BY <3>3 DEF First
        <4>2. Cardinality(s \ {First(s)}) = Cardinality(s) - 1
          BY <1>1, <4>1, FS_RemoveElement
        <4>. QED
          BY <1>1, <4>2, <3>1
      <3>4. ASSUME NEW s \in Small(n - 1) PROVE s \in Small(n) /\ h[s] = g[s]
        <4>1. Cardinality(s) \in Nat /\ n \in Nat
          BY <1>1, <2>1
        <4>2. s \in Small(n)
          BY <4>1
        <4>3. g[s] = IF s = {} THEN 0 ELSE Size[First(s)] + g[s \ {First(s)}]
          <5> HIDE DEF Small
          <5>. QED
            BY <3>2 DEF SumsUp
        <4>. QED
          BY <4>2, <4>3
      <3>5. SumsUp(h, Small(n))
        <4>1. \A s \in Small(n) : s # {} => h[s] = Size[First(s)] + h[s \ {First(s)}]
          BY <3>3, <3>4
        <4>2. h = [s \in Small(n) |->
                      IF s = {} THEN 0 ELSE Size[First(s)] + h[s \ {First(s)}]]
          BY <4>1
        <4>. QED
          BY <4>2 DEF SumsUp
      <3>. QED
        BY <2>1, <3>5
    <2>. QED
      BY <2>1, <2>2, <2>3
  <1>3. Small(Cardinality(S)) = SUBSET S
    BY <1>1
  <1>4. Cardinality(S) \in Nat
    BY FS_CardinalityType
  <1>. QED
    BY <1>2, <1>3, <1>4

\* Which element is taken first makes no difference.
AnyFirst(g, U) ==
    \A s \in SUBSET U : g[s] \in Nat /\ \A x \in s : g[s] = Size[x] + g[s \ {x}]

LEMMA AnyOrder ==
  ASSUME NEW U \in SUBSET Batches, IsFiniteSet(U), NEW g, SumsUp(g, SUBSET U)
  PROVE  AnyFirst(g, U)
  <1> DEFINE Fine(s) == g[s] \in Nat /\ \A x \in s : g[s] = Size[x] + g[s \ {x}]
             Bad == {s \in SUBSET U : ~ Fine(s)}
  <1>1. \A s \in SUBSET U : IsFiniteSet(s)
    BY FS_Subset
  <1>2. \A s \in SUBSET U :
           g[s] = IF s = {} THEN 0 ELSE Size[First(s)] + g[s \ {First(s)}]
    BY DEF SumsUp
  <1>3. \A x \in U : Size[x] \in Nat
    BY RetryDiskAssumption
  <1>4. Bad = {}
    <2> SUFFICES ASSUME Bad # {} PROVE FALSE
      OBVIOUS
    <2>0. \A t \in Bad : IsFiniteSet(t)
      BY <1>1
    <2> HIDE DEF Bad
    <2>1. PICK s \in Bad : \A t \in Bad : t \subseteq s => t = s
      BY <2>0, SmallestSet
    <2> USE DEF Bad
    <2>2. s # {}
      <3>1. g[{}] = 0
        BY <1>2
      <3>2. Fine({})
        BY <3>1
      <3>3. s \in SUBSET U /\ ~ Fine(s)
        BY <2>1
      <3> HIDE DEF Fine
      <3>. QED
        BY <3>2, <3>3
    <2> DEFINE y == First(s)
    <2>3. y \in s /\ y \in U /\ s \subseteq U
      BY <2>2 DEF First
    <2>4. \A x \in s : s \ {x} \in SUBSET U /\ Fine(s \ {x})
      BY <2>1
    <2>5. g[s] = Size[y] + g[s \ {y}]
      BY <1>2, <2>2, <2>3
    <2>6. g[s] \in Nat
      <3>1. Size[y] \in Nat /\ g[s \ {y}] \in Nat
        BY <1>3, <2>3, <2>4
      <3>. QED
        BY <2>5, <3>1
    <2>7. ASSUME NEW x \in s, x # y PROVE g[s] = Size[x] + g[s \ {x}]
      <3>1. g[s \ {y}] = Size[x] + g[(s \ {y}) \ {x}]
        BY <2>3, <2>4, <2>7
      <3>2. (s \ {x}) \ {y} = (s \ {y}) \ {x}
        OBVIOUS
      <3>3. g[s \ {x}] = Size[y] + g[(s \ {y}) \ {x}]
        BY <2>3, <2>4, <2>7, <3>2
      <3>4. g[(s \ {y}) \ {x}] \in Nat
        <4>1. (s \ {y}) \ {x} \in SUBSET U /\ (s \ {y}) \ {x} # s /\ (s \ {y}) \ {x} \subseteq s
          BY <2>3
        <4>. QED
          BY <2>1, <4>1
      <3>5. Size[x] \in Nat /\ Size[y] \in Nat
        BY <1>3, <2>3
      <3>6. \A a, b, c \in Nat : b + (a + c) = a + (b + c)
        OBVIOUS
      <3>7. Size[y] + (Size[x] + g[(s \ {y}) \ {x}]) = Size[x] + (Size[y] + g[(s \ {y}) \ {x}])
        BY <3>4, <3>5, <3>6
      <3> HIDE DEF y
      <3>. QED
        BY <2>5, <3>1, <3>3, <3>7
    <2>8. Fine(s)
      BY <2>5, <2>6, <2>7
    <2>. QED
      BY <2>8
  <1>. QED
    BY <1>4 DEF AnyFirst

LEMMA OneSum ==
  ASSUME NEW U, IsFiniteSet(U), NEW S \in SUBSET U,
         NEW g, SumsUp(g, SUBSET U), NEW h, SumsUp(h, SUBSET S)
  PROVE  h[S] = g[S]
  <1> DEFINE Bad == {s \in SUBSET S : h[s] # g[s]}
  <1>1. \A s \in SUBSET S : IsFiniteSet(s) /\ s \in SUBSET U
    BY FS_Subset
  <1>2. Bad = {}
    <2> SUFFICES ASSUME Bad # {} PROVE FALSE
      OBVIOUS
    <2>0. \A t \in Bad : IsFiniteSet(t)
      BY <1>1
    <2> HIDE DEF Bad
    <2>1. PICK s \in Bad : \A t \in Bad : t \subseteq s => t = s
      BY <2>0, SmallestSet
    <2> USE DEF Bad
    <2>2. s # {} => First(s) \in s
      BY DEF First
    <2>3. s # {} => h[s \ {First(s)}] = g[s \ {First(s)}]
      BY <2>1, <2>2
    <2>. QED
      BY <1>1, <2>1, <2>3 DEF SumsUp
  <1>. QED
    BY <1>2

(* What the proofs below use of the sum.                                   *)
LEMMA TotalOfNone == TotalSize({}) = 0
  <1>1. PICK g : SumsUp(g, SUBSET {})
    BY SumExists, FS_EmptySet
  <1>2. SumsUp(CHOOSE f : SumsUp(f, SUBSET {}), SUBSET {})
    BY <1>1
  <1>. QED
    BY <1>2, TotalIsSum DEF SumsUp

LEMMA TotalWithOneMore ==
  ASSUME NEW S \in SUBSET Batches, IsFiniteSet(S), NEW x \in Batches, x \notin S
  PROVE  /\ TotalSize(S) \in Nat
         /\ TotalSize(S \cup {x}) = TotalSize(S) + Size[x]
  <1> DEFINE U == S \cup {x}
             g == CHOOSE f : SumsUp(f, SUBSET U)
             h == CHOOSE f : SumsUp(f, SUBSET S)
  <1>1. IsFiniteSet(U) /\ U \in SUBSET Batches /\ S \in SUBSET U /\ U \ {x} = S
    BY FS_AddElement
  <1>2. SumsUp(g, SUBSET U) /\ SumsUp(h, SUBSET S)
    BY <1>1, SumExists
  <1>3. TotalSize(U) = g[U] /\ TotalSize(S) = h[S]
    BY TotalIsSum
  <1>4. h[S] = g[S]
    BY <1>1, <1>2, OneSum
  <1> HIDE DEF U, g, h
  <1>5. g[S] \in Nat /\ g[U] = Size[x] + g[U \ {x}]
    <2>1. x \in U /\ U \in SUBSET U
      BY DEF U
    <2>2. AnyFirst(g, U)
      BY <1>1, <1>2, AnyOrder
    <2>. QED
      BY <1>1, <2>1, <2>2 DEF AnyFirst
  <1>6. Size[x] \in Nat
    BY RetryDiskAssumption
  <1>7. TotalSize(U) = TotalSize(S) + Size[x] /\ TotalSize(S) \in Nat
    <2>1. g[U] = Size[x] + g[S]
      BY <1>1, <1>5
    <2>. QED
      BY <1>3, <1>4, <1>5, <1>6, <2>1
  <1>. QED
    BY <1>7 DEF U

LEMMA TotalIsNat ==
  ASSUME NEW S \in SUBSET Batches, IsFiniteSet(S)
  PROVE  TotalSize(S) \in Nat
  <1> DEFINE g == CHOOSE f : SumsUp(f, SUBSET S)
  <1>1. SumsUp(g, SUBSET S)
    BY SumExists
  <1>2. TotalSize(S) = g[S]
    BY TotalIsSum
  <1> HIDE DEF g
  <1>3. AnyFirst(g, S)
    BY <1>1, AnyOrder
  <1>. QED
    BY <1>2, <1>3 DEF AnyFirst

LEMMA TotalWithOneLess ==
  ASSUME NEW S \in SUBSET Batches, IsFiniteSet(S), NEW x \in S
  PROVE  /\ IsFiniteSet(S \ {x})
         /\ TotalSize(S \ {x}) \in Nat
         /\ TotalSize(S) = TotalSize(S \ {x}) + Size[x]
  <1>1. IsFiniteSet(S \ {x})
    BY FS_RemoveElement
  <1>2. S \ {x} \in SUBSET Batches /\ x \in Batches /\ x \notin S \ {x} /\ (S \ {x}) \cup {x} = S
    OBVIOUS
  <1>3. /\ TotalSize(S \ {x}) \in Nat
        /\ TotalSize((S \ {x}) \cup {x}) = TotalSize(S \ {x}) + Size[x]
    BY <1>1, <1>2, TotalWithOneMore
  <1>. QED
    BY <1>1, <1>2, <1>3

LEMMA TotalOfOne ==
  ASSUME NEW x \in Batches
  PROVE  TotalSize({x}) = Size[x]
  <1>1. /\ TotalSize({}) \in Nat
        /\ TotalSize({} \cup {x}) = TotalSize({}) + Size[x]
    BY TotalWithOneMore, FS_EmptySet
  <1>2. {} \cup {x} = {x} /\ Size[x] \in Nat
    BY RetryDiskAssumption
  <1>. QED
    BY <1>1, <1>2, TotalOfNone
---------------------------------------------------------------------------
(* What the counter counts is finite, what has leaked is over, and a call  *)
(* that is about to exchange has room for what it believes is used.        *)
UsageInv ==
    /\ used \in Nat /\ seen \in [Batches -> Nat] /\ leaked \in SUBSET Batches
    /\ IsFiniteSet(Stored) /\ IsFiniteSet(Reserved) /\ IsFiniteSet(leaked)
    /\ \A b \in leaked : pc[b] = "over"
    /\ \A b \in Batches : pc[b] = "exchanging" => Fits(b, seen[b])
    /\ used <= Limit
    /\ UsageAccounted

\* The four sums, as numbers.
LEMMA FourSums ==
  ASSUME Inv, UsageInv
  PROVE  /\ Stored \in SUBSET Batches /\ Reserved \in SUBSET Batches
         /\ Removed \in SUBSET Batches /\ IsFiniteSet(Removed)
         /\ TotalSize(Stored) \in Nat /\ TotalSize(Reserved) \in Nat
         /\ TotalSize(Removed) \in Nat /\ TotalSize(leaked) \in Nat
  <1>1. Stored \in SUBSET Batches /\ Reserved \in SUBSET Batches /\ Removed \in SUBSET Batches
    BY DEF Stored, Reserved, Removed
  <1>2. IsFiniteSet(Removed)
    <2>1. Removed \subseteq {reader.batch}
      BY DEF Removed, Busy
    <2>. QED
      BY <2>1, FS_Singleton, FS_Subset
  <1>. QED
    BY <1>1, <1>2, TotalIsNat DEF UsageInv

\* Most steps leave what is counted alone.
LEMMA UsageUntouched ==
  ASSUME UsageInv, UNCHANGED <<used, leaked, Stored, Reserved, Removed>>,
         seen' \in [Batches -> Nat], \A b \in leaked : pc'[b] = "over",
         \A b \in Batches : pc'[b] = "exchanging" => Fits(b, seen'[b])
  PROVE  UsageInv'
  BY DEF UsageInv, UsageAccounted, Fits

LEMMA UsageCallKeeps ==
  ASSUME Inv, UsageInv, NEW c \in Batches, RetryCall(c)
  PROVE  UsageInv'
  <1> USE DEF sender, stream, bounds, GoesTo
  <1>1. CallAndFile(c) /\ reader' = reader /\ dir \in [Batches -> FileStates]
        /\ pc \in [Batches -> CallStates]
    BY DEF Inv, FilesTyped, FileLife, RetryCall, CreatePartial, FinishWriting, WritingFails,
           LoadUsed, LimitReached, Reserve, ReserveAgain, AttemptsExhausted,
           RemovingPartialFails, Rename, RenameFails
  <1>2. Removed' = Removed
    BY <1>1 DEF Removed
  <1>3. c \in leaked => pc[c] = "over"
    BY DEF UsageInv
  <1>4. CASE CreatePartial(c) \/ FinishWriting(c) \/ WritingFails(c) \/ LoadUsed(c)
             \/ LimitReached(c) \/ ReserveAgain(c) \/ AttemptsExhausted(c)
             \/ RemovingPartialFails(c)
    <2>1. Stored' = Stored
      BY <1>1, <1>4 DEF Stored, CallAndFile, WithPartial, CreatePartial, FinishWriting,
             WritingFails, LoadUsed, LimitReached, ReserveAgain, AttemptsExhausted,
             RemovingPartialFails
    <2>2. Reserved' = Reserved
      BY <1>1, <1>4 DEF Reserved, CreatePartial, FinishWriting, WritingFails, LoadUsed,
             LimitReached, ReserveAgain, AttemptsExhausted, RemovingPartialFails
    <2>3. used' = used /\ leaked' = leaked
      BY <1>4 DEF CreatePartial, FinishWriting, WritingFails, LoadUsed,
             LimitReached, ReserveAgain, AttemptsExhausted, RemovingPartialFails
    <2>4. seen' \in [Batches -> Nat]
          /\ \A b \in Batches : pc'[b] = "exchanging" => Fits(b, seen'[b])
      BY <1>1, <1>4 DEF UsageInv, Fits, CreatePartial, FinishWriting, WritingFails, LoadUsed,
             LimitReached, ReserveAgain, AttemptsExhausted, RemovingPartialFails
    <2>5. \A b \in leaked : pc'[b] = "over"
      BY <1>1, <1>3, <1>4 DEF UsageInv, CreatePartial, FinishWriting, WritingFails, LoadUsed,
             LimitReached, ReserveAgain, AttemptsExhausted, RemovingPartialFails
    <2>. QED
      BY <1>2, <2>1, <2>2, <2>3, <2>4, <2>5, UsageUntouched
  <1>5. CASE Reserve(c)
    <2>1. /\ pc[c] = "exchanging" /\ used = seen[c] /\ used' = seen[c] + Size[c]
          /\ pc' = [pc EXCEPT ![c] = "renaming"]
          /\ UNCHANGED <<dir, seen, leaked>>
      BY <1>5 DEF Reserve
    <2>2. Stored' = Stored
      BY <2>1 DEF Stored
    <2>3. Reserved' = Reserved \cup {c} /\ c \notin Reserved
      BY <1>1, <2>1 DEF Reserved
    <2>4. IsFiniteSet(Reserved') /\ TotalSize(Reserved') = TotalSize(Reserved) + Size[c]
      BY <2>3, FourSums, TotalWithOneMore, FS_AddElement DEF UsageInv
    <2>5. Size[c] \in Nat /\ used' <= Limit /\ used' \in Nat
      BY <2>1, RetryDiskAssumption DEF UsageInv, Fits
    <2>6. UsageAccounted'
      BY <1>2, <2>1, <2>2, <2>4, <2>5, FourSums DEF UsageInv, UsageAccounted
    <2>. QED
      BY <1>1, <1>3, <2>1, <2>2, <2>4, <2>5, <2>6 DEF UsageInv, Fits
  <1>6. CASE Rename(c)
    <2>1. /\ pc[c] = "renaming" /\ dir' = [dir EXCEPT ![c] = "fresh"]
          /\ pc' = [pc EXCEPT ![c] = "over"]
          /\ UNCHANGED <<used, seen, leaked>>
      BY <1>6 DEF Rename
    <2>2. Stored' = Stored \cup {c} /\ c \notin Stored
      BY <1>1, <2>1 DEF Stored, CallAndFile, WithPartial
    <2>3. Reserved' = Reserved \ {c} /\ c \in Reserved
      BY <1>1, <2>1 DEF Reserved
    <2>4. /\ IsFiniteSet(Reserved') /\ TotalSize(Reserved') \in Nat
          /\ TotalSize(Reserved) = TotalSize(Reserved') + Size[c]
      BY <2>3, FourSums, TotalWithOneLess DEF UsageInv
    <2>5. IsFiniteSet(Stored') /\ TotalSize(Stored') = TotalSize(Stored) + Size[c]
      BY <2>2, FourSums, TotalWithOneMore, FS_AddElement DEF UsageInv
    <2>6. Size[c] \in Nat
      BY RetryDiskAssumption
    <2>7. UsageAccounted'
      BY <1>2, <2>1, <2>4, <2>5, <2>6, FourSums DEF UsageInv, UsageAccounted
    <2>. QED
      BY <1>1, <1>3, <2>1, <2>4, <2>5, <2>7 DEF UsageInv, Fits
  <1>7. CASE RenameFails(c)
    <2>1. /\ pc[c] = "renaming" /\ leaked' = leaked \cup {c}
          /\ pc' = [pc EXCEPT ![c] = "over"]
          /\ UNCHANGED <<used, seen, dir>>
      BY <1>7 DEF RenameFails
    <2>2. Stored' = Stored
      BY <2>1 DEF Stored
    <2>3. Reserved' = Reserved \ {c} /\ c \in Reserved
      BY <1>1, <2>1 DEF Reserved
    <2>4. /\ IsFiniteSet(Reserved') /\ TotalSize(Reserved') \in Nat
          /\ TotalSize(Reserved) = TotalSize(Reserved') + Size[c]
      BY <2>3, FourSums, TotalWithOneLess DEF UsageInv
    <2>5. IsFiniteSet(leaked') /\ TotalSize(leaked') = TotalSize(leaked) + Size[c]
      BY <1>3, <2>1, TotalWithOneMore, FS_AddElement DEF UsageInv
    <2>6. Size[c] \in Nat
      BY RetryDiskAssumption
    <2>7. UsageAccounted'
      BY <1>2, <2>1, <2>2, <2>4, <2>5, <2>6, FourSums DEF UsageInv, UsageAccounted
    <2>. QED
      BY <1>1, <1>3, <2>1, <2>2, <2>4, <2>5, <2>7 DEF UsageInv, Fits
  <1>. QED
    BY <1>4, <1>5, <1>6, <1>7 DEF RetryCall

LEMMA UsageStreamKeeps ==
  ASSUME Inv, UsageInv, StreamStep
  PROVE  UsageInv'
  <1> USE DEF sender, bounds, IoError
  <1>1. UNCHANGED <<seen, pc, leaked>>
    BY DEF StreamStep, FillWaiting, Pop, ReadFile, RemoveFile, ReadOrRemoveFails,
           GiveBackAndYield, GiveBackUnparsed
  <1>2. Reserved' = Reserved
    BY <1>1 DEF Reserved
  <1>3. dir \in [Batches -> FileStates]
    BY DEF Inv, FilesTyped
  <1>4. ASSUME UNCHANGED <<dir, used, Removed>> PROVE UsageInv'
    BY <1>1, <1>2, <1>4, UsageUntouched DEF Stored, UsageInv
  <1>5. CASE FillWaiting
    BY <1>4, <1>5 DEF FillWaiting, Removed
  <1>6. ASSUME NEW c \in Batches, Pop(c) \/ ReadFile(c) \/ ReadOrRemoveFails(c)
        PROVE UsageInv'
    <2>1. Removed' = Removed
      BY <1>6 DEF Pop, ReadFile, ReadOrRemoveFails, Removed, Looking, Busy
    <2>. QED
      BY <1>4, <1>6, <2>1 DEF Pop, ReadFile, ReadOrRemoveFails
  <1>7. ASSUME NEW c \in Batches, RemoveFile(c) PROVE UsageInv'
    <2>1. /\ reader = Busy("removing", c) /\ reader' = Busy("subtracting", c)
          /\ dir' = [dir EXCEPT ![c] = "absent"] /\ used' = used
      BY <1>7 DEF RemoveFile
    <2>2. Removed = {} /\ Removed' = {c}
      BY <2>1 DEF Removed, Busy
    <2>3. dir[c] = "ripe"
      BY <2>1 DEF Inv, FileLife, StreamAndFile
    <2>4. Stored' = Stored \ {c} /\ c \in Stored
      BY <1>3, <2>1, <2>3 DEF Stored
    <2>5. /\ IsFiniteSet(Stored') /\ TotalSize(Stored') \in Nat
          /\ TotalSize(Stored) = TotalSize(Stored') + Size[c]
      BY <2>4, FourSums, TotalWithOneLess DEF UsageInv
    <2>6. TotalSize(Removed) = 0 /\ TotalSize(Removed') = Size[c] /\ Size[c] \in Nat
      BY <2>2, TotalOfNone, TotalOfOne, RetryDiskAssumption
    <2>7. UsageAccounted'
      BY <1>1, <1>2, <2>1, <2>5, <2>6, FourSums DEF UsageInv, UsageAccounted
    <2>. QED
      BY <1>1, <1>2, <2>1, <2>5, <2>7 DEF UsageInv, Fits
  <1>8. ASSUME NEW c \in Batches, GiveBackAndYield(c) \/ GiveBackUnparsed(c)
        PROVE  UsageInv'
    <2>1. /\ reader = Busy("subtracting", c) /\ reader' = Looking
          /\ dir' = dir /\ used' = used - Size[c]
      BY <1>8 DEF GiveBackAndYield, GiveBackUnparsed
    <2>2. Removed = {c} /\ Removed' = {}
      BY <2>1 DEF Removed, Busy, Looking
    <2>3. Stored' = Stored
      BY <2>1 DEF Stored
    <2>4. TotalSize(Removed) = Size[c] /\ TotalSize(Removed') = 0 /\ Size[c] \in Nat
      BY <2>2, TotalOfNone, TotalOfOne, RetryDiskAssumption
    <2>5. UsageAccounted' /\ used' \in Nat /\ used' <= Limit
      BY <1>1, <1>2, <2>1, <2>3, <2>4, FourSums, RetryDiskAssumption
         DEF UsageInv, UsageAccounted
    <2>. QED
      BY <1>1, <1>2, <2>1, <2>3, <2>5 DEF UsageInv, Fits
  <1>. QED
    BY <1>5, <1>6, <1>7, <1>8 DEF StreamStep

\* A restart counts the stored files: no more than was counted before.
LEMMA UsageRestartKeeps ==
  ASSUME Inv, UsageInv, Restart
  PROVE  UsageInv'
  <1>1. /\ pc' = [b \in Batches |-> IF pc[b] = "idle" THEN "idle" ELSE "over"]
        /\ reader' = Looking /\ leaked' = {} /\ used' = TotalSize(Stored)
        /\ UNCHANGED <<dir, seen>>
    BY DEF Restart, ForgetCalls
  <1>2. Stored' = Stored /\ Reserved' = {} /\ Removed' = {}
    BY <1>1 DEF Stored, Reserved, Removed, Looking, Busy
  <1>3. used' \in Nat /\ used' <= Limit
    BY <1>1, FourSums, RetryDiskAssumption DEF UsageInv, UsageAccounted
  <1>4. UsageAccounted'
    BY <1>1, <1>2, <1>3, TotalOfNone DEF UsageAccounted
  <1>. QED
    BY <1>1, <1>2, <1>3, <1>4, FS_EmptySet DEF UsageInv, Fits

LEMMA UsageKept == Inv /\ UsageInv /\ [Next]_vars => UsageInv'
  <1> SUFFICES ASSUME Inv, UsageInv, [Next]_vars PROVE UsageInv'
    OBVIOUS
  <1>1. CASE UNCHANGED vars
    BY <1>1, UsageUntouched DEF vars, Stored, Reserved, Removed, UsageInv
  <1>2. ASSUME NEW c \in Batches, Ripen(c) PROVE UsageInv'
    <2>1. Stored' = Stored
      BY <1>2 DEF Ripen, Stored, Inv, FilesTyped
    <2>. QED
      BY <1>2, <2>1, UsageUntouched DEF Ripen, sender, stream, Reserved, Removed, UsageInv
  <1>. QED
    BY <1>1, <1>2, UsageCallKeeps, UsageStreamKeeps, UsageRestartKeeps DEF Next

LEMMA InitUsage == Init => UsageInv
  <1> SUFFICES ASSUME Init PROVE UsageInv
    OBVIOUS
  <1>1. Stored = {} /\ Reserved = {} /\ Removed = {}
    BY DEF Init, Stored, Reserved, Removed, Looking, Busy
  <1>. QED
    BY <1>1, TotalOfNone, FS_EmptySet, RetryDiskAssumption DEF Init, UsageInv, UsageAccounted

\* The counter of used bytes never drifts from the files: what it counts
\* beyond or short of them is what a call or the stream has in hand, and
\* what a call that failed has leaked.
THEOREM CounterNeverDrifts == Spec => []UsageAccounted
  <1>1. UsageInv => UsageAccounted
    BY DEF UsageInv
  <1>. QED
    BY <1>1, InitInv, InvKept, InitUsage, UsageKept, PTL DEF Spec

\* However many calls store at once, the files never take more than the
\* limit.
THEOREM DirectoryWithinLimit == Spec => []StoredWithinLimit
  <1>1. Inv /\ UsageInv => StoredWithinLimit
    <2> SUFFICES ASSUME Inv, UsageInv PROVE TotalSize(Stored) <= Limit
      BY DEF StoredWithinLimit
    <2>. QED
      BY FourSums, RetryDiskAssumption DEF UsageInv, UsageAccounted
  <1>. QED
    BY <1>1, InitInv, InvKept, InitUsage, UsageKept, PTL DEF Spec
==============================================================================
