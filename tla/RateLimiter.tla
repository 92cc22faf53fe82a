----------------------------- MODULE RateLimiter -----------------------------
(***************************************************************************)
(* The limiter of common/http/src/limit.rs: an atomic counter shared by    *)
(* the send tasks, taken with a load and a compare-and-exchange and given  *)
(* back when the last owner of a Slot drops it.  All accesses are SeqCst,  *)
(* so each is one step; between them the tasks interleave freely.          *)
(***************************************************************************)
EXTENDS Integers, FiniteSets

CONSTANTS
    Tasks,     \* the send tasks that share the limiter
    MaxSlots,  \* RateLimiter.max
    MaxAsks    \* bound: how many slots one task asks for in its life

ASSUME RateLimiterAssumption ==
    /\ IsFiniteSet(Tasks)
    /\ MaxSlots \in Nat \ {0}
    /\ MaxAsks \in Nat

VARIABLES
    slots,     \* RateLimiter.slots
    doing,     \* where each task is: see Location
    current,   \* the value each task loaded last
    asks       \* how many times each task called get_slot

limiterVars == <<slots, doing, current, asks>>

Location == {"away", "loop", "loaded", "snoozing", "holding"}

LimiterInit ==
    /\ slots = 0
    /\ doing = [t \in Tasks |-> "away"]
    /\ current = [t \in Tasks |-> 0]
    /\ asks = [t \in Tasks |-> 0]

Goto(t, from, to) == doing[t] = from /\ doing' = [doing EXCEPT ![t] = to]

(* get_slot is called.                                                     *)
GetSlot(t) ==
    /\ asks[t] < MaxAsks
    /\ Goto(t, "away", "loop")
    /\ asks' = [asks EXCEPT ![t] = @ + 1]
    /\ UNCHANGED <<slots, current>>

(* Loading the counter, when a slot is free and when none is.              *)
LoadFree(t) ==
    /\ slots < MaxSlots
    /\ Goto(t, "loop", "loaded")
    /\ current' = [current EXCEPT ![t] = slots]
    /\ UNCHANGED <<slots, asks>>

LoadFull(t) ==
    /\ slots >= MaxSlots
    /\ Goto(t, "loop", "snoozing")
    /\ current' = [current EXCEPT ![t] = slots]
    /\ UNCHANGED <<slots, asks>>

(* Faulty variant: the counter is stored without comparing it first.       *)
ExchangeOkUnchecked(t) ==
    /\ Goto(t, "loaded", "holding")
    /\ slots' = current[t] + 1
    /\ UNCHANGED <<current, asks>>

(* compare_exchange(current, current + 1), when it succeeds and when       *)
(* another task has moved the counter since the load.                      *)
ExchangeOk(t) ==
    /\ slots = current[t]
    /\ Goto(t, "loaded", "holding")
    /\ slots' = current[t] + 1
    /\ UNCHANGED <<current, asks>>

ExchangeLost(t) ==
    /\ slots # current[t]
    /\ Goto(t, "loaded", "snoozing")
    /\ UNCHANGED <<slots, current, asks>>

(* Backoff::snooze is over: the loop starts again with a new load.         *)
Wake(t) ==
    /\ Goto(t, "snoozing", "loop")
    /\ UNCHANGED <<slots, current, asks>>

(* Faulty variant: the slot is not given back.                             *)
DropSlotLeaked(t) ==
    /\ Goto(t, "holding", "away")
    /\ UNCHANGED <<slots, current, asks>>

(* The Slot goes out of scope at the end of Client::send.                  *)
DropSlot(t) ==
    /\ Goto(t, "holding", "away")
    /\ slots' = slots - 1
    /\ UNCHANGED <<current, asks>>

Step(t) ==
    \/ LoadFree(t) \/ LoadFull(t)
    \/ ExchangeOk(t) \/ ExchangeLost(t)
    \/ Wake(t) \/ DropSlot(t)

LimiterNext == \E t \in Tasks : GetSlot(t) \/ Step(t)

(* The runtime polls every task that is ready, every sleep ends, and every *)
(* request does (it has a timeout); nothing makes a task ask again.        *)
LimiterSpec == LimiterInit /\ [][LimiterNext]_limiterVars
FairLimiterSpec == LimiterSpec /\ \A t \in Tasks : WF_limiterVars(Step(t))
---------------------------------------------------------------------------
Holders == {t \in Tasks : doing[t] = "holding"}
Waiting(t) == doing[t] \in {"loop", "loaded", "snoozing"}

TypeOK ==
    /\ slots \in 0 .. MaxSlots
    /\ doing \in [Tasks -> Location]
    /\ current \in [Tasks -> 0 .. MaxSlots]
    /\ asks \in [Tasks -> 0 .. MaxAsks]

(* A task about to exchange still believes in a value below the limit.     *)
LoadedBelowMax == \A t \in Tasks : doing[t] = "loaded" => current[t] < MaxSlots

(* The counter is exactly the number of slots in use: a lost race or a     *)
(* late drop neither leaks a slot for good nor frees one twice.            *)
SlotsCountHolders == slots = Cardinality(Holders)

(* Never more requests in flight than the limit, whatever the races.       *)
AtMostMaxHolders == Cardinality(Holders) <= MaxSlots

(* Every call of get_slot returns, once the tasks stop piling up new ones: *)
(* a task that keeps losing the exchange, or sleeping through every free   *)
(* slot, gets one in the end.                                              *)
EveryAskServed == \A t \in Tasks : Waiting(t) ~> (doing[t] = "holding")
=============================================================================
