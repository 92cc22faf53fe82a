---------------------------- MODULE JournalStream ----------------------------
(***************************************************************************)
(* The stream of journal records of libjournald (common/journald/src/      *)
(* libjournald/stream.rs): a worker thread reads the journal and puts the  *)
(* lines in a bounded channel, poll_next takes them out and leaves a waker *)
(* for the thread to call.                                                 *)
(*                                                                         *)
(* The records of the journal are numbered in the order in which they are  *)
(* written.  What sd_journal does is external: after seek(Tail) the next   *)
(* record is the last one there is, as the tests have it (stream.rs:315,   *)
(* 337), or the first one after it.  poll_next looks into the channel and  *)
(* leaves its waker in two steps, between which the thread may run.        *)
(***************************************************************************)
EXTENDS Naturals, Sequences, FiniteSets, SequencesExt

CONSTANTS
    Mute,          \* the records that have no message
    Capacity,      \* of the channel
    MaxRecords,    \* bound on the records
    MaxFailures    \* bound on the failures of the journal
ASSUME JournalAssumption ==
    Mute \subseteq Nat /\ Capacity \in Nat \ {0} /\ {MaxRecords, MaxFailures} \subseteq Nat

VARIABLES
    written,     \* how many records the journal has
    worker,      \* where the thread is, how far it has read, the line it sends
    channel,     \* lines in the channel
    open,        \* the thread still has its sender
    stop,        \* the thread has been told to stop
    task,        \* where the task that polls the stream is
    woken,       \* it is to be polled
    waker,       \* it has left its waker
    given,       \* lines that left the stream
    failures,
    past         \* history: records passed over, records read again, and whether the
                 \* last wake-up came between the two steps of poll_next

vars == <<written, worker, channel, open, stop, task, woken, waker, given, failures, past>>

Init ==
    /\ written = 0 /\ given = <<>> /\ failures = 0
    /\ worker = [at |-> "opening", read |-> 0]
    /\ channel = <<>> /\ open = TRUE /\ stop = FALSE
    /\ task = "idle" /\ woken = TRUE /\ waker = FALSE
    /\ past = [skipped |-> {}, again |-> {}, missed |-> FALSE]

Write ==
    /\ written < MaxRecords
    /\ written' = written + 1
    /\ UNCHANGED <<worker, channel, open, stop, task, woken, waker, given, failures, past>>
---------------------------------------------------------------------------
(* The thread.                                                             *)

Goes(to) == worker' = [worker EXCEPT !.at = to]

\* Faulty variant: a new thread begins with the oldest record.
SeekHead == {0}

SeekTail == {written, written - 1} \cap Nat

\* Reader::new.
Open ==
    /\ worker.at = "opening"
    /\ \E n \in SeekTail :
          /\ worker' = [at |-> "polling", read |-> n]
          /\ past' = [past EXCEPT !.skipped = @ \cup (worker.read + 1 .. n),
                                  !.again = @ \cup (n + 1 .. worker.read)]
    /\ UNCHANGED <<written, channel, open, stop, task, woken, waker, given, failures>>

Fails == failures < MaxFailures /\ failures' = failures + 1

\* The journal cannot be opened: the thread panics, and with it goes its sender.
OpenPanics ==
    /\ worker.at = "opening" /\ Fails
    /\ Goes("over") /\ open' = FALSE
    /\ UNCHANGED <<written, channel, stop, task, woken, waker, given, past>>

\* Faulty variant: the thread does not ask whether it is to stop.
GoesOnAlways == TRUE

GoesOn == ~stop

Stops ==
    /\ worker.at = "polling" /\ ~GoesOn
    /\ Goes("ending")
    /\ UNCHANGED <<written, channel, open, stop, task, woken, waker, given, failures, past>>

ReadNothing ==
    /\ worker.at = "polling" /\ GoesOn
    /\ worker.read = written
    /\ Goes("waiting")
    /\ UNCHANGED <<written, channel, open, stop, task, woken, waker, given, failures, past>>

\* process_default_record: a record without a message is dropped.
ReadRecord ==
    /\ worker.at = "polling" /\ GoesOn
    /\ worker.read < written
    /\ worker' = [at |-> IF worker.read + 1 \in Mute THEN "waiting" ELSE "sending",
                  read |-> worker.read + 1]
    /\ UNCHANGED <<written, channel, open, stop, task, woken, waker, given, failures, past>>

\* A record of more than 30 seconds ago: on to the end, past what there is.
ReadStale ==
    /\ worker.at = "polling" /\ GoesOn
    /\ worker.read < written
    /\ worker' = [at |-> "waiting", read |-> written]
    /\ past' = [past EXCEPT !.skipped = @ \cup (worker.read + 1 .. written)]
    /\ UNCHANGED <<written, channel, open, stop, task, woken, waker, given, failures>>

\* BadRead, or the wait fails.
ReadFails ==
    /\ worker.at = "waiting" \/ (worker.at = "polling" /\ GoesOn)
    /\ Fails
    /\ Goes("ending")
    /\ UNCHANGED <<written, channel, open, stop, task, woken, waker, given, past>>

\* The thread blocks while the channel is full.
Send ==
    /\ worker.at = "sending" /\ Len(channel) < Capacity
    /\ channel' = Append(channel, worker.read)
    /\ Goes("waking")
    /\ UNCHANGED <<written, open, stop, task, woken, waker, given, failures, past>>

\* call_waker.
CallWaker ==
    /\ waker' = FALSE
    /\ woken' = (woken \/ waker)
    /\ past' = [past EXCEPT !.missed = ~waker /\ (task = "registering" \/ @)]

Wake ==
    /\ worker.at = "waking"
    /\ CallWaker /\ Goes("waiting")
    /\ UNCHANGED <<written, channel, open, stop, task, given, failures>>

Wait ==
    /\ worker.at = "waiting"
    /\ Goes("polling")
    /\ UNCHANGED <<written, channel, open, stop, task, woken, waker, given, failures, past>>

\* Faulty variant: the task is not woken when the thread is over.
EndSilently ==
    /\ worker.at = "ending"
    /\ open' = FALSE /\ Goes("over")
    /\ UNCHANGED <<written, channel, stop, task, woken, waker, given, failures, past>>

End ==
    /\ worker.at = "ending"
    /\ open' = FALSE /\ Goes("last_wake")
    /\ UNCHANGED <<written, channel, stop, task, woken, waker, given, failures, past>>

LastWake ==
    /\ worker.at = "last_wake"
    /\ CallWaker /\ Goes("over")
    /\ UNCHANGED <<written, channel, open, stop, task, given, failures>>
---------------------------------------------------------------------------
(* The task.                                                               *)

\* Faulty variant: that the thread is over counts before the lines it left.
TryRecvClosedFirst ==
    IF ~open THEN "disconnected" ELSE IF channel = <<>> THEN "empty" ELSE "line"

TryRecv == IF channel # <<>> THEN "line" ELSE IF open THEN "empty" ELSE "disconnected"

\* A stream that was ready is polled again.
PollLine ==
    /\ task = "idle" /\ woken /\ TryRecv = "line"
    /\ given' = Append(given, Head(channel))
    /\ channel' = Tail(channel)
    /\ UNCHANGED <<written, worker, open, stop, task, woken, waker, failures, past>>

PollEmpty ==
    /\ task = "idle" /\ woken /\ TryRecv = "empty"
    /\ woken' = FALSE /\ task' = "registering"
    /\ UNCHANGED <<written, worker, channel, open, stop, waker, given, failures, past>>

\* drop_thread: the thread is told to stop, and joined.
PollDisconnected ==
    /\ task = "idle" /\ woken /\ TryRecv = "disconnected"
    /\ woken' = FALSE /\ stop' = TRUE /\ task' = "joining"
    /\ UNCHANGED <<written, worker, channel, open, waker, given, failures, past>>

\* spawn_thread: another thread, with another channel.
Respawn ==
    /\ task = "joining" /\ worker.at = "over"
    /\ Goes("opening") /\ channel' = <<>> /\ open' = TRUE /\ stop' = FALSE
    /\ task' = "registering"
    /\ UNCHANGED <<written, woken, waker, given, failures, past>>

Register ==
    /\ task = "registering"
    /\ waker' = TRUE /\ task' = "idle"
    /\ UNCHANGED <<written, worker, channel, open, stop, woken, given, failures, past>>

\* The agent stops: Stream::drop joins the thread while the channel is still there.
Drop ==
    /\ task = "idle"
    /\ stop' = TRUE /\ task' = "dropping"
    /\ UNCHANGED <<written, worker, channel, open, woken, waker, given, failures, past>>

Dropped ==
    /\ task = "dropping" /\ worker.at = "over"
    /\ task' = "dropped"
    /\ UNCHANGED <<written, worker, channel, open, stop, woken, waker, given, failures, past>>

Thread == \/ Open \/ OpenPanics \/ Stops \/ ReadNothing \/ ReadRecord \/ ReadStale
          \/ ReadFails \/ Send \/ Wake \/ Wait \/ End \/ LastWake
Poll == PollLine \/ PollEmpty \/ PollDisconnected \/ Respawn \/ Register \/ Dropped
Next == Write \/ Thread \/ Poll \/ Drop

\* The thread runs, and a task that is woken is polled.
Spec == Init /\ [][Next]_vars /\ WF_vars(Thread) /\ WF_vars(Poll)
---------------------------------------------------------------------------
Sending == IF worker.at = "sending" THEN {worker.read} ELSE {}

(* Lines leave the stream in the order of the journal, none of them twice, *)
(* but that a thread that takes over reads the last record of the journal  *)
(* again.                                                                  *)
InOrder ==
    \A i \in 1 .. Len(given) - 1 :
        \/ given[i] < given[i + 1]
        \/ given[i] = given[i + 1] /\ given[i] \in past.again

(* What the thread has read is given, or is on its way, also when the      *)
(* thread that read it is over: only records without a message, those of a *)
(* time without a thread and those behind a stale one are passed over.     *)
PassedOverHaveCauses ==
    \A n \in 1 .. worker.read :
        n \in Range(given) \cup Range(channel) \cup Sending \cup past.skipped \cup Mute

Leaving == task \in {"dropping", "dropped"}

(* A line in the channel is given, and a thread that ends on an error is   *)
(* followed by another one, while the stream is there, unless the last     *)
(* wake-up came after poll_next had found the channel empty and before it  *)
(* left its waker: then the stream sleeps, with what it has, until the     *)
(* next line comes, or for good.  (A thread that panics as it opens the    *)
(* journal wakes nobody.)                                                  *)
StreamGoesOn ==
    /\ (channel # <<>> /\ woken) ~> (channel = <<>> \/ Leaving)
    /\ \A n \in 1 .. MaxRecords :
          (n \in Range(channel)) ~> (n \in Range(given) \/ Leaving \/ past.missed)
    /\ (worker.at = "ending") ~> (worker.at = "opening" \/ Leaving \/ past.missed)

(* Stream::drop comes to an end, unless the channel is full and the thread *)
(* has another line for it: then the two wait for each other, and the      *)
(* agent does not stop.                                                    *)
DropEnds ==
    (task = "dropping") ~>
        (task = "dropped" \/ (worker.at = "sending" /\ Len(channel) = Capacity))
=============================================================================
