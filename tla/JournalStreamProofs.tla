------------------------- MODULE JournalStreamProofs -------------------------
(***************************************************************************)
(* What the stream of journal records promises about their order and their *)
(* completeness, for any number of records and failures and a channel of   *)
(* any size.                                                               *)
(***************************************************************************)
EXTENDS JournalStream, TLAPS

Places == {"opening", "polling", "sending", "waking", "waiting", "ending", "last_wake", "over"}
Tasks == {"idle", "registering", "joining", "dropping", "dropped"}

(* Every variable has its type.                                            *)
TypeOK ==
    /\ written \in Nat
    /\ worker \in [at : Places, read : Nat]
    /\ channel \in Seq(Nat) /\ given \in Seq(Nat)
    /\ open \in BOOLEAN
    /\ task \in Tasks
    /\ past \in [skipped : SUBSET Nat, again : SUBSET Nat, missed : BOOLEAN]

\* The lines that were sent, in their order: those that left, and those in the channel.
Sent == given \o channel

\* A thread that takes over reads one record again at most, the last there is.
ReadSoFar == worker.read <= written
SentWereWritten == \A i \in 1 .. Len(Sent) : Sent[i] <= written
Behind(n) ==
    \/ n < worker.read
    \/ n = worker.read /\ (worker.at # "sending" \/ n \in past.again)
    \/ n = worker.read + 1 /\ worker.at # "sending" /\ n \in past.again
SentIsBehind == \A i \in 1 .. Len(Sent) : Behind(Sent[i])

Follows(m, n, again) == m < n \/ (m = n /\ m \in again)
SentInOrder == \A i \in 1 .. Len(Sent) - 1 : Follows(Sent[i], Sent[i + 1], past.again)

\* Who joins the thread has emptied its channel, and nothing is put in any more.
ClosedAtTheEnd == ~open => worker.at \in {"last_wake", "over"}
EmptiedBeforeJoin == task = "joining" => ~open /\ channel = <<>>

Inv == /\ TypeOK /\ ReadSoFar /\ SentWereWritten /\ SentIsBehind /\ SentInOrder
       /\ ClosedAtTheEnd /\ EmptiedBeforeJoin /\ PassedOverHaveCauses
---------------------------------------------------------------------------
LEMMA RangeOfAppend ==
  ASSUME NEW s \in Seq(Nat), NEW n \in Nat
  PROVE  Range(Append(s, n)) = Range(s) \cup {n}
  <1>1. /\ DOMAIN s = 1 .. Len(s) /\ Len(s) \in Nat
        /\ DOMAIN Append(s, n) = 1 .. Len(s) + 1
    OBVIOUS
  <1>2. \A i \in 1 .. Len(s) : Append(s, n)[i] = s[i]
    OBVIOUS
  <1>3. Append(s, n)[Len(s) + 1] = n
    OBVIOUS
  <1>4. 1 .. Len(s) + 1 = (1 .. Len(s)) \cup {Len(s) + 1}
    BY <1>1
  <1>. QED
    BY <1>1, <1>2, <1>3, <1>4, Zenon DEF Range

LEMMA RangeOfTail ==
  ASSUME NEW s \in Seq(Nat), s # <<>>
  PROVE  Range(s) = {Head(s)} \cup Range(Tail(s))
  <1>1. /\ Tail(s) \in Seq(Nat) /\ Len(s) \in Nat \ {0}
        /\ DOMAIN s = 1 .. Len(s) /\ DOMAIN Tail(s) = 1 .. Len(s) - 1
    OBVIOUS
  <1>2. Head(s) = s[1]
    OBVIOUS
  <1>3. \A i \in 1 .. Len(s) - 1 : Tail(s)[i] = s[i + 1]
    OBVIOUS
  <1>4. ASSUME NEW n \in Range(s) PROVE n \in {Head(s)} \cup Range(Tail(s))
    <2>1. PICK i \in 1 .. Len(s) : n = s[i]
      BY <1>1, <1>4 DEF Range
    <2>2. CASE i = 1
      BY <1>2, <2>1, <2>2
    <2>3. CASE i # 1
      <3>1. i - 1 \in 1 .. Len(s) - 1 /\ Tail(s)[i - 1] = n
        BY <1>1, <1>3, <2>1, <2>3
      <3>. QED
        BY <1>1, <3>1 DEF Range
    <2>. QED
      BY <2>2, <2>3
  <1>5. ASSUME NEW n \in {Head(s)} \cup Range(Tail(s)) PROVE n \in Range(s)
    <2>1. CASE n = Head(s)
      BY <1>1, <1>2, <2>1 DEF Range
    <2>2. CASE n \in Range(Tail(s))
      <3>1. PICK i \in 1 .. Len(s) - 1 : n = Tail(s)[i]
        BY <1>1, <2>2 DEF Range
      <3>2. i + 1 \in 1 .. Len(s) /\ n = s[i + 1]
        BY <1>1, <1>3, <3>1
      <3>. QED
        BY <1>1, <3>2 DEF Range
    <2>. QED
      BY <1>5, <2>1, <2>2
  <1>. QED
    BY <1>4, <1>5

\* A line that is polled moves from the channel to what left; a line that is sent
\* comes last.
LEMMA PollKeepsSent ==
  ASSUME NEW s \in Seq(Nat), NEW t \in Seq(Nat), t # <<>>
  PROVE  Append(s, Head(t)) \o Tail(t) = s \o t
  OBVIOUS

LEMMA SendAppends ==
  ASSUME NEW s \in Seq(Nat), NEW t \in Seq(Nat), NEW n \in Nat
  PROVE  s \o Append(t, n) = Append(s \o t, n)
  OBVIOUS
---------------------------------------------------------------------------
LEMMA InitInv == Init => Inv
  <1> SUFFICES ASSUME Init PROVE Inv
    OBVIOUS
  <1>1. TypeOK
    BY DEF Init, TypeOK, Places, Tasks
  <1>2. Sent = <<>>
    BY DEF Init, Sent
  <1>3. ReadSoFar /\ ClosedAtTheEnd /\ EmptiedBeforeJoin /\ PassedOverHaveCauses
    BY DEF Init, ReadSoFar, ClosedAtTheEnd, EmptiedBeforeJoin, PassedOverHaveCauses
  <1>4. SentWereWritten /\ SentIsBehind /\ SentInOrder
    BY <1>2 DEF SentWereWritten, SentIsBehind, SentInOrder
  <1>. QED
    BY <1>1, <1>3, <1>4 DEF Inv

LEMMA TypesKept == TypeOK /\ [Next]_vars => TypeOK'
  <1> SUFFICES ASSUME TypeOK, [Next]_vars PROVE TypeOK'
    OBVIOUS
  <1> USE DEF TypeOK, Places, Tasks, Goes, Fails, CallWaker
  <1>1. CASE Write
    BY <1>1 DEF Write
  <1>2. CASE Open
    <2>1. PICK n \in SeekTail :
             /\ worker' = [at |-> "polling", read |-> n]
             /\ past' = [past EXCEPT !.skipped = @ \cup (worker.read + 1 .. n),
                                     !.again = @ \cup (n + 1 .. worker.read)]
      BY <1>2 DEF Open
    <2>2. n \in Nat /\ worker.read \in Nat
      BY DEF SeekTail
    <2>3. worker.read + 1 .. n \subseteq Nat /\ n + 1 .. worker.read \subseteq Nat
      BY <2>2
    <2>. QED
      BY <1>2, <2>1, <2>2, <2>3 DEF Open
  <1>3. CASE OpenPanics \/ Stops \/ ReadNothing \/ ReadFails \/ Wait \/ End
    BY <1>3 DEF OpenPanics, Stops, ReadNothing, ReadFails, Wait, End
  <1>4. CASE ReadRecord
    BY <1>4 DEF ReadRecord
  <1>5. CASE ReadStale
    <2>1. worker.read + 1 .. written \subseteq Nat
      OBVIOUS
    <2>. QED
      BY <1>5, <2>1 DEF ReadStale
  <1>6. CASE Send
    BY <1>6 DEF Send
  <1>7. CASE Wake \/ LastWake
    <2>1. PICK m \in BOOLEAN : past' = [past EXCEPT !.missed = m]
      <3>1. (~waker /\ (task = "registering" \/ past.missed)) \in BOOLEAN
        BY Zenon
      <3>. QED
        BY <1>7, <3>1, Zenon DEF Wake, LastWake
    <2>2. past' \in [skipped : SUBSET Nat, again : SUBSET Nat, missed : BOOLEAN]
      BY ONLY TypeOK, <2>1 DEF TypeOK
    <2>3. /\ worker' \in [at : Places, read : Nat]
          /\ UNCHANGED <<written, channel, open, task, given>>
      BY <1>7 DEF Wake, LastWake
    <2>. QED
      BY <2>2, <2>3
  <1>8. CASE PollLine
    BY <1>8 DEF PollLine, TryRecv
  <1>9. CASE PollEmpty \/ PollDisconnected \/ Register \/ Dropped \/ Drop
    BY <1>9 DEF PollEmpty, PollDisconnected, Register, Dropped, Drop
  <1>10. CASE Respawn
    <2>1. <<>> \in Seq(Nat)
      OBVIOUS
    <2>. QED
      BY <1>10, <2>1 DEF Respawn
  <1>11. CASE UNCHANGED vars
    BY <1>11 DEF vars
  <1>. QED
    BY <1>1, <1>2, <1>3, <1>4, <1>5, <1>6, <1>7, <1>8, <1>9, <1>10, <1>11 DEF Next, Thread, Poll

\* What the order and the completeness of the lines need.
OrderInv == ReadSoFar /\ SentWereWritten /\ SentIsBehind /\ SentInOrder

(* A step that neither reads nor sends keeps both.                         *)
LEMMA NothingRead ==
  ASSUME Inv, TypeOK',
         Sent' = Sent,
         Range(given') \cup Range(channel') = Range(given) \cup Range(channel),
         \/ worker' = worker
         \/ /\ worker'.read = worker.read
            /\ worker.at # "sending" /\ worker'.at # "sending",
         written <= written',
         past'.again = past.again, past'.skipped = past.skipped
  PROVE  OrderInv' /\ PassedOverHaveCauses'
  <1> USE DEF Inv
  <1>1. written \in Nat /\ written' \in Nat /\ worker.read \in Nat
    BY DEF TypeOK
  <1>2. Sent \in Seq(Nat)
    BY DEF Sent, TypeOK
  <1>3. \A i \in 1 .. Len(Sent) : Sent[i] \in Nat
    BY <1>2
  <1>4. Len(Sent) \in Nat /\ \A i \in 1 .. Len(Sent) - 1 : i \in 1 .. Len(Sent) /\ i + 1 \in 1 .. Len(Sent)
    BY <1>2
  <1>5. ReadSoFar' /\ SentWereWritten'
    BY <1>1, <1>3 DEF ReadSoFar, SentWereWritten
  <1>6. SentIsBehind'
    BY <1>1, <1>3 DEF SentIsBehind, Behind
  <1>7. SentInOrder'
    BY DEF SentInOrder, Follows
  <1>8. worker'.read = worker.read /\ Sending \subseteq Sending'
    BY DEF Sending
  <1>9. PassedOverHaveCauses'
    BY <1>8 DEF PassedOverHaveCauses
  <1>. QED
    BY <1>5, <1>6, <1>7, <1>9 DEF OrderInv

(* A thread that takes over begins at the end of the journal, one record   *)
(* back at most.                                                           *)
LEMMA OpenKeeps ==
  ASSUME Inv, TypeOK', Open
  PROVE  OrderInv' /\ PassedOverHaveCauses'
  <1> USE DEF Inv
  <1>1. PICK n \in SeekTail :
           /\ worker' = [at |-> "polling", read |-> n]
           /\ past' = [past EXCEPT !.skipped = @ \cup (worker.read + 1 .. n),
                                   !.again = @ \cup (n + 1 .. worker.read)]
    BY DEF Open
  <1>2. /\ n \in Nat /\ written \in Nat /\ worker.read \in Nat
        /\ n <= written /\ written <= n + 1 /\ worker.read <= written
    BY DEF SeekTail, TypeOK, ReadSoFar
  <1>3. /\ worker'.at = "polling" /\ worker'.read = n
        /\ past'.skipped = past.skipped \cup (worker.read + 1 .. n)
        /\ past'.again = past.again \cup (n + 1 .. worker.read)
    BY <1>1 DEF TypeOK
  <1>4. Sent' = Sent /\ UNCHANGED <<written, channel, given>> /\ worker.at = "opening"
    BY DEF Open, Sent
  <1>5. Sent \in Seq(Nat) /\ \A i \in 1 .. Len(Sent) : Sent[i] \in Nat
    BY DEF Sent, TypeOK
  <1>6. ReadSoFar' /\ SentWereWritten'
    BY <1>2, <1>3, <1>4 DEF ReadSoFar, SentWereWritten
  <1>7. SentIsBehind'
    <2> SUFFICES ASSUME NEW i \in 1 .. Len(Sent) PROVE Behind(Sent[i])'
      BY <1>4 DEF SentIsBehind
    <2>1. Sent[i] \in Nat /\ Sent[i] <= written /\ Behind(Sent[i])
      BY <1>5 DEF SentWereWritten, SentIsBehind
    <2>2. CASE Sent[i] <= n
      BY <1>2, <1>3, <1>4, <2>1, <2>2 DEF Behind
    <2>3. CASE Sent[i] = n + 1
      <3>1. CASE Sent[i] \in past.again
        BY <1>3, <1>4, <2>3, <3>1 DEF Behind
      <3>2. CASE Sent[i] <= worker.read
        BY <1>2, <1>3, <1>4, <2>3, <3>2 DEF Behind
      <3>. QED
        BY <2>1, <1>2, <3>1, <3>2 DEF Behind
    <2>. QED
      BY <1>2, <2>1, <2>2, <2>3
  <1>8. SentInOrder'
    BY <1>3, <1>4 DEF SentInOrder, Follows
  <1>9. PassedOverHaveCauses'
    <2>1. Sending = {}
      BY <1>4 DEF Sending
    <2> SUFFICES ASSUME NEW k \in 1 .. n
                 PROVE  k \in Range(given) \cup Range(channel) \cup past'.skipped \cup Mute
      BY <1>3, <1>4 DEF PassedOverHaveCauses
    <2>2. CASE k <= worker.read
      BY <1>2, <1>3, <2>1, <2>2 DEF PassedOverHaveCauses
    <2>3. CASE k > worker.read
      BY <1>2, <1>3, <2>3
    <2>. QED
      BY <1>2, <2>2, <2>3
  <1>. QED
    BY <1>6, <1>7, <1>8, <1>9 DEF OrderInv

(* A record that is read is sent next, or has no message.                  *)
LEMMA ReadRecordKeeps ==
  ASSUME Inv, TypeOK', ReadRecord
  PROVE  OrderInv' /\ PassedOverHaveCauses'
  <1> USE DEF Inv
  <1>1. /\ written \in Nat /\ worker.read \in Nat /\ worker.read < written
        /\ worker.at = "polling" /\ worker'.read = worker.read + 1
        /\ worker'.at = IF worker.read + 1 \in Mute THEN "waiting" ELSE "sending"
    BY DEF ReadRecord, TypeOK
  <1>2. Sent' = Sent /\ UNCHANGED <<written, channel, given, past>>
    BY DEF ReadRecord, Sent
  <1>3. Sent \in Seq(Nat) /\ \A i \in 1 .. Len(Sent) : Sent[i] \in Nat
    BY DEF Sent, TypeOK
  <1>4. ReadSoFar' /\ SentWereWritten'
    BY <1>1, <1>2 DEF ReadSoFar, SentWereWritten
  <1>5. SentIsBehind'
    <2> SUFFICES ASSUME NEW i \in 1 .. Len(Sent) PROVE Behind(Sent[i])'
      BY <1>2 DEF SentIsBehind
    <2>1. Sent[i] \in Nat /\ Behind(Sent[i]) /\ Sent'[i] = Sent[i]
      BY <1>2, <1>3 DEF SentIsBehind
    <2>2. /\ worker'.read = worker.read + 1 /\ past' = past
          /\ Sent[i] <= worker.read \/ Sent[i] \in past.again
          /\ Sent[i] <= worker.read + 1
      BY <1>1, <1>2, <2>1 DEF Behind
    <2>. QED
      BY <1>1, <2>1, <2>2 DEF Behind
  <1>6. SentInOrder'
    BY <1>2 DEF SentInOrder, Follows
  <1>7. PassedOverHaveCauses'
    <2> SUFFICES ASSUME NEW k \in 1 .. worker.read + 1
                 PROVE  k \in Range(given) \cup Range(channel) \cup Sending' \cup past.skipped \cup Mute
      BY <1>1, <1>2 DEF PassedOverHaveCauses
    <2>1. CASE k <= worker.read
      BY <1>1, <2>1 DEF PassedOverHaveCauses, Sending
    <2>2. CASE k = worker.read + 1
      BY <1>1, <2>2 DEF Sending
    <2>. QED
      BY <1>1, <2>1, <2>2
  <1>. QED
    BY <1>4, <1>5, <1>6, <1>7 DEF OrderInv

LEMMA ReadStaleKeeps ==
  ASSUME Inv, TypeOK', ReadStale
  PROVE  OrderInv' /\ PassedOverHaveCauses'
  <1> USE DEF Inv
  <1>1. /\ written \in Nat /\ worker.read \in Nat /\ worker.read < written
        /\ worker.at = "polling" /\ worker'.read = written /\ worker'.at = "waiting"
        /\ past'.again = past.again
        /\ past'.skipped = past.skipped \cup (worker.read + 1 .. written)
    BY DEF ReadStale, TypeOK
  <1>2. Sent' = Sent /\ UNCHANGED <<written, channel, given>>
    BY DEF ReadStale, Sent
  <1>3. Sent \in Seq(Nat) /\ \A i \in 1 .. Len(Sent) : Sent[i] \in Nat
    BY DEF Sent, TypeOK
  <1>4. ReadSoFar' /\ SentWereWritten'
    BY <1>1, <1>2 DEF ReadSoFar, SentWereWritten
  <1>5. SentIsBehind'
    BY <1>1, <1>2, <1>3 DEF SentIsBehind, Behind
  <1>6. SentInOrder'
    BY <1>1, <1>2 DEF SentInOrder, Follows
  <1>7. PassedOverHaveCauses'
    <2> SUFFICES ASSUME NEW k \in 1 .. written
                 PROVE  k \in Range(given) \cup Range(channel) \cup past'.skipped \cup Mute
      BY <1>1, <1>2 DEF PassedOverHaveCauses
    <2>1. CASE k <= worker.read
      BY <1>1, <2>1 DEF PassedOverHaveCauses, Sending
    <2>2. CASE k > worker.read
      BY <1>1, <2>2
    <2>. QED
      BY <1>1, <2>1, <2>2
  <1>. QED
    BY <1>4, <1>5, <1>6, <1>7 DEF OrderInv

(* The line that is sent comes after all others, or is read again.         *)
LEMMA SendKeeps ==
  ASSUME Inv, TypeOK', Send
  PROVE  OrderInv' /\ PassedOverHaveCauses'
  <1> USE DEF Inv
  <1>1. /\ worker.read \in Nat /\ written \in Nat
        /\ worker.at = "sending" /\ worker'.at = "waking" /\ worker'.read = worker.read
        /\ channel' = Append(channel, worker.read)
        /\ UNCHANGED <<written, given, past>>
    BY DEF Send, Goes, TypeOK
  <1>2. Sent \in Seq(Nat) /\ Sent' = Append(Sent, worker.read)
    BY <1>1, SendAppends DEF Sent, TypeOK
  <1>3. /\ Len(Sent) \in Nat /\ Len(Sent') = Len(Sent) + 1
        /\ \A i \in 1 .. Len(Sent) : Sent'[i] = Sent[i] /\ Sent[i] \in Nat
        /\ Sent'[Len(Sent) + 1] = worker.read
    BY <1>1, <1>2
  <1>4. \A i \in 1 .. Len(Sent') : i \in 1 .. Len(Sent) \/ Sent'[i] = worker.read
    BY <1>3
  <1>5. ReadSoFar' /\ SentWereWritten'
    BY <1>1, <1>3, <1>4 DEF ReadSoFar, SentWereWritten
  <1>6. SentIsBehind'
    BY <1>1, <1>3, <1>4 DEF SentIsBehind, Behind
  <1>7. SentInOrder'
    <2> SUFFICES ASSUME NEW i \in 1 .. Len(Sent)
                 PROVE  Follows(Sent'[i], Sent'[i + 1], past.again)
      BY <1>1, <1>3 DEF SentInOrder
    <2>1. CASE i + 1 \in 1 .. Len(Sent)
      BY <1>3, <2>1 DEF SentInOrder
    <2>2. CASE i = Len(Sent)
      BY <1>1, <1>3, <2>2 DEF SentIsBehind, Behind, Follows
    <2>. QED
      BY <1>3, <2>1, <2>2
  <1>8. PassedOverHaveCauses'
    <2>1. Range(channel') = Range(channel) \cup Sending /\ Sending' = {}
      BY <1>1, RangeOfAppend DEF Sending, TypeOK
    <2>. QED
      BY <1>1, <2>1 DEF PassedOverHaveCauses
  <1>. QED
    BY <1>5, <1>6, <1>7, <1>8 DEF OrderInv

LEMMA PollLineKeeps ==
  ASSUME Inv, TypeOK', PollLine
  PROVE  OrderInv' /\ PassedOverHaveCauses'
  <1>1. /\ channel # <<>> /\ given' = Append(given, Head(channel)) /\ channel' = Tail(channel)
        /\ UNCHANGED <<written, worker, past>>
    BY DEF PollLine, TryRecv
  <1>2. given \in Seq(Nat) /\ channel \in Seq(Nat) /\ Head(channel) \in Nat /\ written \in Nat
    BY <1>1 DEF Inv, TypeOK
  <1>3. Sent' = Sent
    BY <1>1, <1>2, PollKeepsSent DEF Sent
  <1>4. Range(given') \cup Range(channel') = Range(given) \cup Range(channel)
    BY <1>1, <1>2, RangeOfAppend, RangeOfTail
  <1>. QED
    BY <1>1, <1>2, <1>3, <1>4, NothingRead

(* Nothing is in the channel that is replaced.                             *)
LEMMA RespawnKeeps ==
  ASSUME Inv, TypeOK', Respawn
  PROVE  OrderInv' /\ PassedOverHaveCauses'
  <1>1. channel = <<>> /\ channel' = <<>> /\ UNCHANGED <<written, given, past>>
    BY DEF Inv, EmptiedBeforeJoin, Respawn
  <1>2. /\ worker.at = "over" /\ worker'.at = "opening" /\ worker'.read = worker.read
        /\ written \in Nat
    BY DEF Inv, TypeOK, Respawn, Goes
  <1>3. Sent' = Sent
    BY <1>1 DEF Sent
  <1>. QED
    BY <1>1, <1>2, <1>3, NothingRead

LEMMA InvKept == Inv /\ [Next]_vars => Inv'
  <1> SUFFICES ASSUME Inv, [Next]_vars PROVE Inv'
    OBVIOUS
  <1>1. TypeOK'
    BY TypesKept DEF Inv
  <1>2. written \in Nat /\ worker \in [at : Places, read : Nat]
    BY DEF Inv, TypeOK
  <1>3. OrderInv' /\ PassedOverHaveCauses'
    <2>1. CASE Open
      BY <1>1, <2>1, OpenKeeps
    <2>2. CASE ReadRecord
      BY <1>1, <2>2, ReadRecordKeeps
    <2>3. CASE ReadStale
      BY <1>1, <2>3, ReadStaleKeeps
    <2>4. CASE Send
      BY <1>1, <2>4, SendKeeps
    <2>5. CASE PollLine
      BY <1>1, <2>5, PollLineKeeps
    <2>6. CASE Respawn
      BY <1>1, <2>6, RespawnKeeps
    <2>7. CASE OpenPanics \/ Stops \/ ReadNothing \/ ReadFails \/ Wake \/ Wait \/ End \/ LastWake
      <3>1. /\ worker.at # "sending" /\ worker'.at # "sending" /\ worker'.read = worker.read
            /\ UNCHANGED <<written, channel, given>>
        BY <1>2, <2>7
           DEF OpenPanics, Stops, ReadNothing, ReadFails, Wake, Wait, End, LastWake, Goes
      <3>2. past'.again = past.again /\ past'.skipped = past.skipped
        BY <2>7 DEF Inv, TypeOK, OpenPanics, Stops, ReadNothing, ReadFails, Wake, Wait, End,
                    LastWake, CallWaker
      <3>3. Sent' = Sent
        BY <3>1 DEF Sent
      <3>. QED
        BY <1>1, <1>2, <3>1, <3>2, <3>3, NothingRead
    <2>8. CASE Write \/ PollEmpty \/ PollDisconnected \/ Register \/ Dropped \/ Drop
               \/ UNCHANGED vars
      <3>1. UNCHANGED <<worker, channel, given, past>> /\ written <= written'
        BY <1>2, <2>8
           DEF Write, PollEmpty, PollDisconnected, Register, Dropped, Drop, vars
      <3>2. Sent' = Sent
        BY <3>1 DEF Sent
      <3>. QED
        BY <1>1, <3>1, <3>2, NothingRead
    <2>. QED
      BY <2>1, <2>2, <2>3, <2>4, <2>5, <2>6, <2>7, <2>8 DEF Next, Thread, Poll
  <1> USE <1>2 DEF Inv, Goes, CallWaker
  <1>4. ClosedAtTheEnd'
    <2>1. CASE Thread
      BY <2>1 DEF ClosedAtTheEnd, Thread, Open, OpenPanics, Stops, ReadNothing, ReadRecord,
                  ReadStale, ReadFails, Send, Wake, Wait, End, LastWake
    <2>2. CASE Poll
      BY <2>2 DEF ClosedAtTheEnd, Poll, PollLine, PollEmpty, PollDisconnected, Respawn,
                  Register, Dropped
    <2>3. CASE Write \/ Drop \/ UNCHANGED vars
      BY <2>3 DEF ClosedAtTheEnd, Write, Drop, vars
    <2>. QED
      BY <2>1, <2>2, <2>3 DEF Next
  <1>5. EmptiedBeforeJoin'
    <2>1. CASE Thread
      BY <2>1 DEF ClosedAtTheEnd, EmptiedBeforeJoin, Thread, Open, OpenPanics, Stops,
                  ReadNothing, ReadRecord, ReadStale, ReadFails, Send, Wake, Wait, End, LastWake
    <2>2. CASE Poll
      BY <2>2 DEF EmptiedBeforeJoin, Poll, PollLine, PollEmpty, PollDisconnected, TryRecv,
                  Respawn, Register, Dropped
    <2>3. CASE Write \/ Drop \/ UNCHANGED vars
      BY <2>3 DEF EmptiedBeforeJoin, Write, Drop, vars
    <2>. QED
      BY <2>1, <2>2, <2>3 DEF Next
  <1>. QED
    BY <1>1, <1>3, <1>4, <1>5 DEF OrderInv
---------------------------------------------------------------------------
THEOREM JournalStreamInv == Spec => []Inv
  <1>. QED
    BY InitInv, InvKept, PTL DEF Spec

(* What the stream has given is the first part of what was sent, so it is  *)
(* in order as well; a record is given twice in a row only if a thread     *)
(* that took over read it again.                                           *)
THEOREM GivenInOrder == Spec => []InOrder
  <1>1. Inv => InOrder
    <2> SUFFICES ASSUME Inv, NEW i \in 1 .. Len(given) - 1
                 PROVE  Follows(given[i], given[i + 1], past.again)
      BY DEF InOrder, Follows
    <2>1. given \in Seq(Nat) /\ channel \in Seq(Nat)
      BY DEF Inv, TypeOK
    <2>2. i \in 1 .. Len(Sent) - 1 /\ Sent[i] = given[i] /\ Sent[i + 1] = given[i + 1]
      BY <2>1 DEF Sent
    <2>. QED
      BY <2>2 DEF Inv, SentInOrder
  <1>. QED
    BY <1>1, JournalStreamInv, PTL

(* No record that was read disappears, also when threads fail and others   *)
(* take over with an empty channel.                                        *)
THEOREM NothingLostOnTheWay == Spec => []PassedOverHaveCauses
  <1>. QED
    BY JournalStreamInv, PTL DEF Inv
=============================================================================
