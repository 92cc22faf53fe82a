------------------------------ MODULE TailedFile ------------------------------
(***************************************************************************)
(* One tailed file from the write to the batch: TailedFile::tail and the   *)
(* retries of its lines (common/fs/src/cache/tailed_file.rs), and the      *)
(* stage of bin/src/_main.rs that validates a line, lets the middlewares   *)
(* process it, and commits, drops or retries it.  A line of a pod's file   *)
(* is put off until the metadata of the pod are known: its bytes go to a   *)
(* retry bucket, and when the bucket is due its spans are taken out of the *)
(* offsets, which opens a gap that the next tail() reads again.            *)
(*                                                                         *)
(* Every line is one character and a line feed, so the byte at an odd      *)
(* offset is the line feed of line offset \div 2, and a line is half       *)
(* written when the length is odd.  The reader is tokio's BufReader over   *)
(* the file: `held` are the bytes it has buffered, `pos` is the position   *)
(* of the file under it, which seek() moves without dropping `held`.       *)
(***************************************************************************)
EXTENDS SpanVec

CONSTANTS
    MaxLines,     \* lines written
    Tries,        \* retries of a line (5 in the code)
    ReadLimit,    \* bytes one event reads (16 KB in the code)
    Excluded,     \* lines an exclusion rule drops
    Delays,       \* settings of metadata_retry_delay, in ticks
    MaxFlips,     \* bound on the comings and goings of the metadata
    MaxFaults     \* bound on failing reads
ASSUME TailedFileAssumption ==
    /\ {MaxLines, Tries, ReadLimit} \subseteq Nat \ {0}
    /\ {MaxFlips, MaxFaults} \cup Delays \subseteq Nat /\ IsFiniteSet(Delays)
    /\ Excluded \subseteq 0 .. MaxLines - 1

VARIABLES
    len,       \* of the file
    known,     \* whether the metadata of the pod are in the store
    flips, faults,
    delay,     \* the setting, or NotSet
    inner,     \* TailedFileInner; the time of a bucket is what is left until it is due
    stream,    \* the LazyLines being read, or Closed
    write,     \* a write event is queued
    resume,    \* a resume event is queued
    wakes,     \* how many retry events come back after each number of ticks
    out        \* history: how often each line was sent, whether something else than
               \* a line was sent, what got out of step, whether a gap was read past
               \* its end, and the lines put off without a retry event

vars == <<len, known, flips, faults, delay, inner, stream, write, resume, wakes, out>>

Lines == 0 .. MaxLines - 1
Feed(b) == b % 2 = 1
Whole(k) == <<2 * k, 2 * k + 1>>
Complete == {k \in Lines : 2 * k + 2 <= len}
Waits == 0 .. Tries * Max(Delays)
NoTarget == -1
NotSet == -1
Huge == 2 * MaxLines + 1  \* for what a difference below zero wraps to

Closed == [open |-> FALSE, total |-> 0, target |-> NoTarget]

Fresh == [offsets |-> <<>>, offset |-> 0, held |-> <<>>, pos |-> 0, buf |-> <<>>,
          buckets |-> <<>>]

Init ==
    /\ len = 0 /\ known \in BOOLEAN /\ flips = 0 /\ faults = 0
    /\ delay \in Delays \cup {NotSet}
    /\ inner = Fresh /\ stream = Closed
    /\ write = FALSE /\ resume = FALSE /\ wakes = [t \in Waits |-> 0]
    /\ out = [sent |-> [k \in Lines |-> 0], odd |-> FALSE, slips |-> {}, over |-> FALSE,
              unsent |-> {}]
---------------------------------------------------------------------------
(* The environment: the writer, the metadata and the clock.                *)

\* Half a line or a whole one.
WriteBytes(n) ==
    /\ len + n <= 2 * MaxLines
    /\ len' = len + n
    /\ write' = TRUE
    /\ UNCHANGED <<known, flips, faults, delay, inner, stream, resume, wakes, out>>

Metadata ==
    /\ flips < MaxFlips
    /\ known' = ~known /\ flips' = flips + 1
    /\ UNCHANGED <<len, faults, delay, inner, stream, write, resume, wakes, out>>

Sooner(bucket) == [bucket EXCEPT !.time = Max({0, @ - 1})]

Tick ==
    /\ \/ \E t \in Waits \ {0} : wakes[t] > 0
       \/ \E i \in DOMAIN inner.buckets : inner.buckets[i].time > 0
    /\ wakes' = [t \in Waits |-> (IF t + 1 \in Waits THEN wakes[t + 1] ELSE 0)
                                 + (IF t = 0 THEN wakes[0] ELSE 0)]
    /\ inner' = [inner EXCEPT !.buckets = [i \in DOMAIN @ |-> Sooner(@[i])]]
    /\ UNCHANGED <<len, known, flips, faults, delay, stream, write, resume, out>>
---------------------------------------------------------------------------
(* Retry buckets.                                                          *)

Due(b) == b.time = 0
\* Of the buckets at the places S.
RetriesOf(bs, S, x) == {0} \cup {bs[i].retries : i \in {j \in S : ContainsSpan(bs[j].spans, x)}}

RetriesRemaining(bs, x) == Tries - Max(RetriesOf(bs, DOMAIN bs, x))

\* The elements of s at the places S, in their order.
At(s, S) ==
    LET place == CHOOSE f \in [1 .. Cardinality(S) -> S] :
                     \A i, j \in DOMAIN f : i < j => f[i] < f[j]
    IN  [i \in 1 .. Cardinality(S) |-> s[place[i]]]

\* A list as insert() keeps it, in order and apart, and whether taking x out of each
\* list of S left just the other bytes, and left them so.
Tidy(spans) ==
    /\ spans \in Seq(SpansUpTo(2 * MaxLines))
    /\ \A i \in 1 .. Len(spans) - 1 : spans[i].end < spans[i + 1].start
Exact(bs, left, S, x) ==
    \A i \in S : /\ Tidy(left[i].spans)
                 /\ Covered(left[i].spans) = Covered(bs[i].spans) \ SpanBytes(x)

Without(b, x) == [b EXCEPT !.spans = RemoveSpan(@, x)]

\* The loop of retry() and commit(), from the last bucket to the first: the places
\* of those that have a span which is not in one of the later ones.
Own(bs) ==
    LET within(list, b) == \A i \in DOMAIN b.spans : ContainsSpan(list, b.spans[i])
        bucket(n) == bs[Len(bs) + 1 - n]
        seen[n \in 0 .. Len(bs)] ==
            IF n = 0 THEN <<>>
            ELSE IF within(seen[n - 1], bucket(n)) THEN seen[n - 1]
            ELSE InsertAll(seen[n - 1], bucket(n).spans)
    IN  {i \in DOMAIN bs : ~within(seen[Len(bs) - i], bs[i])}

Commit(bs, x) ==
    LET left == [i \in DOMAIN bs |-> Without(bs[i], x)]
    IN  [buckets |-> At(left, {i \in Own(bs) : left[i].spans # <<>>}),
         exact |-> Exact(bs, left, Own(bs), x)]

\* Faulty variant: the bucket is due after the event that is sent for it.
PutOffLater(bs, x, time, n, i) ==
    IF i = 0
    THEN Append(bs, [time |-> time + 1, retries |-> n, spans |-> <<x>>, tried |-> <<>>])
    ELSE [bs EXCEPT ![i].spans = Insert(@, x)]

\* The span goes to the bucket of its time and count, or to a new one.  Of the
\* buckets that are due, any or none was made in the last quarter of a second.
New == 0
Places(bs, time, n) ==
    LET same == {i \in DOMAIN bs : bs[i].time = time /\ bs[i].retries = n}
    IN  IF time = 0 THEN same \cup {New} ELSE IF same = {} THEN {New} ELSE {Min(same)}
PutOff(bs, x, time, n, i) ==
    IF i = New
    THEN Append(bs, [time |-> time, retries |-> n, spans |-> <<x>>, tried |-> <<>>])
    ELSE [bs EXCEPT ![i].spans = Insert(@, x)]

\* An event is sent only when none is in flight: if the last bucket that is due was
\* given back, and is as it was then.
NoneInFlight(due) == due = <<>> \/ due[Len(due)].tried = due[Len(due)].spans
NextTry(bs, x) == Max(RetriesOf(bs, {j \in DOMAIN bs : Due(bs[j])}, x)) + 1
Retry(bs, x, i) ==
    LET n == NextTry(bs, x)
        taken == {j \in DOMAIN bs : Due(bs[j]) /\ ~ContainsSpan(bs[j].tried, x)}
        left == [j \in DOMAIN bs |-> IF j \in taken THEN Without(bs[j], x) ELSE bs[j]]
        put == PutOff(left, x, delay * n, n, i)
    IN  [time |-> delay * n,
         buckets |-> At(put, Own(put)),
         send |-> NoneInFlight(SelectSeq(bs, Due)),
         exact |-> Exact(bs, left, taken, x)]

\* The buckets that are due give their spans back to be read: each span once.
GiveBack(acc, x) ==
    IF ContainsSpan(acc.tried, x) THEN acc
    ELSE [tried |-> Insert(acc.tried, x), offsets |-> RemoveSpan(acc.offsets, x)]
GivenBack(offsets, b) == FoldLeft(GiveBack, [tried |-> b.tried, offsets |-> offsets], b.spans)
Reopen(tf) ==
    LET bs == tf.buckets
    IN  [tf EXCEPT
           !.offsets = FoldLeft(LAMBDA offsets, b : IF Due(b) THEN GivenBack(offsets, b).offsets
                                                    ELSE offsets, @, bs),
           !.buckets = At([i \in DOMAIN bs |->
                              IF Due(bs[i])
                              THEN [bs[i] EXCEPT !.tried = GivenBack(tf.offsets, bs[i]).tried]
                              ELSE bs[i]],
                          {i \in DOMAIN bs : Due(bs[i]) => bs[i].spans # <<>>})]

\* The bytes given back, and whether removing them left just the others.
Given(tf) ==
    UNION {UNION {SpanBytes(b.spans[j]) :
                      j \in {j \in DOMAIN b.spans : ~ContainsSpan(b.tried, b.spans[j])}} :
               b \in {tf.buckets[i] : i \in {i \in DOMAIN tf.buckets : Due(tf.buckets[i])}}}
Reopened(before, tf) ==
    \/ Given(before) = {} /\ tf.offsets = before.offsets
    \/ Tidy(tf.offsets) /\ Covered(tf.offsets) = Covered(before.offsets) \ Given(before)
---------------------------------------------------------------------------
(* tail(): take what is due, look for the first gap, and seek to it.       *)

SeekTo(tf, gap) ==
    IF gap.end # NoEnd \/ tf.offset # gap.start
    THEN [tf EXCEPT !.pos = gap.start, !.offset = gap.start] ELSE tf

\* The target of LazyLines: the end less the position of the file.  For a gap
\* the end is the length of the gap, for the rest it is that of the file.
TargetOf(gap, tf) ==
    LET d == (IF gap.end # NoEnd THEN gap.end - gap.start ELSE len) - tf.pos
    IN  IF d < 0 THEN Huge ELSE d

\* Faulty variant: also at the end of the file.
StartOverAtEnd(tf) ==
    IF tf.offset >= len
    THEN [tf EXCEPT !.offsets = <<>>, !.buckets = <<>>, !.offset = 0, !.pos = 0]
    ELSE tf

\* Past the end of the file: taken for a truncation, everything starts over.
\* (A file of 8 KB or more would be left where it ends; this one is smaller.)
StartOver(tf) ==
    IF tf.offset > len
    THEN [tf EXCEPT !.offsets = <<>>, !.buckets = <<>>, !.offset = 0, !.pos = 0]
    ELSE tf

\* What is read next is not what is at the offset: the bytes held are those of
\* another place, or a piece of a line waits in the buffer.
Stale(before, tf) ==
    \/ tf.held # <<>> /\ tf.held[1] # tf.offset
    \/ tf.pos # before.pos /\ (tf.held # <<>> \/ (tf.buf # <<>> /\ ~Feed(Last(tf.buf))))

TailFile ==
    /\ ~stream.open
    /\ \E freed \in {Reopen(inner)} :
        LET gap == FirstGap(freed.offsets)
            target == TargetOf(gap, inner')
        IN  /\ inner' = StartOver(SeekTo(freed, gap))
            /\ stream' = IF inner'.offset = len THEN Closed
                         ELSE [open |-> TRUE, total |-> 0, target |-> target]
            /\ out' = [out EXCEPT
                   !.slips = @
                       \cup (IF Stale(freed, inner') THEN {"seek"} ELSE {})
                       \cup (IF ~Reopened(inner, freed)
                             THEN {"remove"} ELSE {})
                       \cup (IF "half" \in out.slips /\ freed.offsets # inner.offsets
                             THEN {"moved"} ELSE {}),
                   !.over = @ \/ stream'.target = Huge]

TakeWrite ==
    /\ write /\ TailFile
    /\ write' = FALSE
    /\ UNCHANGED <<len, known, flips, faults, delay, resume, wakes>>

TakeResume ==
    /\ resume /\ TailFile
    /\ resume' = FALSE
    /\ UNCHANGED <<len, known, flips, faults, delay, write, wakes>>

TakeRetry ==
    /\ wakes[0] > 0 /\ TailFile
    /\ wakes' = [wakes EXCEPT ![0] = @ - 1]
    /\ UNCHANGED <<len, known, flips, faults, delay, write, resume>>
---------------------------------------------------------------------------
(* One line of the stream, and what the pipeline does with it.             *)

StreamEnds ==
    \/ stream.target > 0 /\ stream.total >= stream.target
    \/ stream.total > ReadLimit

EndStream ==
    /\ stream.open /\ StreamEnds
    /\ stream' = Closed
    /\ resume' = TRUE
    /\ UNCHANGED <<len, known, flips, faults, delay, inner, write, wakes, out>>

\* read_until: from what is held and, without a line feed there, from the file.
Available ==
    IF \E i \in DOMAIN inner.held : Feed(inner.held[i]) THEN inner.held
    ELSE inner.held \o [i \in 1 .. len - inner.pos |-> inner.pos + i - 1]
FeedsIn(bytes) == {i \in DOMAIN bytes : Feed(bytes[i])}
Taken == IF FeedsIn(Available) = {} THEN Available
         ELSE SubSeq(Available, 1, Min(FeedsIn(Available)))

\* Faulty variant: the buffer is never cleared.
KeptAlways == inner.buf

\* The buffer of the last read, unless that ended with its line.
Kept == IF inner.buf # <<>> /\ Feed(Last(inner.buf)) THEN <<>> ELSE inner.buf

AfterRead ==
    [inner EXCEPT
        !.buf = Kept \o Taken,
        !.held = SubSeq(Available, Len(Taken) + 1, Len(Available)),
        !.pos = IF Available = inner.held THEN @ ELSE Max({@, len})]

\* Nothing, or a piece of a line, which waits in the buffer.
ReadNoLine ==
    /\ stream.open /\ ~StreamEnds /\ FeedsIn(Taken) = {}
    /\ inner' = AfterRead
    /\ stream' = Closed
    /\ out' = IF Taken # <<>> THEN [out EXCEPT !.slips = @ \cup {"half"}] ELSE out
    /\ UNCHANGED <<len, known, flips, faults, delay, write, resume, wakes>>

Slipped(o, name, cond) == IF cond THEN [o EXCEPT !.slips = @ \cup {name}] ELSE o

Sent(o, content) ==
    LET k == content[1] \div 2
    IN  IF content = Whole(k) THEN [o EXCEPT !.sent[k] = Min({2, @ + 1})]
        ELSE [o EXCEPT !.odd = TRUE]

\* The stage of _main.rs: validate, then process, retry or send as it is.
Validated(content, tf, committed, o) ==
    LET k == content[1] \div 2
        skipped == content = Whole(k) /\ k \in Excluded
    IN  /\ known
        /\ inner' = IF skipped THEN tf ELSE committed
        /\ out' = IF skipped THEN out ELSE Sent(o, content)
        /\ UNCHANGED wakes

PutBack(x, tf) ==
    /\ ~known /\ delay # NotSet /\ RetriesRemaining(tf.buckets, x) > 0
    /\ LET n == NextTry(tf.buckets, x)
           k == {x.start \div 2}
       IN  \E i \in Places(tf.buckets, delay * n, n) :
               LET r == Retry(tf.buckets, x, i)
               IN  /\ inner' = [tf EXCEPT !.buckets = r.buckets]
                   /\ wakes' = IF r.send THEN [wakes EXCEPT ![r.time] = @ + 1] ELSE wakes
                   /\ out' = [Slipped(out, "remove", ~r.exact) EXCEPT
                                 !.unsent = IF r.send THEN @ ELSE @ \cup k]

SentAsIs(content, x, tf, committed, o) ==
    /\ ~known
    /\ IF delay = NotSet
       THEN inner' = tf /\ out' = Sent(out, content)
       ELSE /\ RetriesRemaining(tf.buckets, x) = 0
            /\ inner' = committed /\ out' = Sent(o, content)
    /\ UNCHANGED wakes

Pipeline(content, x, tf) ==
    LET commit == Commit(tf.buckets, x)
        committed == [tf EXCEPT !.buckets = commit.buckets]
        o == Slipped(out, "remove", ~commit.exact)
    IN  \/ Validated(content, tf, committed, o)
        \/ PutBack(x, tf)
        \/ SentAsIs(content, x, tf, committed, o)

ReadLine ==
    LET before == Max({0, inner.offset - Len(Kept)})
        after == inner.offset + Len(Taken)
        x == Span(before, after)
        tf == [AfterRead EXCEPT !.offset = after, !.offsets = Insert(@, x)]
    IN  /\ stream.open /\ ~StreamEnds /\ FeedsIn(Taken) # {}
        /\ stream' = [stream EXCEPT !.total = @ + Len(Taken)]
        /\ resume' = (resume \/ Len(tf.offsets) > 1)
        /\ Pipeline(tf.buf, x, tf)
        /\ UNCHANGED <<len, known, flips, faults, delay, write>>

\* A read fails with NotFound and the path is opened again.
ReadFails ==
    /\ stream.open /\ ~StreamEnds /\ faults < MaxFaults
    /\ faults' = faults + 1
    /\ inner' = Fresh
    /\ out' = [out EXCEPT !.slips = @ \cup {"reopened"}]
    /\ UNCHANGED <<len, known, flips, delay, stream, write, resume, wakes>>

Agent == \/ TakeWrite \/ TakeResume \/ TakeRetry
         \/ EndStream \/ ReadNoLine \/ ReadLine
Next == \/ \E n \in 1 .. 2 : WriteBytes(n)
        \/ Metadata \/ Tick \/ ReadFails
        \/ Agent

Busy == write \/ resume \/ wakes[0] > 0 \/ stream.open
Pending == \/ \E t \in Waits \ {0} : wakes[t] > 0
           \/ \E i \in DOMAIN inner.buckets : inner.buckets[i].time > 0
Fairness ==
    /\ []<>~Busy \/ []<><<Agent>>_vars
    /\ []<>~Pending \/ []<><<Tick>>_vars
Spec == Init /\ [][Next]_vars /\ Fairness
---------------------------------------------------------------------------
\* The states the run goes on from: SpanVec::remove has been exact so
\* far, no seek has left bytes in the buffered reader, and no line was given back to
\* be read again after half a line had put the offsets a byte behind.
InStep == out.slips \subseteq {"half", "reopened"}

\* Constraint of the run: a line fewer is written for each of these, a read that
\* fails, half a line that is read, and metadata that change twice.
FewerLines == len <= 2 * (MaxLines - Cardinality(out.slips) - flips \div 2)

(* What is sent is a line of the file, whole and on its own: the pieces of *)
(* half written lines, the seeks between retries and the shared buffer     *)
(* never mix (tailed_file.rs:949, 971), as long as the model is in step.   *)
LinesWhole == InStep => ~out.odd

(* No line is left behind: when no event is queued and no retry is on its  *)
(* way, every complete line was sent or dropped by a rule, unless retry()  *)
(* once put the line off without an event, as there seemed to be one in    *)
(* flight (tailed_file.rs:591).  Whatever else happens to the buckets, the *)
(* event that was sent for a line finds it.                                *)
Quiet == ~write /\ ~resume /\ ~stream.open /\ \A t \in Waits : wakes[t] = 0
Settled(k) == out.sent[k] > 0 \/ k \in Excluded
NothingLost ==
    Quiet /\ out.slips \subseteq {"reopened"} =>
        \A k \in Complete \ out.unsent : Settled(k)

(* A line is sent again only if the file was opened again, or half a line  *)
(* moved the offsets, or a gap in the middle was read past its end because *)
(* the target of the read fell below zero (tailed_file.rs:750).            *)
RepeatsHaveCauses ==
    \A k \in Lines : out.sent[k] > 1 => out.over \/ out.slips # {}
=============================================================================
