# A verification development for the LogDNA agent

The agent (Rust, `src/`) tails log files, adds metadata to the lines, sends them
in batches to an ingestion service, keeps on disk what could not be sent, and
keeps in a database how far each file has been delivered, so that a restart
neither loses nor repeats lines.  This directory holds TLA+ modules of the parts
of it whose correctness depends on the order of things, TLC configurations that
check them on small instances, and proofs of the properties that do not depend on
the size of the instance.

## The system

| component | state it keeps | operations | talks to |
|---|---|---|---|
| offset list (`common/state/src/span.rs`, `offsets.rs`) | ordered list of byte ranges | `insert`, `remove`, `first_gap`, collect | used by all that know offsets |
| offset store (`common/state/src/state.rs`, `lib.rs`) | working spans per file, slot map of staged batches, open write batch, RocksDB | events Update, Flush, Delete, Clear, GarbageCollect through one unbounded channel | send tasks, the tailer (gc), start-up |
| tailed file (`common/fs/src/cache/tailed_file.rs`) | file handle, position, spans read, retry buckets | `tail`, `retry`, `commit` | file system cache, line middleware |
| file system cache (`common/fs/src/cache/mod.rs`) | entries, watch descriptors, symlinks, initial offsets | create, write, delete, rename events, rescan | watcher, tailed files, offset store |
| file events (`notify_stream`, `event_debouncer.rs`, `delayed_stream.rs`) | events held back | push, expiry | file system cache |
| tailer (`common/fs/src/tail.rs`, `bin/src/_main.rs`) | the current stream; `fs_offsets` | reload on a rescan or an interval | file system cache, sources |
| Kubernetes metadata (`common/k8s/src/middleware`) | stores of pods, deletions held back | watch, swap, acknowledge, validate, process | the API server, the tailer, lines |
| line middleware (`common/middleware`, `line_rules.rs`, `meta_rules.rs`, `k8s_line_rules.rs`) | rules | process, skip, redact, override | lines |
| journald (`common/journald`) | worker thread, bounded channel, waker | `poll_next`, restart, drop | the journal, the line middleware |
| batcher (`common/http/src/batch.rs`) | the batch being filled and its offsets | add a line, cut by size or by time | send tasks |
| HTTP client (`common/http/src/client.rs`) | none | `send` | limiter, offset store, retry directory, service |
| rate limiter (`common/http/src/limit.rs`) | an atomic counter | `get_slot`, drop | send tasks |
| retry directory (`common/http/src/retry.rs`) | files; an atomic count of bytes | `retry`, the stream of stored batches | HTTP client |
| leases (`common/k8s/src/lease.rs`, `feature_leader.rs`) | Kubernetes lease objects | list, claim, release, renew, replace | the agents of the other nodes |
| configuration (`common/config`) | two files, environment, command line | parse, merge, override, convert | everything, once at the start |
| Kubernetes events and statistics (`common/k8s/src/event_source.rs`, `metrics_stats_stream.rs`) | a watch, renewal tasks | wait, follow up a deletion, claim, log, report | leases, the API server, the line middleware |
| API tailer | child process | stream of lines | the line middleware |
| metrics | counters | increments | nothing |

What is hard about it: the batches of one file are sent concurrently and
confirmed in any order; a request may time out after the service accepted it;
the tailer is rebuilt inside a running process, which clears staged offsets; the
process may stop between any two steps, with a database, a retry directory and
the log files as all that is left; the limiter and the disk counter are atomics
that tasks race for; the merge loop of the offset list changes the list it
indexes; the events of files are held back and come in another order than the
changes they tell of; a line that waits for the metadata of its pod is read again
from the middle of a file that has been read on; the metadata come, go and are
replaced between two looks at them; a thread and a task hand lines over with a
waker that may be set too late.  `PROJECT.json` lists these hazards line by line,
with the properties that cover them.

What makes each component correct: the list loses no byte and invents none; the
store persists what the service accepted, all of it, and nothing else; the
limiter and the retry directory keep their limits and their counters, and starve
nobody; a stored batch is given on exactly once; the cache agrees with the disk
once all events are handled; lines are read whole, all of them, and once; a pod is
known as long as it has lines to read; the rules hold for what is sent; a source
that ranks higher decides a setting; a line is delivered unless an interruption
made the agent pass over it.

## The modules

| module | models | kind |
|---|---|---|
| `SpanVec` | `Span`, `SpanVec::insert` with its merge loop, `first_gap` | operators |
| `SpanVecSpec`, `SpanVecProofs` | a list under any sequence of inserts, next to the set of bytes inserted | checked, proved |
| `RateLimiter`, `HttpClientProofs` | the slots of `limit.rs` | checked, proved |
| `OffsetState`, `MCOffsetState`, `FileProgressProofs` | the offset store and the send tasks that use it | checked, proved |
| `RetryDisk`, `MCRetryDisk`, `HttpClientProofs` | `retry()` calls, the retry stream, the directory | checked, proved |
| `StoredOffsets` | the stored form of a list, its loading, where reading resumes | operators |
| `DeliveryPromise` | what the agent promises about lines, abstractly | abstract specification |
| `Delivery`, `MCDelivery`, `DeliveryProofs` | the way of the lines of one file through all parts, implementing `DeliveryPromise` | checked, proved, refinement |
| `FsCache` | the `FileSystem` cache: entries, descriptors, links, rules, initial offsets | operators |
| `FileWatching`, `MCFileWatching` | the disk, its events, the debouncer, the cache, the tailer's handling, reloads | checked |
| `TailedFile`, `FileProgressProofs` | one file of a pod between the write and the batch, with retried lines; `SpanVec::remove` | checked, proved |
| `PodMetadata` | the store of pods, its watch and runner, deletions held back | actions |
| `LineMiddleware` | the executor, `LineRules`, `K8sLineFilter`, `MetaRules`, `substitute` | operators |
| `PodLines`, `MCPodLines`, `PodLinesProofs` | lines of pods on their way through the middlewares, composed of the two | checked, proved |
| `JournalStream`, `JournalStreamProofs` | the libjournald stream: worker thread, channel, waker | checked, proved |
| `Configuration`, `MCConfiguration`, `ConfigurationProofs` | from the sources of the settings to the configuration the agent runs with | checked, proved |
| `LeaseRequests` | the pods and the outcomes of a request to the API server | constants |
| `StartupLease` | the pool of start-up leases: list, claim, release | actions |
| `FeatureLeader` | the lease of a feature, its election, the metrics reporter that renews it | actions |
| `EventStream` | the stream of Kubernetes events: the waiter and its watch, the follow-up of a deletion, the renewal tasks | actions |
| `AgentLeases`, `MCAgentLeases`, `AgentLeasesProofs` | pods from their start to their reports, composed of the three | checked, proved |

Operators named after a real one with a suffix (`ReserveBlindly`,
`HandleGcFreshKeys`...) are faulty variants: each is a plausible bug, and with it
in place of the operator it is named after, TLC finds the property that
`PROJECT.json` pairs it with violated.  No specification uses them.

**SpanVec.**  A list is a sequence of records `[start, end]`.  `InsertStep` is
one turn of the loop in `insert()`: the windows Pair and Triple of the code are
`PairStep` and `TripleStep`, and the result of `merge_right` carries the code's
three cases.  The cursor state says when the loop ended and whether the code
would have panicked.  `InsertRun` unrolls the loop with a fold.

**RateLimiter.**  One step for each atomic access: load, compare-and-exchange,
`fetch_sub` of the drop.  Sleeps are steps of unknown length.

**OffsetState.**  The channel, the fold's state (`doomed` is what of the open
write batch can outlive an event: deletions), the database, and for each send
task where it is in `Client::send`.  Each event handler is one action because
the loop handles one event at a time; a failing `db.write` is a second action of
Flush.  The lists of spans are an abstract type with an operation `Absorb`, which
may add a byte between two that were there, as `merge_right` does; the model
instance gives it the real insertion of `SpanVec`.  `Delete` and `Clear`
are handled by the loop but sent by nobody in `bin/`; they are kept, as the
store's interface has them.

**RetryDisk.**  `retry()` is split at its awaits and atomic accesses.  A file is
absent, partial, fresh (younger than the delay) or ripe.  A restart may come at
any point and computes the counter from the `.retry` files.  An I/O error may
hit every operation that returns one.  Left out: the branch without a limit,
`metadata()` failing on a file just written, files of other origin.

**StoredOffsets, Delivery.**  `Delivery` composes the parts around one file with
lines of two bytes.  `offsets` is the tailed file's list, `known` the entry in
`fs_offsets`, `slot` the batches from the batcher to the service and through the
retry directory, `mem` and `db` the offset store.  The channel of the store is
taken as immediate (`OffsetState` has it), the files of the retry directory as
atomic (`RetryDisk` has them).  `Reload` is what `RestartingTailer` does,
`Restart` what a stop by signal or crash and a start do: both are possible in
any state.  A line that cannot be written to the buffer of the batcher takes the
batch with it (`LoseBatch`, `batch.rs:153`); like a batch that is given up it is one
of the interruptions that the promise allows.

**FsCache, FileWatching.**  The operators of `FsCache` take the cache and the
disk as a call of `FileSystem` finds them and return the cache it leaves, with
the events it announces and its result; a call runs between two polls, so it is
atomic.  `FileWatching` has the world (files, directories and links made, written,
moved and unlinked, at any moment) and the agent: the watcher's channel, the
debouncer's queue per path, retries and resumes, the watch for a log directory
that is not there yet, `process()` and the tailer's `handle_event`, and the
restart of the tailer.  All changes of a history are taken to fall into one
second, which is the debouncer's unit, so any path may come first.  A file has
lines, and an event reads a bounded number of them.  A path may fail to be opened
(the event is tried again) or to be watched (`mod.rs:1263`: the entry is kept, nothing
leads to it and nothing is tried again).  The races in which the code
is known to lose track are named in the history `past` and in the cache's
`passedOver` and `mistaken`; the properties except just these paths.

**TailedFile.**  Every line is one character and a line feed, so a byte's offset
says what it is.  `held`, `buf` and `pos` are the buffered reader, the line being
assembled and the position of the file under it: `seek` moves the last alone
(`tailed_file.rs:852`).  Retry buckets keep the ticks until they are due.
`remove()` is modelled as it is, with the cut that takes a byte too many.  The
history `slips` notes what puts the reader out of step: a list that `remove()` left
with other bytes than it should, or out of order (`Exact`, `Reopened`); a seek over
held bytes; a line given back after half a line had moved the offsets.  The run
looks at the histories in which none has (`InStep`).  `out.unsent` are the lines
that `retry()` put off without sending an event.

**PodMetadata, LineMiddleware, PodLines.**  A pod may be deleted and made again
under its name; its incarnations are numbered and the number stands for the
metadata.  `watch` is the running watch with its own store, `store` the old one,
`runner` the state of `step_trampoline`; `waiting` is `pod_lookup` with
`pending_deletions`, keyed by `PodIdent`, which joins namespace and name and so
may be the same for two pods (`ident`).  A line is a record of its file, labels
and matches: what an expression matches is data.  `Validate`, `Process`, `Retry`
and `SendAsIs` are the branches of the closure in `lines_stream`; the task that
keeps the store runs between them.

**JournalStream.**  Records are numbered as they are written.  `poll_next` looks
into the channel and leaves its waker in two steps.  Where the journal stands
after `seek(Tail)` is the library's business and left open between the two
answers the tests rely on.

**Configuration.**  A setting is a name, its value one of a few: the default of
its type, the default of the agent, or one of two others.  A YAML file has settings
to begin with (`Bases`); `Write` lets the user
say something in any source in any order, `Parse`, `Override` and `Convert` are
the stages of `Config::new_from_options`, and a broken file, a missing required
setting or a stop end a start.  Entries of lists are told apart by their commas
only: `Escaped` has the parts with commas behind a backslash, which `with_csv`
joins, and which it splits when it comes by a second time, as it does for the
lists of deprecated variables.  A section of rules in the YAML file has both its lists
or the file is refused (`RulesWhole`).

**StartupLease, FeatureLeader, EventStream, AgentLeases.**  Each request to the API server is
one action with an outcome: answered, refused, or done with the answer lost.
`startOption` is `config.startup`; `agent[a]` follows
`check_startup_lease_status` and the start in `_main`, `elector[a]` follows
`FeatureLeader` and the loops that use it.  A replace is conditional on the
version read by `take_feature_leader_lease` (`current`), a patch on nothing.
Time is abstracted: a lease may expire at any moment after it was taken, since a
pod may be slower than any lease, and never without having been taken: who takes
one writes `renew_time` too (`lease.rs:187`, `:196`), without which
`is_lease_expired` says no.  A lease without a spec, which no manifest under `k8s/`
installs, would be left alone like one that cannot be read.  `AgentLeases` puts the first try for the
leadership between the claim and the release of the start-up lease, as `_main`
does.  A request of a process that has died is taken to be over.

`stream[a]` follows the event stream: `looking` is the read at the head of
`waiter_stream`, `opening` and `watching` its watch before and after the list,
`checking`, `claiming` and `deciding` are `check_for_leader`, `logging` is
`active_stream`.  `tasks[a]` counts the renewal tasks; the code starts one when a
claim succeeds and another when the waiter then finds its own name, and none ends
with its stream.  A deletion (`Delete`) is told to the pods that watch at that
moment; the DaemonSet makes up for it under a name not used before.  `past`
records what the properties excuse: a deletion nobody heard of or followed up, a
lease that expired under a pod that was there, and a lease written between the
two reads of a claim.  `feature` is the one of the two users that is switched on:
each has a lease of its own, so that they meet in nothing but the start.

## The runs

| run | instance | what it shows |
|---|---|---|
| `span_vec` | spans of a file of 9 bytes | in every list that inserts can build: `StartsAscend`; `CoversWhatWasInserted`: no byte is forgotten, and none invented but in gaps of one |
| `rate_limiter` | 3 tasks, 2 slots, 2 calls each | `SlotsCountHolders`: the counter is the number of holders; `EveryAskServed` |
| `offset_state` | 1 file, 2 tasks, a batch with a line of two bytes and one with two empty lines behind a gap of one byte, 2 events queued, 2 keys, a restart, a failed write | `PersistedOnlyAccepted`: what is stored was accepted, or is a single byte between two that were; `MemoryCoversDisk`: a flush never takes progress back while the process lives; `ConfirmedIsPersisted` |
| `retry_disk` | 3 batches (sizes 2, 1, 1), limit 3, an error, a restart | `UsageAccounted`, `StoredWithinLimit`, `OnlyWholeFilesRead`, `HandedOnce`, `StoredIsHandedOver` |
| `delivery` | 3 lines, 2 batches in flight, a failure, a reload, a restart | `PromiseKept`: implements `DeliveryPromise`; `DuplicatesHaveCauses`; `EveryLineSettled` |
| `agent_leases` | 2 pods; metrics: 2 start-up leases, every start option, 2 failed requests, 2 crashes; events: no start-up lease, 2 deletions, 1 failure, 1 crash | `HeldOnlyWhileStarting`: no start-up lease is left behind without a cause; `EveryAgentStarts`; `OneLeaderInTheEnd`: two leaders need renewals that overlap again and again; `ReportingGoesOn`; `OneEventLogger`: two pods log events only after a late renewal or an overtaken claim; `EventsGoOn`: a deleted leader is succeeded |
| `file_watching` | 6 scenarios on a tree of 9 paths, 5 or 6 changes each | at rest the cache agrees with the disk (`CacheAgreesWithDisk`) and all was sent (`EveryLineRead`); `RepeatsHaveCauses`; `SettlesDown` |
| `retried_lines` | 4 lines, one excluded, 2 tries, metadata that come and go, a failing read | `LinesWhole`, `NothingLost`, `RepeatsHaveCauses` |
| `pod_lines` | 2 pods, 2 incarnations, 3 settings, 6 texts, 2 failures of the watch | `KeptWhileLogged`, `LivePodsKnown` about the store; `RulesApplied`, `PanicsHaveCauses`, `ExcludedPodsSilent` about the lines; `WatchComesBack` |
| `pod_lines_redaction` | the same with fewer changes | violated: `RedactionKeepsOrder`, the finding below |
| `configuration` | 3 settings said anywhere beside any pair of files, a setting of each kind | `FirstSourceCounts`, `ListsAddUp` |
| `journal_stream` | 4 records, one without a message, a channel of 1, 2 failures | `InOrder`, `PassedOverHaveCauses`, `StreamGoesOn`, `DropEnds` |

Types are checked by proof: `TypeOK` of `RateLimiter`, `OffsetState` and
`AgentLeases` are theorems, and the invariants of the other proofs contain them.

**Bounds.**  Nine bytes hold four separate spans, so a new span can meet
several neighbours, bridge a gap on each side and lie beyond either end: all
arms of the merge loop but the one for duplicates (`span.rs:403`) are taken, and
that one is reached by no list of nine bytes.  Two tasks are
enough for a race over a counter, and with more tasks than slots a task has to
wait; the proofs remove the bound for the safety part.  Two batches in flight
are the least for which confirmations can be out of order; three lines leave a
hole in the middle.  `MaxAttempts` of the retry directory is 1 where the code has
10: one lost exchange is enough to reach the branch that gives up; for the
start-up leases it is 2 where the code has 3, so that one attempt is counted
before the last.  Two pods are enough for a race for a lease and two lost starts
for a pool of two leases of which none is left; a third pod would only repeat
the role of one of them.  With the stream of events on, the start-up leases are
left out (`StartsAtOnce`, a constraint on the initial states only: `feature` and
`startOption` never change), since `FeatureLeader` meets them in nothing but the
order of the start.  One deletion moves the leadership, the second hits the
successor or a pod that follows up the first; the third name is the successor of
the first pod.  With two failures both properties were checked once, on 540
thousand states.

The scenarios of `file_watching` each take one family of changes as far as it
goes: a file rotated and made again (`Rotation`), directories that come, fill and
go (`Directories`), a link whose target and itself change (`Links`), a link to a
directory that comes and goes (`DirLinks`), a log directory whose parent is missing
too (`MissingLogs`), files that cannot be opened or watched (`Faults`, checked once
with a fifth change too, on 350 thousand states), and restarts (`Reloads`).  A link to
a directory is never there when a `FileSystem` is built: the code then walks through
it as well (`cache/mod.rs:454`) and the files below get names of their own by it, which the
paths of the model have no place for.  `BatchSize` 2 makes the debouncer
look for new events in the middle of old ones; `MaxRead` 1 with two lines a file
makes an event leave something behind; `RetryLimit` 0 gives up at the second
failure.  Four lines let one be retried between others that are not; `ReadLimit` 2
stops the reading after each line.  A line fewer is written for each of a failing
read, half a line that is read, and metadata that change twice (`FewerLines`).  The
failure forgets all that came before, so that what follows it is another history
without one, from a file that is longer at its start; half a line needs only one
before it and one after it to be told from a whole one, and two lines that share a
bucket are enough for metadata that come and go.  Each of them, and any two
together, still has two lines or more to meet.  The same run was made once without
the last two limits, on 1.3 million states.  Two incarnations are the least for
which a deletion may hit the wrong one, two containers for which acknowledgements
may come apart, and two pods of one `PodIdent` for which they may be mixed up.  Two
failures of the watch are needed: the store that the second replaces may be one
that was swapped in, by the clock, before its list had come, and then nothing is
known until the next list (this is why `KeptWhileLogged` has its last exception;
the attempt at the proof found it, and with one failure TLC cannot).  A channel of
one line is full after the first.
`MaxFailures`, `MaxErrors`, `MaxCrashes`, `MaxReloads`, `MaxRestarts`, `MaxQueued`,
`MaxKeys`, `MaxAsks`, `MaxFlips`, `MaxFaults`, `MaxChanges`, `MaxGens`, `MaxFiles`,
`MaxRecords` and `MaxGiven` bound how often something may happen, not what happens
then.  `LineCost` counts a line that is read as changes of the cluster, and
`FewerChanges` leaves fewer of them where settings differ only in the rules or
the watch fails twice: the product of lines and changes is cut, each by itself
runs its whole length.

**Deadlock** is checked where it means something: `SpanVecSpec`,
`OffsetState` and `Configuration` can always go on.  In the other runs the
bounded work may be done and the system rests, or the agent has panicked; there
the liveness properties say that nobody rests too early.

**Fairness.**  The runtime polls every task that is ready and every timer fires:
`WF` of a limiter step of each task (requests end, they have a timeout), of the
store's event loop, of the retry stream (`retry_driver` is an endless loop over
it) and of ageing, of reading and of the progress of each batch; of the steps of
each pod, which the DaemonSet starts again, and of the expiry of a lease that no
pod renews; of each pod's renewal tasks, which are tasks of their own, and of the
DaemonSet's replacement of a pod; of the journal's thread and of the polls of its stream, which
happen only when it is woken.  `FileWatching`, `TailedFile` and `PodLines` state
weak fairness of the agent's work as `[]<>~Busy \/ []<><<A>>_vars`, that is with
the condition under which the work is enabled written out.  The single thread
polls all parts, so fairness is stated of their disjunction.
Nothing obliges anyone to write, to start something new, to fail, or to restart.

## Where documentation and code part

`pod_lines_redaction`: the comment at `src/common/middleware/src/line_rules.rs:88`
says that order is guaranteed, so a match need only be merged with the first
range it overlaps.  A match of a later pattern that bridges two ranges leaves
them out of order; `redact()` then cuts a slice that ends before it begins and
panics, and after its restart the agent reads the same line again.  One of the two
may be of the same pattern: after a first pattern with the match (3, 5) the
matches (0, 2), (2, 4) of a second, which touch, give (0, 4), (3, 5).  The first
form of `PanicsHaveCauses` wanted two earlier patterns; no text of the run went
against it, the attempt at its proof did, and the run has such a text now.

## What the models showed and no run repeats

Writing the modules and their properties brought up the following; each is in
the model as it is in the code, and a property that names exceptions names
these.

Offsets and delivery:
* when the later of two batches in flight is confirmed and the process stops, the
  earlier lines are skipped after the restart, because a list with one span is
  extended to the start of the file (`state.rs:319`; `docs/KUBERNETES.md:208` says
  the stored offsets are there to avoid skipping);
* the store does not load the database at its start (`state.rs:245`), so a flush of
  an old batch from the retry directory replaces the stored progress by less;
* inserting in front of the list merges with the first element only
  (`span.rs:359`); an overlapping list is stored in a form that cannot be loaded,
  and then no file has a stored offset;
* `remove()` takes one byte too many when it cuts the right of a span
  (`span.rs:300`; its test is switched off, `span.rs:713`);
* partial files that a crash left in the retry directory count against no limit
  and stay for ever (`retry.rs:254`, `docs/README.md:219`).

Files:
* a link is taken off the list of links only while its target is there
  (`cache/mod.rs:1328`): when a dangling link was removed, a file has taken its name
  and the target comes back, `register` finds a file in its list and panics
  (`:1278`);
* with the default lookback every new entry starts at its length at that moment,
  also a file made while the agent runs: the lines written before its creation is
  handled are never read (`cache/mod.rs:914`; `docs/README.md:322` says that only
  lines from before the restart are ignored);
* a rename leaves the old path leading to the entry that moved
  (`cache/mod.rs:1548`);
* a link to a directory that is made while the agent runs has everything below the
  directory tracked, and no line of it sent by way of the link: the link gives its
  own path only, and only if it is no directory (`cache/mod.rs:994`), so the lines of
  a file that passes under no other name are sent, under the name of the link, only
  between the removal of the link and its event; at a start the walk through the link finds the same files
  under names of their own (`:454`); a link to a directory above itself would
  have `resolve_valid_paths_helper` call itself without end (`:1004`);
* a seek for a retried line moves the file under the buffered reader and leaves
  what it holds (`tailed_file.rs:852`), the length to read falls below zero for a
  gap in the middle (`:750`), and half a line moves no offset (`:1010`), so that after
  one the offsets are a byte behind and a line given back to be read again starts
  and ends a byte too early: a piece of a line may be sent as a line (the attempt at
  a proof of `LinesWhole` found the last of these);
* the comment at `tailed_file.rs:590` says that `retry()` leaves out the event for a
  line only if one is in flight already.  What it looks at is whether the last
  bucket that is due was given back as it is now (`:591`), and a `commit()` of
  another line of the bucket changes it too (`:691`).  Two lines wait in one bucket
  and are given back together; the metadata come, the first is sent and committed;
  the metadata go again (the pod was deleted, say), and the second is put off in a
  new bucket without an event.  No event is in flight, so nothing reads it until the
  file is written again, which for a pod that is gone is never, where
  `docs/KUBERNETES.md:308` has the delay as the time to wait before the lines are
  sent.  `NothingLost` excepts these lines (`out.unsent`) and no other.  An earlier
  form of the model took every removal from a bucket for a slip of `remove()` and
  hid this; the attempt at a proof of the invariants found it;
* a line that is sent as it is when its tries are used up passes none of the
  rules (`_main.rs:698`).

Kubernetes:
* all agents that list the start-up leases at the same time claim the same one,
  as the claim is an unconditional patch (`lease.rs:59`; `docs/README.md:340` says
  that the leases limit the agents that start at one time);
* the comment at `feature_leader.rs:94` relies on an outdated version to settle a
  race, but the lease is read once more before it is replaced (`:126`): the loser
  takes a lease that is held, and the winner stops reporting at its first
  renewal.  `OneLeaderInTheEnd` holds only under its condition, and a reporter
  whose renewal fails once never tries again, so `ReportingGoesOn` excepts the
  cluster in which all have failed;
* the pods that wait to log the events act on deletions only (`event_source.rs:297`):
  a leader deleted between the read of the lease and the list of the watch, or
  while another deletion is followed up, has no successor, and when every first
  claim fails nobody logs (`past.missed` and the last case of `EventsGoOn`);
* a pod goes on logging events when its renewal task has ended (`:519`), and a pod
  that starts takes its lease and logs them too; a stream that restarts after its
  lease was taken leaves a task behind that may patch the lease back to a pod that
  only watches, and then nobody logs (found with two failures);
* acknowledgements are compared by container name alone (`metadata.rs:295`), so
  one of a sibling or of an earlier incarnation lets a deletion go, which may
  remove a pod that has been made again;
* a new store is swapped in by the clock, whether it has its list or not
  (`runner.rs:75`);
* labels may be read of another incarnation, or not at all, when the store changes
  between validation and processing (`metadata.rs:446`);
* the inclusion by labels passes lines that have no such label, and of overrides
  of labels that refer to each other the order of a hash map decides;
* an unknown `${Var}` is left as it is where `config/src/lib.rs:541` says it
  becomes empty, a nested default is not expanded, and a template that a
  variable makes invalid panics at a line (`meta_rules.rs:246`).

Configuration:
* `MZ_SYSTEMD_JOURNAL_TAILER` does nothing unless some source has a journald
  section (`argv.rs:345`, `docs/README.md:208`), and the former file's switch
  nothing unless it gives paths too (`properties.rs:270`);
* a value of the YAML file that is a default, zero or false does not replace one
  of the former agent's file (`raw.rs:126`, `:172`); parameters are replaced as a
  whole (`raw.rs:196`); `tailer_cmd` and `tailer_args` are not merged; a broken
  YAML file is passed over when the other file is there; a deprecated variable of
  the environment goes before the command line;
* a deprecated list is split at its commas as it is read (`argv.rs:469`) and again
  as it is merged (`:310`, `:494`): an entry that is alone and has an escaped comma
  falls apart, so a rule with `{1\,3}` becomes two others;
* a section of rules in the YAML file with only one of `glob` and `regex` makes the whole
  file unreadable (`raw.rs:371`, no default), which the former agent's file hides
  if it is there.

Journald:
* a line sent, and woken for, between the look into the channel and the
  registration of the waker leaves the stream asleep (`stream.rs:161-181`; the
  comment at `:129` says a race is prevented); a panic of the thread as it opens
  the journal wakes nobody; the drop joins a thread that may wait for space in the
  channel the dropping task no longer empties (`:147`); between two threads the
  last record may be read again and others passed over.

## What is proved

TLAPS checks the theorems for every value of the constants; what they assume is
in the named `ASSUME` of the module they are about, and TLC evaluates it on the
instances of the runs.

* `HttpClientProofs`, of the rate limiter: type correctness; the counter equals the number of slot
  holders (`SlotsNeverDrift`); never more holders than the limit (`LimitHolds`).
  The invariant adds that a task about to exchange believes in a value below the
  limit; the exchange succeeds only if that value is still the counter.
* `FileProgressProofs`, of the offset store: type correctness; a byte that the database claims
  is one of an accepted batch, or a single one between two such (`OnlyAcceptedIsPersisted`); the working spans cover what is
  stored unless the file was forgotten (`FlushesOnlyAdd`).  The first needs a
  chain: keys not yet handed out hold nothing, a task's key stands for its own
  batch or for nothing, a queued flush is of an accepted batch, and so the
  working spans hold nothing else either.  Stale keys are harmless because the
  slot map never hands out a key twice in one run of the process: this is
  `nextKey`, and `HandleGcFreshKeys` shows what would happen otherwise.
  The assumption on the spans is that a merge of two lists loses no byte and adds
  only single bytes between two of theirs: the real insertion bridges gaps of one
  byte (`merge_right`), and an empty line is one byte, its line feed, so an empty
  line that nobody accepted can be claimed with its neighbours.  `InsertAllBridgesOnly`
  proves the assumption of the real operators, and bridges do not pile up over
  many merges (`BridgingStays`).  In a file without empty lines nothing is bridged
  at all (`AbsorbAddsNothing` in `SpanVecProofs`).
* `FileProgressProofs`, of the tailed file: what is sent is a whole line
  (`LinesAreWhole`) and a line is sent again for a named cause only
  (`RepeatsAreCaused`), for any number of lines, retries, delays, failing reads and
  changes of the metadata.  Of a state that is in step `TailInv` says where the
  reader stands (`Reader`): the bytes it holds are those before its position in the
  file, without a gap, and what is in the buffer is the first byte of the line it is
  in, or a line that is done.  Until half a line is read, its offset is where a line
  starts and everything before it is in the offsets, and the lists of the offsets
  and of the buckets are made of whole lines, in order and apart (`OnALine`).  After
  half a line the offsets may be behind the reader, but they are one span from 0
  (`Straight`), and since nothing can be given back from there on without a slip, it
  only goes straight on.  For the repeats, a line that was sent is in the offsets and
  in no bucket (`SentOnce`), and the stream ends before it comes to a line that was
  read before (`Ahead`), unless its target fell below zero (`out.over`).  What this
  rests on are lemmas about the operators: what removing a line leaves of a tidy list
  when it is exact, and that inserting one adds just its two bytes (`InsertsLine`);
  what `retry()`, `commit()` and the buckets that are due make of the buckets and the
  offsets; what `read_until` takes of the bytes that run on (`AvailableRuns`).  The
  proof needs the slips of `remove()` named list by list, that is why `Exact` and
  `Reopened` look at each of them; before, a slip in one list could make up for one
  in another.
* `FileProgressProofs`, of the tailed file again: no complete line is left behind
  (`NothingIsLost`), for every delay but 0.  When nothing is queued and no retry is on
  its way, a line was sent, was dropped by a rule, or `retry()` put it off without an
  event.  `LostInv`, over `TailInv`, says what makes that so.  For every line that
  waits in a bucket an event is on its way that comes no earlier than the bucket is
  due; and a bucket filled at this very time stands after all the others
  (`OnTheWay`).  A line that is in the offsets and not yet sent is in a bucket, and
  the last bucket that has it has not given it back yet, so the stream that the event
  opens comes to it (`ToBeRead`, `Found`).  And while the reader is short of the end
  of the file, a read is queued or going on.  The order of the buckets is needed since
  `retry()` takes a line out of the buckets that are due and puts it behind the
  others; the time of the event, since a bucket is joined to one that was there before
  (`PutOnTheWay`).  With a delay of 0 a bucket is due at once and the order says
  nothing, so that case is left to TLC.
* `SpanVecProofs`: for files of any length the list stays strictly ordered by start
  (`ListStaysOrdered`) and covers every byte inserted and no other but gaps of one
  (`MergingKeepsBytes`).  `Turning` is the invariant of the merge loop: where the
  cursor stands, which of the windows it looks through are in order, and that the
  bytes of the list with those of the element at hand are what they were, up to
  gaps of one.  Every turn takes an element out of the list or moves the cursor to
  an end, so the turns that `InsertRun` unrolls are enough (`LoopTurns`).  The loop
  is a fold over the numbers of its turns: its value is shown to exist turn by turn,
  and what holds for all turns follows from the smallest number for which it would
  not (`SmallestNumber`), which takes the place of an induction.
* `DeliveryProofs`: the composition implements `DeliveryPromise` for any number of
  lines, batches, failures, reloads and restarts (`PromiseIsKept`), and a line is
  delivered again only for a failed request or a restart (`RepeatsHaveCauses`).
  `DeliveryInv` says that the reader is at one place: the list of offsets is empty or
  one span from 0 to `p`, and what `fs_offsets` has for the file is a span that ends
  at the same `p` (`ReaderAt`); so a reload resumes where the reader stood
  (`ReloadKeepsPlace`).  The place is within the file, which after a restart needs
  that the stored words are: lists that cover only bytes of the file are encoded as
  words within it, and loading makes one span of any such words (`EncodeWithin`,
  `LoadedIsOneSpan`).  For the repeats the copies of a line are counted wherever
  they may come from: deliveries, batches that wait, the batcher, the file ahead of
  the reader (`Copies`).  A step moves a copy from one to another; only a failure
  that follows an acceptance and a restart, which puts the reader back, add one.
  For the refinement, each action is a step of `DeliveryPromise` or keeps the status
  of every line: the lines of a batch that moves stay in hand, those of one that is
  confirmed have been delivered, and a line that is written is not yet passed over
  because the next line to read is at most the one after the last.
* `HttpClientProofs`, of the retry directory: the stream reads whole files only (`WholeFilesOnly`), gives
  no batch on twice (`GivenOnce`), the counter of used bytes is what the files and
  the reservations take (`CounterNeverDrifts`), and the stored files never take more
  than the limit (`DirectoryWithinLimit`).  `FileLife` follows one file: it is partial
  exactly while its call is under way, whole before it is renamed, held by the
  stream only while it is there, and once given on it is gone for good.  Every
  step moves one file, so the three parts (calls, stream, restarts) are one lemma
  each.  The sums are folds of the library; the lemmas on them say what a sum
  becomes when one batch enters or leaves the set, for any finite set of batches.
* `AgentLeasesProofs`: type correctness; a start-up lease is held only by an
  agent between its claim and its release, or it is stray (`NoLeaseKept`), for
  any number of pods, leases, failed requests, crashes and deletions.  Given the
  types the property is inductive by itself.  `EventsLoggedOnce` is
  `OneEventLogger`: the pod that logs, or whose task is about to patch, has the
  lease (`LoggerHolds`).  That nobody takes it away needs two more parts: a claim
  whose version is current is good (`ClaimsAreGood`), and a good claim meets a lease
  without a holder, or one that has expired under a pod that is gone (`NotExpired`,
  which rests on names that are not used again).
* `PodLinesProofs`: `LoggedPodsStayKnown`, `SettledStoreIsTrue`,
  `ExcludedPodsStaySilent`, `RedactionIsExact` and `PanicsAreExplained` for any
  pods, containers, rules, texts, incarnations and failures.  The first two rest on `PodInv`: what a watch
  will tell is newer than all it told (`EventsAreNews`), the store has the latest of
  what was seen (`StoreIsLatest`), of the containers that were acknowledged no file
  is left (`HeldForFiles`), both stores have the pods that are logged
  (`StoreHasLogged`, `OldHasLogged`), and a pod that lives is in the store or about
  to be told (`LiveIsTold`).  It is inductive under the
  actions of the middleware and the cluster (`PodMetadata`), and lines
  leave these variables alone.  The third adds to it that lines come
  from files the tailer knew: what a line is enriched with is what the filter
  sees.  The last two are about the loop of `redact()`.  Whatever was placed so far,
  the list has the bytes of the matches placed and no others (`SameBytes`), and each
  range is made of matches that lie close (`Clusters`): a match that touches a range
  touches one of these (`TouchesMember`).  So if the matches placed before have no
  two that are apart and that the next one bridges, merging it with the first range
  it overlaps keeps the order (`Holds`, for each of the three branches).  `Stands`
  carries this through the two folds, over the matches of a pattern and over the
  patterns; their values exist step by step (`FoldsExist`), and what holds along them
  follows from the smallest number for which it would not (`LeastNumber`).  What the
  matches are is the library's business: `MatchesInOrder` assumes what `find_iter`
  guarantees, matches in order of which none begins before the end of another.
* `JournalStreamProofs`: lines leave in order (`GivenInOrder`), a record being
  repeated, right after itself, only if a thread that took over read it again, and are passed over
  for named causes only (`NothingLostOnTheWay`), for any capacity.  The invariant
  speaks of `given \o channel`, the lines sent, which a poll leaves as it is; all of
  them are behind what the thread has read, but for the one record that a thread
  that takes over may read again; and whoever joins the thread has emptied its
  channel (`EmptiedBeforeJoin`).

* `ConfigurationProofs`: the agent runs with the value of the source that ranks
  first (`FirstSourceDecides`), and the lists of options and files are in force
  together (`ListsStandTogether`), for any settings in any sources.  The invariant
  is small: what is written is worded as it must be (`SaidInv`), and what each stage
  has come to is what the program makes of the sources as they are (`StageInv`); a
  step other than the user's leaves the sources alone, and so all that is made of
  them (`SameLoaded`, `SameOverridden`).  The rest is about the operators.  The fold
  over the files has two members at most (`TwoMerged`), so what is loaded is one of
  four things (`LoadedCases`).  For each class of settings (plain values, the
  start-up option, the parameters, the journald section, lists, directories, rules)
  a lemma says what the merge of the files leaves of it, and another what the
  options and the conversion make of that.  Assumed is that a switch has a truth
  value, a list a list, and that a YAML file has directories, without which it
  cannot be read.  The attempt at the proof found the properties too general, and
  the instance of the run too narrow to show it: the settings the YAML file has to
  begin with count against the former file as much as those added later, and the
  former file switches the tailer only where it has paths for the journal.  Both
  properties now say so, of more names than before (the start-up option, the
  expressions of the rules, the paths of the journal).

Left to TLC: liveness and `ENABLED` (the provers have no fairness); `NothingLost`
of `TailedFile` for a delay of 0; and `FileWatching`, whose cache is built with
recursive operators.

## Plan

All of the first plan is modelled: the core, the tailed file, the file events and
the cache, the metadata, the journald stream, and the configuration, with the
proofs above.  What is left, in the order of its worth:

1. `iter_gaps` and reads past 8 KB in `TailedFile`: refills of the buffered reader
   between two seeks.
2. A file that shrinks in `TailedFile`: its lines are known by their places, so a
   second content needs a second numbering, in the invariant of the proofs too.
3. The times from which the event stream logs (`latest_event_time`, the time of the
   deletion): which events are logged twice or by nobody after a restart.
4. The decoder of journalctl's output and the API tailer: a child process that
   ends, and what of its last line is kept.
5. `NothingLost` of `TailedFile` for a delay of 0 as a theorem.

## Not modelled

* Metrics: nothing in the agent reads the counters back.
* API tailer, journalctl decoder: process handling and parsing.
* All conversions of API objects to lines, and the times from which events are
  logged.
* In modules that are there: a file that shrinks in `TailedFile` (the branch of
  `tail()` for it, `tailed_file.rs:859-887`, is there, and is taken when the offset is
  past the end for another reason), and lines of other lengths than two bytes, also in
  `Delivery`; `iter_gaps`; files of 8 KB or more, read errors other
  than a missing file, and the plain `TailedFile<LineBuilder>`; the retry directory
  without a limit, with a failing `metadata()`, or with files of other origin; what
  a glob or a regular expression matches; how the value of a setting is parsed.
* RocksDB, HTTP and TLS, inotify and the polling of FUSE mounts, the journal
  library, the Kubernetes API itself: libraries and services, taken at their
  interface.
* In `FileWatching`: a link to a directory that is there when the cache is built, and
  one that leads above itself.
* Formats of lines and requests, Windows service glue, installers.
