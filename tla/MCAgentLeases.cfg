\* Two pods at a time.  With the metrics: two start-up leases, two failed
\* requests and two crashes, at any moment.  With the events: no start-up leases,
\* one failed request or watch, one crash, and two deletions, the first with a
\* successor.  Any lease may expire under its holder.  Reporters end for good when
\* they lose the lease, so the system may stop.
CONSTANTS
    a1 = a1
    a2 = a2
    a3 = a3
    Agents = {a1, a2, a3}
    FirstPods <- MCFirstPods
    NoOne = NoOne
    LeaseCount = 2
    MaxAttempts = 2
    MaxErrors <- MCMaxErrors
    MaxCrashes <- MCMaxCrashes
    MaxDeletions <- MCMaxDeletions
CONSTRAINT StartsAtOnce
CHECK_DEADLOCK FALSE
SPECIFICATION Spec
INVARIANTS HeldOnlyWhileStarting OneEventLogger
PROPERTIES EveryAgentStarts OneLeaderInTheEnd ReportingGoesOn EventsGoOn
