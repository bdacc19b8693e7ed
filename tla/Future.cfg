SPECIFICATION FutureFairSpec
INVARIANTS FreedOnce
PROPERTIES RefinesAbstractFuture GetReturns
\* Both handles are gone in the end; get() on a dropped promise waits for ever.
CHECK_DEADLOCK FALSE
