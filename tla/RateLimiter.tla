------------------------------ MODULE RateLimiter ------------------------------
(***************************************************************************)
(* InMemoryRateLimiter (app/core/rate_limit.py): the requests of one key, a   *)
(* client's address and a type of endpoint, of which at most PerMinute pass   *)
(* in a minute and PerHour in an hour.  The list of timestamps of the key is  *)
(* the admissions that kept names: filtering it keeps the order.  is_allowed  *)
(* has no await, so a request is one step.  The clock does not step back.     *)
(***************************************************************************)
EXTENDS Integers, Sequences, FiniteSets

CONSTANTS
    PerMinute, PerHour,        \* the RateLimitConfig of the endpoint
    Second, Minute, Hour,      \* in ticks of the clock: time.time() has fractions
    CleanupInterval,
    MaxNow                     \* bound of the clock

ASSUME LimitAssumption ==
    /\ PerMinute \in Nat \ {0} /\ PerHour \in Nat \ {0}
    /\ Second \in Nat \ {0} /\ Minute \in Nat \ {0} /\ Hour \in Nat
    /\ Minute <= Hour
    /\ CleanupInterval \in Nat /\ MaxNow \in Nat

VARIABLES
    now,
    admitted,      \* history: the times of the requests that passed
    kept,          \* the admissions whose timestamps are in the list
    lastCleanup,
    refusal,       \* why the last request was refused, "none" if it passed
    refusedAt, retryAfter   \* when, and the Retry-After header in ticks

vars == <<now, admitted, kept, lastCleanup, refusal, refusedAt, retryAfter>>

TypeOK ==
    /\ now \in Nat /\ lastCleanup \in Nat /\ refusedAt \in Nat
    /\ admitted \in Seq(Nat)
    /\ kept \subseteq DOMAIN admitted
    /\ refusal \in {"none", "minute", "hour"}
    /\ retryAfter \in Nat

Init ==
    /\ now = 0 /\ admitted = <<>> /\ kept = {} /\ lastCleanup = 0
    /\ refusal = "none" /\ refusedAt = 0 /\ retryAfter = 0

-----------------------------------------------------------------------------
\* Mutant of Cleaned: what is older than a minute is removed.
CleanedByMinute == IF now - lastCleanup < CleanupInterval THEN kept
                   ELSE {i \in kept : admitted[i] > now - Minute}

\* _cleanup_old_entries, for this key.
Cleaned == IF now - lastCleanup < CleanupInterval THEN kept
           ELSE {i \in kept : admitted[i] > now - Hour}

NoteCleanup == lastCleanup' = IF now - lastCleanup < CleanupInterval THEN lastCleanup ELSE now

\* The timestamps within a window.
Within(list, window) == {i \in list : admitted[i] > now - window}

\* timestamps[0] and timestamps[-1].
Oldest(list) == CHOOSE i \in list : \A j \in list : i <= j
Newest(list) == CHOOSE i \in list : \A j \in list : j <= i

MinuteFull == Cardinality(Within(Cleaned, Minute)) >= PerMinute
HourFull   == Cardinality(Within(Cleaned, Hour)) >= PerHour

\* int(): whole seconds.
Truncated(ticks) == ticks - (ticks % Second)

Refused(reason, wait) ==
    /\ refusal' = reason
    /\ refusedAt' = now
    /\ retryAfter' = Truncated(wait)
    /\ kept' = Cleaned
    /\ NoteCleanup
    /\ UNCHANGED <<now, admitted>>

\* Mutant of RefuseMinute: the oldest timestamp of the list, as for the hour.
RefuseMinuteOldest ==
    /\ MinuteFull
    /\ Refused("minute", Minute - (now - admitted[Oldest(Cleaned)]))

\* is_allowed, the three outcomes.
RefuseMinute ==
    /\ MinuteFull
    /\ Refused("minute", Minute - (now - admitted[Newest(Cleaned)]))

\* Mutant of RefuseHour: the wait until a minute has passed.
RefuseHourMinute ==
    /\ ~MinuteFull /\ HourFull
    /\ Refused("hour", Minute)

RefuseHour ==
    /\ ~MinuteFull /\ HourFull
    /\ Refused("hour", Hour - (now - admitted[Oldest(Cleaned)]))

\* Mutant of Admit: the list is not trimmed.
AdmitUntrimmed ==
    /\ ~MinuteFull /\ ~HourFull
    /\ admitted' = Append(admitted, now)
    /\ kept' = Cleaned \union {Len(admitted) + 1}
    /\ refusal' = "none"
    /\ NoteCleanup
    /\ UNCHANGED <<now, refusedAt, retryAfter>>

Admit ==
    /\ ~MinuteFull /\ ~HourFull
    /\ admitted' = Append(admitted, now)
    /\ kept' = {i \in Cleaned \union {Len(admitted) + 1} : admitted'[i] > now - Hour}
    /\ refusal' = "none"
    /\ NoteCleanup
    /\ UNCHANGED <<now, refusedAt, retryAfter>>

\* A request of another key: the cleanup is of all keys.
OtherKey ==
    /\ kept' = Cleaned
    /\ NoteCleanup
    /\ UNCHANGED <<now, admitted, refusal, refusedAt, retryAfter>>

Tick ==
    /\ now < MaxNow
    /\ now' = now + 1
    /\ UNCHANGED <<admitted, kept, lastCleanup, refusal, refusedAt, retryAfter>>

Next == RefuseMinute \/ RefuseHour \/ Admit \/ OtherKey \/ Tick

Spec == Init /\ [][Next]_vars

-----------------------------------------------------------------------------
(* Properties.                                                                *)

Spread(limit, window) ==
    \A i \in DOMAIN admitted : i + limit \in DOMAIN admitted => admitted[i + limit] - admitted[i] >= window

\* No window of a minute, wherever it begins, has more than PerMinute admissions:
\* from an admission to the PerMinute-th after it a minute passes, though trimming
\* and the cleanup forget timestamps in between.
MinuteLimit == Spread(PerMinute, Minute)

\* Nor has a window of an hour more than PerHour.
HourLimit == Spread(PerHour, Hour)

\* Both limits of is_allowed hold, for windows that begin anywhere.
WindowLimits == MinuteLimit /\ HourLimit

\* "Trim old entries to prevent memory growth": a key never keeps more than
\* PerHour timestamps, however long requests go on and whenever the last cleanup
\* was.
KeptBounded == IsFiniteSet(kept) /\ Cardinality(kept) <= PerHour

\* A client that waits a second longer than Retry-After says, and is served by
\* nobody else meanwhile, is not refused for the same reason: the oldest timestamp
\* of the list is within the hour whenever the hour is full.
RetryAfterSuffices ==
    (refusal # "none" /\ now >= refusedAt + retryAfter + Second) =>
        /\ refusal = "minute" => ~MinuteFull
        /\ refusal = "hour" => ~HourFull
=============================================================================
