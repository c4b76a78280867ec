------------------------------ MODULE Lockout -------------------------------
(***************************************************************************)
(* The lockout after failed logins (auth/brute_force.py) for one address:  *)
(* BruteForceMiddleware asks the guard before a login is handled, the      *)
(* handler tells it how the login went.  Several logins may be under way   *)
(* in between, so failures arrive after the lock they were not stopped by, *)
(* or after it has ended.                                                  *)
(*                                                                         *)
(* The guard is a library class with a middleware; no router of the        *)
(* repository calls it.  Its use here is that of its tests                 *)
(* (TestBruteForceMiddleware), with a lockout_ttl_seconds.                 *)
(***************************************************************************)
EXTENDS Integers, Sequences, FiniteSets

CONSTANTS
    Threshold,      \* lockout_threshold
    Ttl,            \* lockout_ttl_seconds
    MaxTrying,      \* bound: logins under way at the same time
    Never,
    MaxClock        \* bound: time.monotonic stops here

ASSUME LockoutAssumption ==
    /\ {Threshold, Ttl, MaxTrying} \subseteq Nat \ {0} /\ MaxClock \in Nat
    /\ Never \notin Nat

VARIABLES
    guard,      \* _IpState: [count, lockedAt]
    trying,     \* logins that the middleware has let through
    failures,   \* history: when logins failed, since the last success
    clock

lockoutVars == <<guard, trying, failures, clock>>

Fresh == [count |-> 0, lockedAt |-> Never]

LockoutTypeOK ==
    /\ guard \in [count : Nat, lockedAt : (0 .. MaxClock) \cup {Never}]
    /\ trying \in 0 .. MaxTrying
    /\ failures \in Seq(0 .. MaxClock)
    /\ clock \in 0 .. MaxClock

LockoutInit ==
    /\ guard = Fresh
    /\ trying = 0
    /\ failures = <<>>
    /\ clock = 0
-----------------------------------------------------------------------------
TtlExpired == guard.lockedAt # Never /\ clock - guard.lockedAt >= Ttl

IsLocked == guard.count >= Threshold /\ ~TtlExpired

\* BruteForceMiddleware.dispatch of a request that it lets through.
Attempt ==
    /\ ~IsLocked
    /\ trying < MaxTrying
    /\ trying' = trying + 1
    /\ guard' = IF guard.count >= Threshold THEN Fresh ELSE guard
    /\ UNCHANGED <<failures, clock>>

FaultyRecordFailure ==      \* the TTL is taken for one of the count
    LET g == IF guard.lockedAt = Never \/ TtlExpired THEN [Fresh EXCEPT !.count = 1]
             ELSE [guard EXCEPT !.count = @ + 1] IN
    /\ trying > 0
    /\ trying' = trying - 1
    /\ guard' = IF g.count >= Threshold /\ g.lockedAt = Never THEN [g EXCEPT !.lockedAt = clock]
                ELSE g
    /\ failures' = Append(failures, clock)
    /\ UNCHANGED clock

\* record_failure.
RecordFailure ==
    LET g == [(IF TtlExpired THEN Fresh ELSE guard) EXCEPT !.count = @ + 1] IN
    /\ trying > 0
    /\ trying' = trying - 1
    /\ guard' = IF g.count >= Threshold /\ g.lockedAt = Never THEN [g EXCEPT !.lockedAt = clock]
                ELSE g
    /\ failures' = Append(failures, clock)
    /\ UNCHANGED clock

\* record_success: a lock that came about meanwhile is taken off.
RecordSuccess ==
    /\ trying > 0
    /\ trying' = trying - 1
    /\ guard' = Fresh
    /\ failures' = <<>>
    /\ UNCHANGED clock

\* get_failure_count, which ends a lock that has expired.
GetFailureCount ==
    /\ TtlExpired
    /\ guard' = Fresh
    /\ UNCHANGED <<trying, failures, clock>>

\* The process ends and another begins.
NewGuard ==
    /\ guard' = Fresh /\ trying' = 0 /\ failures' = <<>>
    /\ UNCHANGED clock

Advance ==
    /\ clock < MaxClock
    /\ clock' = clock + 1
    /\ UNCHANGED <<guard, trying, failures>>

LockoutNext ==
    \/ Attempt \/ RecordFailure \/ RecordSuccess
    \/ GetFailureCount
    \/ NewGuard
    \/ Advance

LockoutSpec == LockoutInit /\ [][LockoutNext]_lockoutVars
-----------------------------------------------------------------------------
FailedSince(t) == {i \in DOMAIN failures : failures[i] > t}

\* In the time a lock lasts, an address has at most Threshold failed logins, those
\* under way at the lock, and those under way at the lock before: wherever the
\* lock, its end and a late failure fall.
GuessesBounded == Cardinality(FailedSince(clock - Ttl)) <= Threshold + 2 * (MaxTrying - 1)
=============================================================================
