---------------------------- MODULE PollThrottle ----------------------------
(***************************************************************************)
(* The leases and spacing that protect mail hosts (PollThrottleService) and *)
(* the polls that take them (PollingSourceExecutionService): a poll holds a *)
(* lease of its source's host while it runs, and one of the destination     *)
(* while it delivers a message. Rows live in the database, survive the      *)
(* process, and are timed; times are the ticks that are left.               *)
(***************************************************************************)
EXTENDS Integers, FiniteSets

CONSTANTS
    Poller,         \* bound: polls that run at once
    Key,            \* throttle keys
    SourceKey,      \* the key of the host each poll fetches from
    DestinationKey, \* the key of the host or provider it delivers to
    Cap,            \* maximum concurrency of each key
    Spacing,        \* minimum spacing of each key
    Ttl,            \* what a lease lasts
    MaxMultiplier,  \* adaptive ceiling
    Token,          \* bound: lease tokens, 0 standing for none
    MaxFaults       \* bound: crashes and releases that fail

ASSUME PollThrottleAssumption ==
    /\ IsFiniteSet(Poller)
    /\ IsFiniteSet(Token)
    /\ Token \subseteq Nat \ {0}
    /\ SourceKey \in [Poller -> Key]
    /\ DestinationKey \in [Poller -> Key]
    /\ \A t, u \in Poller : SourceKey[t] # DestinationKey[u]
    /\ Cap \in [Key -> Nat \ {0}]
    /\ Spacing \in [Key -> Nat \ {0}]
    /\ Ttl \in Nat \ {0}
    /\ MaxMultiplier \in Nat \ {0}
    /\ MaxFaults \in Nat

NoToken == 0

VARIABLES
    row,            \* poll_throttle_state
    lease,          \* poll_throttle_lease: ticks until each token's row expires,
                    \* 0 when it has, or is gone: no query tells them apart
    poll,           \* the polls
    distance,       \* history: ticks since a key's last lease, up to its spacing
    quiet,          \* history: ticks of the longest penalty of a key
    faults          \* crashes and lost releases so far

histories == <<distance, quiet>>
vars == <<row, lease, poll, histories, faults>>

Place == {"idle", "source", "sourceRow", "polling", "destination", "destinationRow",
          "delivering", "delivered", "undelivered", "failed", "leaving", "completed"}
Idle == [at |-> "idle", sleep |-> 0, source |-> NoToken, destination |-> NoToken]

Init ==
    /\ row = [k \in Key |-> [made |-> FALSE, next |-> 0, multiplier |-> 1]]
    /\ lease = [k \in Key |-> [n \in Token |-> 0]]
    /\ poll = [t \in Poller |-> Idle]
    /\ distance = [k \in Key |-> Spacing[k]]
    /\ quiet = [k \in Key |-> 0]
    /\ faults = 0

Larger(a, b) == IF a > b THEN a ELSE b
Smaller(a, b) == IF a < b THEN a ELSE b

At(t, from) == poll[t].at = from
Goes(t, to) == poll' = [poll EXCEPT ![t].at = to]

Fault ==
    /\ faults < MaxFaults
    /\ faults' = faults + 1

-----------------------------------------------------------------------------
(* Acquiring (acquirePermit, tryAcquire). *)

Seeks(t, k) ==
    \/ poll[t].at \in {"source", "sourceRow"} /\ k = SourceKey[t]
    \/ poll[t].at \in {"destination", "destinationRow"} /\ k = DestinationKey[t]

Active(k) == {n \in Token : lease[k][n] > 0}
EarliestExpiry(k) ==
    CHOOSE e \in {lease[k][n] : n \in Active(k)} : \A n \in Active(k) : e <= lease[k][n]

\* Fault: one lease too many.
FullWhenOver(k) == Cardinality(Active(k)) > Cap[k]

Full(k) == Cardinality(Active(k)) >= Cap[k]
AvailableIn(k) == IF Full(k) THEN Larger(row[k].next, EarliestExpiry(k)) ELSE row[k].next

\* A random UUID is nobody's.
Fresh(k) == {n \in Token :
    /\ lease[k][n] = 0
    /\ \A t \in Poller : ~(SourceKey[t] = k /\ poll[t].source = n)
                         /\ ~(DestinationKey[t] = k /\ poll[t].destination = n)}
FreshToken(k) == CHOOSE n \in Fresh(k) : TRUE

\* Fault: an attempt that must wait pushes the next one away.
WaitsAndDelays(t, k) ==
    /\ AvailableIn(k) > 0
    /\ row' = [row EXCEPT ![k].made = TRUE, ![k].next = 2 * Spacing[k]]
    /\ poll' = [poll EXCEPT ![t].sleep = Spacing[k]]
    /\ UNCHANGED <<lease, histories, faults>>

\* Under the lock of the key's row. An attempt that must wait widens the spacing.
Waits(t, k) ==
    /\ AvailableIn(k) > 0
    /\ row' = [row EXCEPT ![k].made = TRUE,
                          ![k].multiplier = Smaller(MaxMultiplier, @ + 1)]
    /\ poll' = [poll EXCEPT ![t].sleep = AvailableIn(k)]
    /\ UNCHANGED <<lease, histories, faults>>

Granted(t, n) ==
    poll' = [poll EXCEPT ![t] =
               IF @.at \in {"source", "sourceRow"}
               THEN [@ EXCEPT !.at = "polling", !.source = n]
               ELSE [@ EXCEPT !.at = "delivering", !.destination = n]]

Grant(t, k) ==
    /\ AvailableIn(k) = 0
    /\ Fresh(k) # {}
    /\ lease' = [lease EXCEPT ![k][FreshToken(k)] = Ttl]
    /\ row' = [row EXCEPT ![k].made = TRUE, ![k].next = Spacing[k] * row[k].multiplier]
    /\ Granted(t, FreshToken(k))
    /\ distance' = [distance EXCEPT ![k] = 0]
    /\ UNCHANGED <<quiet, faults>>

Decide(t, k) == Waits(t, k) \/ Grant(t, k)

\* The first poll of a key makes its row; one that found none and is slower
\* violates the unique key, and its poll fails.
TryAcquire(t, k) ==
    /\ Seeks(t, k)
    /\ poll[t].at \in {"source", "destination"}
    /\ poll[t].sleep = 0
    /\ row[k].made
    /\ Decide(t, k)

FindNoRow(t, k) ==
    /\ Seeks(t, k)
    /\ ~row[k].made
    /\ \/ At(t, "source") /\ Goes(t, "sourceRow")
       \/ At(t, "destination") /\ Goes(t, "destinationRow")
    /\ UNCHANGED <<row, lease, histories, faults>>

MakeRow(t, k) ==
    /\ Seeks(t, k)
    /\ poll[t].at \in {"sourceRow", "destinationRow"}
    /\ IF row[k].made
       THEN Goes(t, "failed") /\ UNCHANGED <<row, lease, histories, faults>>
       ELSE Decide(t, k)

\* A stop interrupts a poll in its sleep.
Interrupted(t) ==
    /\ poll[t].sleep > 0
    /\ poll' = [poll EXCEPT ![t].at = "leaving", ![t].sleep = 0]
    /\ UNCHANGED <<row, lease, histories, faults>>

-----------------------------------------------------------------------------
(* Outcomes (updateAdaptiveState) and releases. *)

Eased(m) == Larger(1, m - 1)
Succeeded(k) ==
    /\ row' = [row EXCEPT ![k].multiplier = Eased(@)]
    /\ UNCHANGED quiet

Severity == 0..2
Penalty(k, severity) ==
    Spacing[k] * severity * Smaller(MaxMultiplier, row[k].multiplier + severity)

\* Fault: the last penalty counts, not the longest.
FailedForgettingPenalty(k, severity) ==
    /\ row' = [row EXCEPT ![k].multiplier = Smaller(MaxMultiplier, @ + severity),
                          ![k].next = IF severity = 0 THEN @ ELSE Penalty(k, severity)]
    /\ quiet' = [quiet EXCEPT ![k] = Larger(@, Penalty(k, severity))]

Failed(k, severity) ==
    /\ row' = [row EXCEPT ![k].multiplier = Smaller(MaxMultiplier, @ + severity),
                          ![k].next = Larger(@, Penalty(k, severity))]
    /\ quiet' = [quiet EXCEPT ![k] = Larger(@, Penalty(k, severity))]

Release(k, n) == lease' = [lease EXCEPT ![k] = [m \in Token |-> IF m = n THEN 0 ELSE @[m]]]

\* A release that fails is logged; the lease will expire.
ReleaseOrLose(k, n) ==
    \/ Release(k, n) /\ UNCHANGED faults
    \/ n # NoToken /\ Fault /\ UNCHANGED lease

-----------------------------------------------------------------------------
(* A poll (PollingSourceExecutionService.execute). *)

Start(t) ==
    /\ At(t, "idle")
    /\ Goes(t, "source")
    /\ UNCHANGED <<row, lease, histories, faults>>

NextMessage(t) ==
    /\ At(t, "polling")
    /\ Goes(t, "destination")
    /\ UNCHANGED <<row, lease, histories, faults>>

\* A live stop, or a failure outside a delivery.
Stop(t) ==
    /\ At(t, "polling")
    /\ \/ Goes(t, "leaving")
       \/ Goes(t, "failed")
    /\ UNCHANGED <<row, lease, histories, faults>>

Deliver(t) ==
    /\ At(t, "delivering")
    /\ Goes(t, "delivered")
    /\ Succeeded(DestinationKey[t])
    /\ UNCHANGED <<lease, distance, faults>>

\* Rejected for good: the poll goes on, and the host is not to blame.
Reject(t) ==
    /\ At(t, "delivering")
    /\ Goes(t, "delivered")
    /\ UNCHANGED <<row, lease, histories, faults>>

DeliveryFails(t) ==
    /\ At(t, "delivering")
    /\ Goes(t, "undelivered")
    /\ \E severity \in Severity : Failed(DestinationKey[t], severity)
    /\ UNCHANGED <<lease, distance, faults>>

\* The finally block of a delivery; a failure of a stopped run is a stop.
ReleaseDestination(t) ==
    /\ \E step \in {<<"delivered", "polling">>, <<"undelivered", "failed">>,
                    <<"undelivered", "leaving">>} :
          /\ At(t, step[1])
          /\ poll' = [poll EXCEPT ![t].at = step[2], ![t].destination = NoToken]
    /\ ReleaseOrLose(DestinationKey[t], poll[t].destination)
    /\ UNCHANGED <<row, histories>>

Fail(t) ==
    /\ At(t, "failed")
    /\ Goes(t, "leaving")
    /\ \E severity \in Severity : Failed(SourceKey[t], severity)
    /\ UNCHANGED <<lease, distance, faults>>

\* The finally block of a poll; one that has no lease releases none.
ReleaseSource(t) ==
    /\ \E step \in {<<"polling", "completed">>, <<"leaving", "idle">>} :
          /\ At(t, step[1])
          /\ poll' = [poll EXCEPT ![t].at = step[2], ![t].source = NoToken]
    /\ ReleaseOrLose(SourceKey[t], poll[t].source)
    /\ UNCHANGED <<row, histories>>

Complete(t) ==
    /\ At(t, "completed")
    /\ Goes(t, "idle")
    /\ Succeeded(SourceKey[t])
    /\ UNCHANGED <<lease, distance, faults>>

-----------------------------------------------------------------------------
(* Time and the process. *)

Less(n) == IF n > 0 THEN n - 1 ELSE 0

Tick ==
    /\ row' = [k \in Key |-> [row[k] EXCEPT !.next = Less(@)]]
    /\ lease' = [k \in Key |-> [n \in Token |-> Less(lease[k][n])]]
    /\ poll' = [t \in Poller |-> [poll[t] EXCEPT !.sleep = Less(@)]]
    /\ distance' = [k \in Key |-> Smaller(Spacing[k], distance[k] + 1)]
    /\ quiet' = [k \in Key |-> Less(quiet[k])]
    /\ UNCHANGED faults

\* The process dies; the rows stay.
Crash ==
    /\ Fault
    /\ poll' = [t \in Poller |-> Idle]
    /\ UNCHANGED <<row, lease, histories>>

Attempt(t) == \E k \in Key : TryAcquire(t, k) \/ FindNoRow(t, k) \/ MakeRow(t, k)

Next ==
    \/ Tick
    \/ Crash
    \/ \E t \in Poller :
          \/ Attempt(t) \/ Interrupted(t)
          \/ Start(t) \/ NextMessage(t) \/ Stop(t) \/ Deliver(t) \/ Reject(t)
          \/ DeliveryFails(t) \/ Fail(t) \/ ReleaseDestination(t) \/ ReleaseSource(t)
          \/ Complete(t)

Spec == Init /\ [][Next]_vars

\* Time passes and waiting polls wake. A poll that holds a lease may hang.
FairSpec == Spec /\ WF_vars(Tick) /\ \A t \in Poller : WF_vars(Attempt(t))

-----------------------------------------------------------------------------
(* Properties. *)

LongestDelay(k) == 2 * Spacing[k] * MaxMultiplier

TypeOK ==
    /\ row \in [Key -> [made : BOOLEAN, next : Nat, multiplier : 1..MaxMultiplier]]
    /\ \A k \in Key : row[k].next <= LongestDelay(k)
    /\ lease \in [Key -> [Token -> 0..Ttl]]
    /\ poll \in [Poller -> [at : Place, sleep : Nat, source : Token \cup {NoToken},
                           destination : Token \cup {NoToken}]]
    /\ distance \in [Key -> Nat]
    /\ quiet \in [Key -> Nat]
    /\ faults \in 0..MaxFaults

Holds(t, k, n) ==
    \/ k = SourceKey[t] /\ n = poll[t].source
    \/ k = DestinationKey[t] /\ n = poll[t].destination
InFlight(k) == {t \in Poller : \E n \in Token : Holds(t, k, n)}
Leased(k) == {t \in Poller : \E n \in Active(k) : Holds(t, k, n)}

\* The polls of a key that hold a lease that has not expired are never more than
\* its concurrency, whatever crashed, was released or was not (tryAcquire).
LeasedPollsAreCapped == \A k \in Key : Cardinality(Leased(k)) <= Cap[k]

\* A lease is given no sooner than the key's spacing after the one before, and
\* not within the longest penalty its failures have earned (nextAllowedAt).
LeasesKeepTheirDistance ==
    [][\A k \in Key : \A n \in Token :
         lease[k][n] = 0 /\ lease'[k][n] > 0
         => distance[k] >= Spacing[k] /\ quiet[k] = 0]_vars

Sought(k) == \E t \in Poller : Seeks(t, k)

\* A key that polls wait for is given again and again, even when holders hang,
\* crash or fail to release (acquirePermit, expiresAt).
PermitsAreGiven ==
    \A k \in Key : []<>(Sought(k) => distance[k] = 0)

=============================================================================
