------------------------- MODULE PollThrottle_proofs -------------------------
(* Theorems about PollThrottle, for every set of polls and keys, whatever the *)
(* concurrency and spacing of each, and however long a lease lasts.           *)
EXTENDS PollThrottle, FiniteSetTheorems, WellFoundedInduction, TLAPS

RowType == [made : BOOLEAN, next : Nat, multiplier : 1..MaxMultiplier]
PollType == [at : Place, sleep : Nat, source : Token \cup {NoToken},
             destination : Token \cup {NoToken}]

\* A key that may be given has been quiet long enough.
KeyKeepsDistance(k) ==
    /\ row[k].next <= LongestDelay(k)
    /\ row[k].next + distance[k] >= Spacing[k]
    /\ row[k].next >= quiet[k]

RowsOK ==
    /\ row \in [Key -> RowType]
    /\ distance \in [Key -> Nat]
    /\ quiet \in [Key -> Nat]
    /\ \A k \in Key : KeyKeepsDistance(k)

LeasesOK ==
    /\ lease \in [Key -> [Token -> 0..Ttl]]
    /\ \A k \in Key : Cardinality(Active(k)) <= Cap[k]

\* No two polls hold the same lease.
TokensAreUnique ==
    \A k \in Key, n \in Token, t, u \in Poller : Holds(t, k, n) /\ Holds(u, k, n) => t = u

PollsOK ==
    /\ poll \in [Poller -> PollType]
    /\ TokensAreUnique

IInv ==
    /\ RowsOK
    /\ LeasesOK
    /\ PollsOK
    /\ faults \in 0..MaxFaults

-----------------------------------------------------------------------------
(* Arithmetic and constants. *)

LEMMA ProductGrows ==
  ASSUME NEW a \in Nat, NEW b \in Nat, NEW c \in Nat, b <= c
  PROVE  a * b \in Nat /\ a * b <= a * c
<1>1. c - b \in Nat
  OBVIOUS
<1>2. a * (c - b) \in Nat
  BY <1>1
<1>3. a * (c - b) = a * c - a * b
  OBVIOUS
<1>4. a * b \in Nat /\ a * c \in Nat
  OBVIOUS
<1> QED
  BY <1>2, <1>3, <1>4

LEMMA Constants ==
  /\ IsFiniteSet(Poller)
  /\ IsFiniteSet(Token)
  /\ Token \subseteq Nat \ {0}
  /\ SourceKey \in [Poller -> Key]
  /\ DestinationKey \in [Poller -> Key]
  /\ \A t, u \in Poller : SourceKey[t] # DestinationKey[u]
  /\ Cap \in [Key -> Nat \ {0}]
  /\ Spacing \in [Key -> Nat \ {0}]
  /\ Ttl \in Nat \ {0}
  /\ MaxMultiplier \in Nat \ {0}
  /\ MaxFaults \in Nat
BY PollThrottleAssumption DEF PollThrottleAssumption

LEMMA DelayBounds ==
  ASSUME NEW k \in Key, NEW m \in 1..MaxMultiplier, NEW severity \in Severity
  PROVE  /\ LongestDelay(k) \in Nat
         /\ Spacing[k] * m \in Nat
         /\ Spacing[k] * m >= Spacing[k]
         /\ Spacing[k] * m <= LongestDelay(k)
         /\ Spacing[k] * severity * m \in Nat
         /\ Spacing[k] * severity * m <= LongestDelay(k)
<1> DEFINE S == Spacing[k]
<1>1. S \in Nat /\ MaxMultiplier \in Nat \ {0} /\ m \in Nat \ {0} /\ m <= MaxMultiplier
  BY Constants
<1>2. LongestDelay(k) = 2 * S * MaxMultiplier
  BY DEF LongestDelay
<1>3. S * 1 <= S * m /\ S * 1 = S
  BY <1>1, ProductGrows
<1>4. S * m \in Nat /\ S * m <= S * MaxMultiplier
  BY <1>1, ProductGrows
<1>5. 2 * S * MaxMultiplier = 2 * (S * MaxMultiplier)
  BY <1>1
<1>6. S * MaxMultiplier \in Nat
  BY <1>1
<1>7. LongestDelay(k) \in Nat /\ S * MaxMultiplier <= LongestDelay(k)
  BY <1>2, <1>5, <1>6
<1>8. S * severity \in Nat /\ S * severity <= 2 * S
  BY <1>1 DEF Severity
<1>9. S * severity * m \in Nat /\ S * severity * m <= S * severity * MaxMultiplier
  BY <1>1, <1>8, ProductGrows
<1>10. S * severity * MaxMultiplier <= 2 * S * MaxMultiplier
  <2>1. MaxMultiplier * (S * severity) <= MaxMultiplier * (2 * S)
    BY <1>1, <1>8, ProductGrows
  <2>2. /\ MaxMultiplier * (S * severity) = S * severity * MaxMultiplier
        /\ MaxMultiplier * (2 * S) = 2 * S * MaxMultiplier
    BY <1>1, <1>8
  <2> QED
    BY <2>1, <2>2
<1>11. S * severity * MaxMultiplier \in Nat
  BY <1>1, <1>8
<1>12. S * severity * m <= 2 * S * MaxMultiplier
  <2> HIDE DEF S
  <2>1. 2 * S * MaxMultiplier \in Nat
    BY <1>5, <1>6
  <2> QED
    BY <1>9, <1>10, <1>11, <2>1
<1> HIDE DEF S
<1>13. S * m <= LongestDelay(k) /\ S * m >= S
  BY <1>1, <1>3, <1>4, <1>6, <1>7
<1>14. S * severity * m <= LongestDelay(k)
  BY <1>2, <1>12
<1> QED
  BY <1>4, <1>7, <1>9, <1>13, <1>14 DEF S

-----------------------------------------------------------------------------
(* When a key is available. *)

LEMMA SmallestExists ==
  ASSUME NEW T, T \subseteq Nat, T # {}
  PROVE  \E x \in T : \A y \in T : x <= y
<1>1. \E x \in T : \A y \in T : <<y, x>> \notin OpToRel(<, Nat)
  BY NatLessThanWellFounded, WFMin, Zenon
<1>2. \E x \in T : \A y \in T : ~(y < x)
  BY <1>1, Zenon DEF OpToRel
<1>3. \A x, y \in T : ~(y < x) => x <= y
  OBVIOUS
<1> QED
  BY <1>2, <1>3, Zenon

\* Among leases that have not expired, one expires first.
LEMMA EarliestExpiryType ==
  ASSUME LeasesOK, NEW k \in Key, Active(k) # {}
  PROVE  EarliestExpiry(k) \in Nat \ {0}
<1> DEFINE E == {lease[k][n] : n \in Active(k)}
<1>1. E \subseteq Nat \ {0} /\ E # {}
  <2>1. \A n \in Active(k) : lease[k][n] \in Nat \ {0}
    BY Constants DEF LeasesOK, Active
  <2> QED
    BY <2>1
<1> HIDE DEF E
<1>2. E \subseteq Nat
  BY <1>1
<1>3. PICK e \in E : \A d \in E : e <= d
  BY <1>1, <1>2, SmallestExists
<1>4. \A d \in E : e <= d
  BY <1>3
<1>5. \A n \in Active(k) : e <= lease[k][n]
  BY <1>4 DEF E
<1>6. EarliestExpiry(k) \in E
  BY <1>3, <1>5 DEF EarliestExpiry, E
<1> QED
  BY <1>1, <1>6

LEMMA ActiveIsFinite ==
  ASSUME NEW k \in Key
  PROVE  IsFiniteSet(Active(k)) /\ Cardinality(Active(k)) \in Nat
<1>1. IsFiniteSet(Active(k))
  BY Constants, FS_Subset DEF Active
<1> QED
  BY <1>1, FS_CardinalityType

LEMMA AvailableInType ==
  ASSUME RowsOK, LeasesOK, NEW k \in Key
  PROVE  /\ AvailableIn(k) \in Nat
         /\ AvailableIn(k) = 0 => row[k].next = 0 /\ ~Full(k)
<1>1. row[k].next \in Nat
  BY DEF RowsOK, RowType
<1>2. CASE Full(k)
  <2>1. Active(k) # {}
    BY <1>2, ActiveIsFinite, FS_EmptySet, Constants DEF Full
  <2>2. EarliestExpiry(k) \in Nat \ {0}
    BY <2>1, EarliestExpiryType
  <2> QED
    BY <1>1, <1>2, <2>2 DEF AvailableIn, Larger
<1>3. CASE ~Full(k)
  BY <1>1, <1>3 DEF AvailableIn
<1> QED
  BY <1>2, <1>3

-----------------------------------------------------------------------------
(* What a step leaves as it was. *)

LEMMA InitSound == Init => IInv
<1> SUFFICES ASSUME Init
             PROVE  IInv
  OBVIOUS
<1>1. RowsOK
  <2>1. \A k \in Key : LongestDelay(k) \in Nat
    BY DelayBounds, Constants DEF Severity
  <2> QED
    BY <2>1, Constants DEF Init, RowsOK, RowType, KeyKeepsDistance
<1>2. LeasesOK
  <2>1. \A k \in Key : Active(k) = {}
    BY DEF Init, Active
  <2> QED
    <3>1. \A k \in Key : Cardinality(Active(k)) = 0
      BY <2>1, FS_EmptySet
    <3>2. lease \in [Key -> [Token -> 0..Ttl]]
      BY Constants DEF Init
    <3> QED
      BY <3>1, <3>2, Constants DEF LeasesOK
<1>3. PollsOK
  BY Constants DEF Init, PollsOK, PollType, Idle, Place, NoToken, TokensAreUnique, Holds
<1> QED
  BY <1>1, <1>2, <1>3, Constants DEF IInv, Init

LEMMA RowsKept ==
  ASSUME RowsOK, UNCHANGED <<row, histories>>
  PROVE  RowsOK'
BY DEF RowsOK, KeyKeepsDistance, LongestDelay, histories

LEMMA FaultsKept ==
  ASSUME faults \in 0..MaxFaults, Fault \/ UNCHANGED faults
  PROVE  (faults \in 0..MaxFaults)'
BY Constants DEF Fault

NoNewLease == \A k \in Key, n \in Token : lease'[k][n] > 0 => lease[k][n] > 0

LEMMA LeasesKept ==
  ASSUME LeasesOK, NoNewLease, lease' \in [Key -> [Token -> 0..Ttl]]
  PROVE  LeasesOK'
<1> SUFFICES ASSUME NEW k \in Key
             PROVE  Cardinality(Active(k)') <= Cap[k]
  BY DEF LeasesOK, Active
<1>1. Active(k)' \subseteq Active(k)
  BY DEF NoNewLease, Active
<1>2. /\ Cardinality(Active(k)') <= Cardinality(Active(k))
      /\ IsFiniteSet(Active(k)')
  BY <1>1, ActiveIsFinite, FS_Subset
<1>3. Cardinality(Active(k)') \in Nat
  BY <1>2, FS_CardinalityType
<1>4. Cardinality(Active(k)) <= Cap[k] /\ Cap[k] \in Nat
  BY Constants DEF LeasesOK
<1> QED
  BY <1>2, <1>3, <1>4, ActiveIsFinite

LEMMA LeasesUnchanged ==
  ASSUME LeasesOK, UNCHANGED lease
  PROVE  NoNewLease /\ LeasesOK'
<1>1. NoNewLease /\ lease' \in [Key -> [Token -> 0..Ttl]]
  BY DEF LeasesOK, NoNewLease
<1> QED
  BY <1>1, LeasesKept

NoNewHolder ==
    \A t \in Poller : /\ poll'[t].source \in {poll[t].source, NoToken}
                      /\ poll'[t].destination \in {poll[t].destination, NoToken}

LEMMA PollsKept ==
  ASSUME PollsOK, NoNewHolder, poll' \in [Poller -> PollType]
  PROVE  PollsOK'
<1>1. \A t \in Poller, k \in Key, n \in Token : Holds(t, k, n)' => Holds(t, k, n)
  BY Constants DEF NoNewHolder, Holds, NoToken
<1>2. TokensAreUnique'
  BY <1>1 DEF PollsOK, TokensAreUnique
<1> QED
  BY <1>2 DEF PollsOK

LEMMA PollGoes ==
  ASSUME PollsOK, NEW t \in Poller, NEW to \in Place, Goes(t, to)
  PROVE  PollsOK'
<1>1. poll' \in [Poller -> PollType]
  BY DEF Goes, PollsOK, PollType
<1>2. NoNewHolder
  BY DEF Goes, PollsOK, PollType, NoNewHolder
<1> QED
  BY <1>1, <1>2, PollsKept

-----------------------------------------------------------------------------
(* Steps. *)

LEMMA OutcomeKeepsRows ==
  ASSUME RowsOK, NEW k \in Key, UNCHANGED distance,
         \/ Succeeded(k)
         \/ \E severity \in Severity : Failed(k, severity)
  PROVE  RowsOK'
<1>0. /\ row[k] \in RowType
      /\ row[k].multiplier \in 1..MaxMultiplier
      /\ MaxMultiplier \in Nat \ {0}
  BY Constants DEF RowsOK, RowType
<1>1. CASE Succeeded(k)
  <2>1. Eased(row[k].multiplier) \in 1..MaxMultiplier
    BY <1>0 DEF Eased, Larger
  <2>2. row' = [row EXCEPT ![k].multiplier = Eased(row[k].multiplier)]
    BY <1>1 DEF Succeeded
  <2>3. row' \in [Key -> RowType]
    BY <2>1, <2>2 DEF RowsOK, RowType
  <2>4. \A j \in Key : row'[j].next = row[j].next
    BY <2>2 DEF RowsOK, RowType
  <2>5. UNCHANGED quiet
    BY <1>1 DEF Succeeded
  <2> QED
    BY <2>3, <2>4, <2>5 DEF RowsOK, KeyKeepsDistance, LongestDelay
<1>2. ASSUME NEW severity \in Severity, Failed(k, severity)
      PROVE  RowsOK'
  <2> DEFINE m == Smaller(MaxMultiplier, row[k].multiplier + severity)
             p == Penalty(k, severity)
  <2>1. m \in 1..MaxMultiplier
    BY <1>0 DEF Smaller, Severity
  <2>2. p \in Nat /\ p <= LongestDelay(k) /\ LongestDelay(k) \in Nat
    BY <2>1, DelayBounds DEF Penalty
  <2>3. row' = [row EXCEPT ![k].multiplier = m, ![k].next = Larger(row[k].next, p)]
    BY <1>2 DEF Failed
  <2>4. quiet' = [quiet EXCEPT ![k] = Larger(quiet[k], p)]
    BY <1>2 DEF Failed
  <2> HIDE DEF m, p
  <2>5. Larger(row[k].next, p) \in Nat
    BY <1>0, <2>2 DEF RowType, Larger
  <2>6. row' \in [Key -> RowType]
    BY <2>1, <2>3, <2>5 DEF RowsOK, RowType
  <2>7. quiet' \in [Key -> Nat]
    BY <2>2, <2>4 DEF RowsOK, Larger
  <2>8. KeyKeepsDistance(k)'
    <3>1. row'[k].next = Larger(row[k].next, p) /\ quiet'[k] = Larger(quiet[k], p)
      BY <1>0, <2>3, <2>4 DEF RowsOK, RowType
    <3>2. /\ row[k].next \in Nat /\ quiet[k] \in Nat /\ distance[k] \in Nat
          /\ Spacing[k] \in Nat
      BY <1>0, Constants DEF RowsOK, RowType
    <3>3. KeyKeepsDistance(k)
      BY DEF RowsOK
    <3> QED
      BY <2>2, <3>1, <3>2, <3>3 DEF KeyKeepsDistance, LongestDelay, Larger
  <2>9. ASSUME NEW j \in Key, j # k
        PROVE  KeyKeepsDistance(j)'
    <3>1. row'[j] = row[j] /\ quiet'[j] = quiet[j]
      BY <2>3, <2>4, <2>9 DEF RowsOK, RowType
    <3> QED
      BY <3>1 DEF RowsOK, KeyKeepsDistance, LongestDelay
  <2> QED
    BY <2>6, <2>7, <2>8, <2>9 DEF RowsOK
<1> QED
  BY <1>1, <1>2

LEMMA WaitsSound ==
  ASSUME IInv, NEW t \in Poller, NEW k \in Key, Waits(t, k)
  PROVE  IInv' /\ NoNewLease
<1>1. AvailableIn(k) \in Nat
  BY AvailableInType DEF IInv
<1>2. RowsOK'
  <2> DEFINE m == Smaller(MaxMultiplier, row[k].multiplier + 1)
  <2>1. m \in 1..MaxMultiplier
    BY Constants DEF IInv, RowsOK, RowType, Smaller
  <2>2. row' = [row EXCEPT ![k].made = TRUE, ![k].multiplier = m]
    BY DEF Waits
  <2> HIDE DEF m
  <2>3. row' \in [Key -> RowType]
    BY <2>1, <2>2 DEF IInv, RowsOK, RowType
  <2>4. \A j \in Key : row'[j].next = row[j].next
    BY <2>2 DEF IInv, RowsOK, RowType
  <2> QED
    BY <2>3, <2>4 DEF Waits, histories, IInv, RowsOK, KeyKeepsDistance, LongestDelay
<1>3. PollsOK'
  <2>1. poll' \in [Poller -> PollType]
    BY <1>1 DEF Waits, IInv, PollsOK, PollType
  <2>2. NoNewHolder
    BY DEF Waits, IInv, PollsOK, PollType, NoNewHolder
  <2> QED
    BY <2>1, <2>2, PollsKept DEF IInv
<1>4. LeasesOK' /\ NoNewLease
  BY LeasesUnchanged DEF Waits, IInv
<1> QED
  BY <1>2, <1>3, <1>4, FaultsKept DEF Waits, IInv

\* The new lease is counted by none and held by nobody.
LEMMA GrantSound ==
  ASSUME IInv, NEW t \in Poller, NEW k \in Key, Seeks(t, k), Grant(t, k)
  PROVE  IInv'
<1> DEFINE n == FreshToken(k)
<1>0. /\ lease \in [Key -> [Token -> 0..Ttl]]
      /\ poll \in [Poller -> PollType]
      /\ row \in [Key -> RowType]
  BY DEF IInv, LeasesOK, PollsOK, RowsOK
<1>1. n \in Fresh(k)
  BY DEF Grant, FreshToken
<1>2. /\ n \in Token
      /\ lease[k][n] = 0
      /\ \A u \in Poller : ~Holds(u, k, n)
  BY <1>1 DEF Fresh, Holds
<1>3. row[k].next = 0 /\ ~Full(k)
  BY AvailableInType DEF Grant, IInv
<1>4. /\ lease' = [lease EXCEPT ![k][n] = Ttl]
      /\ row' = [row EXCEPT ![k].made = TRUE, ![k].next = Spacing[k] * row[k].multiplier]
      /\ Granted(t, n)
      /\ distance' = [distance EXCEPT ![k] = 0]
      /\ UNCHANGED <<quiet, faults>>
  BY DEF Grant
<1> HIDE DEF n
<1>5. RowsOK'
  <2> DEFINE d == Spacing[k] * row[k].multiplier
  <2>1. d \in Nat /\ d >= Spacing[k] /\ d <= LongestDelay(k)
    BY <1>0, DelayBounds DEF Severity, RowType
  <2> HIDE DEF d
  <2>2. row' = [row EXCEPT ![k].made = TRUE, ![k].next = d]
    BY <1>4 DEF d
  <2>3. row' \in [Key -> RowType]
    BY <1>0, <2>1, <2>2 DEF RowType
  <2>4. distance' \in [Key -> Nat] /\ quiet' \in [Key -> Nat]
    BY <1>4 DEF IInv, RowsOK
  <2>5. KeyKeepsDistance(k)'
    <3>1. row'[k].next = d /\ distance'[k] = 0 /\ quiet'[k] = quiet[k]
      BY <1>0, <1>4, <2>2 DEF IInv, RowsOK, RowType
    <3>2. quiet[k] = 0
      BY <1>3 DEF IInv, RowsOK, KeyKeepsDistance
    <3> QED
      BY <2>1, <3>1, <3>2, Constants DEF KeyKeepsDistance, LongestDelay
  <2>6. ASSUME NEW j \in Key, j # k
        PROVE  KeyKeepsDistance(j)'
    <3>1. row'[j] = row[j] /\ distance'[j] = distance[j] /\ quiet'[j] = quiet[j]
      BY <1>0, <1>4, <2>2, <2>6 DEF IInv, RowsOK
    <3> QED
      BY <3>1 DEF IInv, RowsOK, KeyKeepsDistance, LongestDelay
  <2> QED
    BY <2>3, <2>4, <2>5, <2>6 DEF RowsOK
<1>6. LeasesOK'
  <2>1. lease' \in [Key -> [Token -> 0..Ttl]]
    <3>1. Ttl \in 0..Ttl
      BY Constants
    <3> QED
      BY <1>0, <1>2, <1>4, <3>1
  <2>2. Cardinality(Active(k)') <= Cap[k]
    <3>1. Active(k)' = Active(k) \cup {n}
      BY <1>0, <1>2, <1>4, Constants DEF Active
    <3>2. n \notin Active(k)
      BY <1>2 DEF Active
    <3>3. /\ Cardinality(Active(k)) \in Nat
          /\ Cardinality(Active(k) \cup {n}) = Cardinality(Active(k)) + 1
      BY <3>2, ActiveIsFinite, FS_AddElement
    <3>4. Cardinality(Active(k)) < Cap[k]
      BY <1>3, <3>3, Constants DEF Full
    <3> QED
      BY <3>1, <3>3, <3>4, Constants
  <2>3. ASSUME NEW j \in Key, j # k
        PROVE  Cardinality(Active(j)') <= Cap[j]
    <3>1. Active(j)' = Active(j)
      BY <1>0, <1>4, <2>3 DEF Active
    <3> QED
      BY <3>1 DEF IInv, LeasesOK
  <2> QED
    BY <2>1, <2>2, <2>3 DEF LeasesOK
<1>7. PollsOK'
  <2>1. poll' \in [Poller -> PollType]
    <3>1. CASE poll[t].at \in {"source", "sourceRow"}
      <4>1. poll' = [poll EXCEPT ![t] = [@ EXCEPT !.at = "polling", !.source = n]]
        BY <1>4, <3>1 DEF Granted
      <4>2. [poll[t] EXCEPT !.at = "polling", !.source = n] \in PollType
        BY <1>0, <1>2 DEF PollType, Place
      <4> QED
        BY <1>0, <4>1, <4>2
    <3>2. CASE poll[t].at \notin {"source", "sourceRow"}
      <4>1. poll' = [poll EXCEPT ![t] = [@ EXCEPT !.at = "delivering", !.destination = n]]
        BY <1>4, <3>2 DEF Granted
      <4>2. [poll[t] EXCEPT !.at = "delivering", !.destination = n] \in PollType
        BY <1>0, <1>2 DEF PollType, Place
      <4> QED
        BY <1>0, <4>1, <4>2
    <3> QED
      BY <3>1, <3>2
  <2>2. ASSUME NEW u \in Poller, NEW j \in Key, NEW m \in Token, Holds(u, j, m)'
        PROVE  (u = t /\ j = k /\ m = n) \/ Holds(u, j, m)
    <3>1. CASE u # t
      BY <1>0, <1>4, <2>2, <3>1 DEF Granted, Holds
    <3>2. CASE u = t /\ poll[t].at \in {"source", "sourceRow"}
      <4>1. poll'[t].source = n /\ poll'[t].destination = poll[t].destination
        BY <1>0, <1>4, <3>2 DEF Granted, PollType
      <4>2. k = SourceKey[t]
        BY <3>2 DEF Seeks
      <4> QED
        BY <2>2, <3>2, <4>1, <4>2 DEF Holds
    <3>3. CASE u = t /\ poll[t].at \notin {"source", "sourceRow"}
      <4>1. poll'[t].destination = n /\ poll'[t].source = poll[t].source
        BY <1>0, <1>4, <3>3 DEF Granted, PollType
      <4>2. k = DestinationKey[t]
        BY <3>3 DEF Seeks
      <4> QED
        BY <2>2, <3>3, <4>1, <4>2 DEF Holds
    <3> QED
      BY <3>1, <3>2, <3>3
  <2>3. TokensAreUnique'
    BY <1>2, <2>2 DEF IInv, PollsOK, TokensAreUnique
  <2> QED
    BY <2>1, <2>3 DEF PollsOK
<1> QED
  BY <1>4, <1>5, <1>6, <1>7 DEF IInv

LEMMA DecideSound ==
  ASSUME IInv, NEW t \in Poller, NEW k \in Key, Seeks(t, k), Decide(t, k)
  PROVE  IInv' /\ (NoNewLease \/ Grant(t, k))
BY WaitsSound, GrantSound DEF Decide

\* A step of a poll that changes no row and no lease.
LEMMA MoveSound ==
  ASSUME IInv, NEW t \in Poller, NEW to \in Place, Goes(t, to),
         UNCHANGED <<row, lease, histories, faults>>
  PROVE  IInv' /\ NoNewLease
BY PollGoes, RowsKept, LeasesUnchanged, FaultsKept DEF IInv

LEMMA OutcomeSound ==
  ASSUME IInv, NEW t \in Poller, NEW to \in Place, Goes(t, to),
         NEW k \in Key, Succeeded(k) \/ \E severity \in Severity : Failed(k, severity),
         UNCHANGED <<lease, distance, faults>>
  PROVE  IInv' /\ NoNewLease
BY PollGoes, OutcomeKeepsRows, LeasesUnchanged, FaultsKept DEF IInv

LEMMA ReleaseSound ==
  ASSUME LeasesOK, NEW k \in Key, NEW n, ReleaseOrLose(k, n)
  PROVE  LeasesOK' /\ NoNewLease
<1>1. CASE UNCHANGED lease
  BY <1>1, LeasesUnchanged
<1>2. CASE Release(k, n)
  <2>1. lease' \in [Key -> [Token -> 0..Ttl]]
    <3>1. 0 \in 0..Ttl
      BY Constants
    <3> QED
      BY <1>2, <3>1 DEF LeasesOK, Release
  <2>2. NoNewLease
    BY <1>2 DEF LeasesOK, Release, NoNewLease
  <2> QED
    BY <2>1, <2>2, LeasesKept
<1> QED
  BY <1>1, <1>2 DEF ReleaseOrLose

LEMMA AttemptSound ==
  ASSUME IInv, NEW t \in Poller, NEW k \in Key,
         TryAcquire(t, k) \/ FindNoRow(t, k) \/ MakeRow(t, k)
  PROVE  IInv' /\ (NoNewLease \/ Grant(t, k))
<1>1. CASE TryAcquire(t, k)
  BY <1>1, DecideSound DEF TryAcquire
<1>2. CASE FindNoRow(t, k)
  BY <1>2, MoveSound DEF FindNoRow, Place
<1>3. CASE MakeRow(t, k)
  <2>1. CASE row[k].made
    BY <1>3, <2>1, MoveSound DEF MakeRow, Place
  <2>2. CASE ~row[k].made
    BY <1>3, <2>2, DecideSound DEF MakeRow
  <2> QED
    BY <2>1, <2>2
<1> QED
  BY <1>1, <1>2, <1>3

LEMMA PollSound ==
  ASSUME IInv, NEW t \in Poller,
         \/ Interrupted(t)
         \/ Start(t) \/ NextMessage(t) \/ Stop(t) \/ Deliver(t) \/ Reject(t)
         \/ DeliveryFails(t) \/ Fail(t) \/ ReleaseDestination(t) \/ ReleaseSource(t)
         \/ Complete(t)
  PROVE  IInv' /\ NoNewLease
<1>0. SourceKey[t] \in Key /\ DestinationKey[t] \in Key
  BY Constants
<1>1. CASE Interrupted(t)
  <2>1. poll' \in [Poller -> PollType]
    BY <1>1 DEF Interrupted, IInv, PollsOK, PollType, Place
  <2>2. NoNewHolder
    BY <1>1 DEF Interrupted, IInv, PollsOK, PollType, NoNewHolder
  <2>3. PollsOK'
    BY <2>1, <2>2, PollsKept DEF IInv
  <2> QED
    BY <1>1, <2>3, RowsKept, LeasesUnchanged, FaultsKept DEF Interrupted, IInv
<1>2. CASE Start(t) \/ NextMessage(t) \/ Reject(t)
  BY <1>2, MoveSound DEF Start, NextMessage, Reject, Place
<1>3. CASE Stop(t)
  BY <1>3, MoveSound DEF Stop, Place
<1>4. CASE Deliver(t) \/ Complete(t)
  BY <1>0, <1>4, OutcomeSound DEF Deliver, Complete, Place
<1>5. CASE DeliveryFails(t) \/ Fail(t)
  BY <1>0, <1>5, OutcomeSound DEF DeliveryFails, Fail, Place
<1>6. CASE ReleaseDestination(t)
  <2>1. PICK to \in Place :
          poll' = [poll EXCEPT ![t].at = to, ![t].destination = NoToken]
    <3>1. PICK step \in {<<"delivered", "polling">>, <<"undelivered", "failed">>,
                         <<"undelivered", "leaving">>} :
            poll' = [poll EXCEPT ![t].at = step[2], ![t].destination = NoToken]
      BY <1>6, Zenon DEF ReleaseDestination
    <3>2. step[2] \in Place
      BY DEF Place
    <3> QED
      BY <3>1, <3>2, Zenon
  <2>2. poll' \in [Poller -> PollType] /\ NoNewHolder
    BY <2>1 DEF IInv, PollsOK, PollType, NoNewHolder
  <2>3. PollsOK'
    BY <2>2, PollsKept DEF IInv
  <2>4. ReleaseOrLose(DestinationKey[t], poll[t].destination)
    BY <1>6 DEF ReleaseDestination
  <2>5. LeasesOK' /\ NoNewLease
    BY <1>0, <2>4, ReleaseSound DEF IInv
  <2>6. Fault \/ UNCHANGED faults
    BY <2>4 DEF ReleaseOrLose
  <2>7. RowsOK'
    BY <1>6, RowsKept DEF ReleaseDestination, IInv
  <2> QED
    BY <2>3, <2>5, <2>6, <2>7, FaultsKept DEF IInv
<1>7. CASE ReleaseSource(t)
  <2>1. PICK to \in Place :
          poll' = [poll EXCEPT ![t].at = to, ![t].source = NoToken]
    <3>1. PICK step \in {<<"polling", "completed">>, <<"leaving", "idle">>} :
            poll' = [poll EXCEPT ![t].at = step[2], ![t].source = NoToken]
      BY <1>7, Zenon DEF ReleaseSource
    <3>2. step[2] \in Place
      BY DEF Place
    <3> QED
      BY <3>1, <3>2, Zenon
  <2>2. poll' \in [Poller -> PollType] /\ NoNewHolder
    BY <2>1 DEF IInv, PollsOK, PollType, NoNewHolder
  <2>3. PollsOK'
    BY <2>2, PollsKept DEF IInv
  <2>4. ReleaseOrLose(SourceKey[t], poll[t].source)
    BY <1>7 DEF ReleaseSource
  <2>5. LeasesOK' /\ NoNewLease
    BY <1>0, <2>4, ReleaseSound DEF IInv
  <2>6. Fault \/ UNCHANGED faults
    BY <2>4 DEF ReleaseOrLose
  <2>7. RowsOK'
    BY <1>7, RowsKept DEF ReleaseSource, IInv
  <2> QED
    BY <2>3, <2>5, <2>6, <2>7, FaultsKept DEF IInv
<1> QED
  BY <1>1, <1>2, <1>3, <1>4, <1>5, <1>6, <1>7

LEMMA TickSound ==
  ASSUME IInv, Tick
  PROVE  IInv' /\ NoNewLease
<1> USE DEF Tick
<1>1. RowsOK'
  <2>1. row' \in [Key -> RowType]
    <3>1. \A k \in Key : /\ row[k] \in RowType
                         /\ Less(row[k].next) \in Nat
      BY DEF IInv, RowsOK, RowType, Less
    <3>2. \A k \in Key : [row[k] EXCEPT !.next = Less(row[k].next)] \in RowType
      BY <3>1 DEF RowType
    <3> QED
      BY <3>2
  <2>2. distance' \in [Key -> Nat] /\ quiet' \in [Key -> Nat]
    BY Constants DEF IInv, RowsOK, Less, Smaller
  <2>3. ASSUME NEW k \in Key
        PROVE  KeyKeepsDistance(k)'
    <3>1. /\ row'[k].next = Less(row[k].next)
          /\ distance'[k] = Smaller(Spacing[k], distance[k] + 1)
          /\ quiet'[k] = Less(quiet[k])
      BY DEF IInv, RowsOK, RowType
    <3>2. /\ row[k].next \in Nat /\ quiet[k] \in Nat /\ distance[k] \in Nat
          /\ Spacing[k] \in Nat /\ KeyKeepsDistance(k)
      BY Constants DEF IInv, RowsOK, RowType
    <3>3. LongestDelay(k) \in Nat
      <4>1. 1 \in 1..MaxMultiplier /\ 0 \in Severity
        BY Constants DEF Severity
      <4> QED
        BY <4>1, DelayBounds
    <3> QED
      BY <3>1, <3>2, <3>3 DEF KeyKeepsDistance, LongestDelay, Less, Smaller
  <2> QED
    BY <2>1, <2>2, <2>3 DEF RowsOK
<1>2. LeasesOK' /\ NoNewLease
  <2>1. lease' \in [Key -> [Token -> 0..Ttl]]
    BY Constants DEF IInv, LeasesOK, Less
  <2>2. NoNewLease
    BY Constants DEF IInv, LeasesOK, Less, NoNewLease
  <2> QED
    BY <2>1, <2>2, LeasesKept DEF IInv
<1>3. PollsOK'
  <2>1. \A t \in Poller : /\ poll[t] \in PollType
                          /\ Less(poll[t].sleep) \in Nat
    BY DEF IInv, PollsOK, PollType, Less
  <2>2. \A t \in Poller : [poll[t] EXCEPT !.sleep = Less(poll[t].sleep)] \in PollType
    BY <2>1 DEF PollType
  <2>3. poll' \in [Poller -> PollType]
    BY <2>2
  <2>4. NoNewHolder
    BY <2>1 DEF PollType, NoNewHolder
  <2> QED
    BY <2>3, <2>4, PollsKept DEF IInv
<1> QED
  BY <1>1, <1>2, <1>3, FaultsKept DEF IInv

LEMMA CrashSound ==
  ASSUME IInv, Crash
  PROVE  IInv' /\ NoNewLease
<1>1. PollsOK'
  <2>1. poll' \in [Poller -> PollType] /\ NoNewHolder
    BY DEF Crash, Idle, PollType, Place, NoNewHolder
  <2> QED
    BY <2>1, PollsKept DEF IInv
<1> QED
  BY <1>1, RowsKept, LeasesUnchanged, FaultsKept DEF Crash, IInv

LEMMA NextSound ==
  ASSUME IInv, [Next]_vars
  PROVE  IInv' /\ (NoNewLease \/ \E t \in Poller, k \in Key : Grant(t, k))
<1>1. CASE Tick
  BY <1>1, TickSound
<1>2. CASE Crash
  BY <1>2, CrashSound
<1>3. ASSUME NEW t \in Poller, Attempt(t)
      PROVE  IInv' /\ (NoNewLease \/ \E u \in Poller, k \in Key : Grant(u, k))
  BY <1>3, AttemptSound DEF Attempt
<1>4. CASE UNCHANGED vars
  <2>1. UNCHANGED <<row, lease, histories, faults>> /\ UNCHANGED poll
    BY <1>4 DEF vars
  <2>2. PollsOK'
    BY <2>1 DEF IInv, PollsOK, TokensAreUnique, Holds
  <2> QED
    BY <2>1, <2>2, RowsKept, LeasesUnchanged, FaultsKept DEF IInv
<1>5. ASSUME NEW t \in Poller,
             \/ Interrupted(t)
             \/ Start(t) \/ NextMessage(t) \/ Stop(t) \/ Deliver(t) \/ Reject(t)
             \/ DeliveryFails(t) \/ Fail(t) \/ ReleaseDestination(t) \/ ReleaseSource(t)
             \/ Complete(t)
      PROVE  IInv' /\ NoNewLease
  BY <1>5, PollSound
<1> QED
  BY <1>1, <1>2, <1>3, <1>4, <1>5 DEF Next

-----------------------------------------------------------------------------
(* Theorems. *)

LEMMA InvariantHolds == Spec => []IInv
<1>1. Init => IInv
  BY InitSound
<1>2. IInv /\ [Next]_vars => IInv'
  BY NextSound
<1> QED
  BY <1>1, <1>2, PTL DEF Spec

\* The adaptive multiplier stays between its floor and its ceiling and no delay
\* gets longer than the longest penalty, in every sequence of outcomes
\* (updateAdaptiveState).
THEOREM TypeCorrect == Spec => []TypeOK
<1>1. IInv => TypeOK
  BY DEF IInv, RowsOK, RowType, KeyKeepsDistance, LeasesOK, PollsOK, PollType, TypeOK
<1> QED
  BY <1>1, InvariantHolds, PTL

\* No more polls of a key hold a lease that has not expired than it allows at once
\* (tryAcquire): a poll is given one that nobody holds, when there is room.
THEOREM LeasesAlwaysCapped == Spec => []LeasedPollsAreCapped
<1>1. ASSUME IInv, NEW k \in Key
      PROVE  Cardinality(Leased(k)) <= Cap[k]
  <2> DEFINE f == [t \in Leased(k) |-> CHOOSE n \in Active(k) : Holds(t, k, n)]
  <2>1. \A t \in Leased(k) : f[t] \in Active(k) /\ Holds(t, k, f[t])
    BY DEF Leased
  <2> HIDE DEF f
  <2>2. \A t, u \in Leased(k) : f[t] = f[u] => t = u
    BY <1>1, <2>1 DEF IInv, PollsOK, TokensAreUnique, Active, Leased
  <2>3. f \in Injection(Leased(k), Active(k))
    <3>1. f \in [Leased(k) -> Active(k)]
      BY <2>1 DEF f
    <3> QED
      BY <2>2, <3>1 DEF Injection, IsInjective
  <2>4. /\ IsFiniteSet(Leased(k))
        /\ Cardinality(Leased(k)) <= Cardinality(Active(k))
    BY <2>3, ActiveIsFinite, FS_Injection
  <2>5. Cardinality(Leased(k)) \in Nat
    BY <2>4, FS_CardinalityType
  <2>6. Cardinality(Active(k)) <= Cap[k] /\ Cap[k] \in Nat
    BY <1>1, Constants DEF IInv, LeasesOK
  <2> QED
    BY <2>4, <2>5, <2>6, ActiveIsFinite
<1>2. IInv => LeasedPollsAreCapped
  BY <1>1 DEF LeasedPollsAreCapped
<1> QED
  BY <1>2, InvariantHolds, PTL

\* However polls interleave, a key is given no sooner than its spacing after it was
\* given last, and not before every penalty is served (tryAcquire, nextAllowedAt).
THEOREM LeasesAlwaysKeepTheirDistance == Spec => LeasesKeepTheirDistance
<1>1. ASSUME IInv, [Next]_vars,
             NEW k \in Key, NEW n \in Token, lease[k][n] = 0, lease'[k][n] > 0
      PROVE  distance[k] >= Spacing[k] /\ quiet[k] = 0
  <2>1. ~NoNewLease
    BY <1>1 DEF NoNewLease
  <2>2. PICK t \in Poller, j \in Key : Grant(t, j)
    BY <1>1, <2>1, NextSound
  <2>3. j = k
    BY <1>1, <2>2 DEF Grant, IInv, LeasesOK
  <2>4. row[k].next = 0
    BY <1>1, <2>2, <2>3, AvailableInType DEF Grant, IInv
  <2>5. /\ KeyKeepsDistance(k)
        /\ distance[k] \in Nat /\ quiet[k] \in Nat
    BY <1>1 DEF IInv, RowsOK
  <2> QED
    BY <2>4, <2>5, Constants DEF KeyKeepsDistance
<1>2. IInv /\ [Next]_vars
      => [\A k \in Key : \A n \in Token :
            lease[k][n] = 0 /\ lease'[k][n] > 0
            => distance[k] >= Spacing[k] /\ quiet[k] = 0]_vars
  BY <1>1
<1> QED
  BY <1>2, InvariantHolds, PTL DEF Spec, LeasesKeepTheirDistance

=============================================================================
