--------------------------- MODULE RateLimiterProofs ---------------------------
(* Proofs about RateLimiter, for every limit and every length of the windows. *)
EXTENDS RateLimiter, FiniteSetTheorems, WellFoundedInduction, TLAPS

\* A set of numbers has a least one.
LEMMA LeastExists ==
    ASSUME NEW S, S \subseteq Nat, S # {}
    PROVE  \E i \in S : \A j \in S : i <= j
<1> DEFINE R == OpToRel(<, Nat)
<1>1. IsWellFoundedOn(R, Nat)
  BY NatLessThanWellFounded
<1>2. PICK i \in S : \A j \in S : <<j, i>> \notin R
  <2> HIDE DEF R
  <2> QED BY <1>1, WFMin, Zenon
<1>3. ASSUME NEW j \in S PROVE i <= j
  <2>1. i \in Nat /\ j \in Nat
    OBVIOUS
  <2>2. <<j, i>> \notin R
    BY <1>2
  <2>3. ~(j < i)
    BY <2>1, <2>2 DEF OpToRel
  <2> QED BY <2>1, <2>3
<1> QED BY <1>3

\* What int() of a waiting time does.
LEMMA TruncatedWait ==
    ASSUME NEW x \in Nat
    PROVE  Truncated(x) \in Nat /\ x < Truncated(x) + Second
<1>1. Second \in Nat \ {0}
  BY LimitAssumption
<1>2. x % Second \in Nat /\ x % Second < Second
  BY <1>1
<1>3. x % Second <= x
  <2>1. CASE x < Second
    <3>1. x % Second = x
      BY <1>1, <2>1
    <3> QED BY <3>1
  <2>2. CASE x >= Second
    BY <1>1, <1>2, <2>2
  <2> QED BY <1>1, <2>1, <2>2
<1> QED BY <1>1, <1>2, <1>3 DEF Truncated

-----------------------------------------------------------------------------
(* The inductive invariant.  The list forgets only what is older than an hour, *)
(* so that counting it counts the admissions of the window.                    *)

Count == Len(admitted)

Sorted    == \A i, j \in DOMAIN admitted : i <= j => admitted[i] <= admitted[j]
Past      == \A i \in DOMAIN admitted : admitted[i] <= now
Forgotten == \A i \in DOMAIN admitted \ kept : admitted[i] <= now - Hour

\* What the wait of a refusal is enough for, as long as nobody is admitted.
MinuteWait == refusal = "minute" =>
    \A i \in DOMAIN admitted : admitted[i] + Minute < refusedAt + retryAfter + Second
HourWait == refusal = "hour" =>
    \E i \in DOMAIN admitted : /\ admitted[i] + Hour < refusedAt + retryAfter + Second
                               /\ Cardinality(kept \ {i}) < PerHour

IInv == /\ TypeOK /\ Sorted /\ Past /\ Forgotten
        /\ MinuteLimit /\ HourLimit /\ KeptBounded
        /\ MinuteWait /\ HourWait

LEMMA InitInv == Init => IInv
<1> SUFFICES ASSUME Init PROVE IInv
  OBVIOUS
<1> USE DEF Init
<1>1. DOMAIN admitted = {} /\ admitted \in Seq(Nat)
  OBVIOUS
<1>2. TypeOK
  BY <1>1 DEF TypeOK
<1>3. Sorted /\ Past /\ Forgotten
  BY <1>1 DEF Sorted, Past, Forgotten
<1>4. MinuteLimit /\ HourLimit
  BY <1>1 DEF MinuteLimit, HourLimit, Spread
<1>5. KeptBounded
  BY FS_EmptySet, LimitAssumption DEF KeptBounded
<1> QED BY <1>2, <1>3, <1>4, <1>5 DEF IInv, MinuteWait, HourWait

\* The cleanup keeps a part of the list and forgets what is older than an hour.
LEMMA CleaningInv ==
    ASSUME IInv
    PROVE  /\ Cleaned \subseteq kept
           /\ \A i \in DOMAIN admitted \ Cleaned : admitted[i] <= now - Hour
           /\ IsFiniteSet(Cleaned) /\ Cardinality(Cleaned) <= PerHour
           /\ \A i : /\ IsFiniteSet(Cleaned \ {i})
                     /\ Cardinality(Cleaned \ {i}) <= Cardinality(kept \ {i})
                     /\ Cardinality(kept \ {i}) \in Nat
<1> USE DEF IInv
<1>0. now \in Nat /\ Hour \in Nat /\ PerHour \in Nat
  BY LimitAssumption DEF TypeOK
<1>1. Cleaned \subseteq kept
  BY DEF Cleaned
<1>2. ASSUME NEW i \in DOMAIN admitted \ Cleaned PROVE admitted[i] <= now - Hour
  <2>1. admitted[i] \in Nat
    BY DEF TypeOK
  <2>2. CASE i \notin kept
    BY <2>2 DEF Forgotten
  <2>3. CASE i \in kept
    <3>1. ~(admitted[i] > now - Hour)
      BY <2>3 DEF Cleaned
    <3> QED BY <1>0, <2>1, <3>1
  <2> QED BY <2>2, <2>3
<1>3. IsFiniteSet(kept) /\ Cardinality(kept) \in Nat
  BY FS_CardinalityType DEF KeptBounded
<1>4. IsFiniteSet(Cleaned) /\ Cardinality(Cleaned) <= Cardinality(kept)
  BY <1>1, <1>3, FS_Subset
<1>5. Cardinality(Cleaned) <= PerHour
  <2>1. Cardinality(Cleaned) \in Nat
    BY <1>4, FS_CardinalityType
  <2> QED BY <1>0, <1>3, <1>4, <2>1 DEF KeptBounded
<1>6. ASSUME NEW i
      PROVE  /\ IsFiniteSet(Cleaned \ {i})
             /\ Cardinality(Cleaned \ {i}) <= Cardinality(kept \ {i})
             /\ Cardinality(kept \ {i}) \in Nat
  <2>1. IsFiniteSet(kept \ {i})
    BY <1>3, FS_Subset
  <2>2. Cleaned \ {i} \subseteq kept \ {i}
    BY <1>1
  <2> QED BY <2>1, <2>2, FS_Subset, FS_CardinalityType
<1> QED BY <1>1, <1>2, <1>4, <1>5, <1>6

\* Fewer than limit admissions later than the cutoff: the limit-th from the end
\* is not later.
LEMMA FewRecent ==
    ASSUME TypeOK, Sorted, NEW cutoff \in Int, NEW limit \in Nat \ {0}, NEW S,
           S \subseteq DOMAIN admitted,
           \A i \in DOMAIN admitted : admitted[i] > cutoff => i \in S,
           Cardinality(S) < limit, limit <= Count
    PROVE  admitted[Count + 1 - limit] <= cutoff
<1>1. Count \in Nat /\ DOMAIN admitted = 1..Count
  <2>1. admitted \in Seq(Nat)
    BY DEF TypeOK
  <2> QED BY <2>1 DEF Count
<1> DEFINE first == Count + 1 - limit
<1>2. first \in DOMAIN admitted /\ first \in Int /\ Count - first + 1 = limit
  BY <1>1
<1>3. admitted[first] \in Nat
  BY <1>2 DEF TypeOK
<1>4. SUFFICES ASSUME admitted[first] > cutoff PROVE FALSE
  BY <1>3
<1>5. first..Count \subseteq S
  <2> SUFFICES ASSUME NEW i \in first..Count PROVE i \in S
    OBVIOUS
  <2>1. i \in DOMAIN admitted /\ first <= i
    BY <1>1, <1>2
  <2>2. admitted[i] \in Nat /\ admitted[first] <= admitted[i]
    BY <1>2, <2>1 DEF TypeOK, Sorted
  <2> QED BY <1>3, <1>4, <2>1, <2>2
<1>6. Cardinality(first..Count) = limit
  BY <1>1, <1>2, FS_Interval
<1>7. IsFiniteSet(S)
  <2>1. IsFiniteSet(1..Count)
    BY <1>1, FS_Interval
  <2> QED BY <1>1, <2>1, FS_Subset
<1>8. limit <= Cardinality(S) /\ Cardinality(S) \in Nat
  <2>1. Cardinality(S) \in Nat
    BY <1>7, FS_CardinalityType
  <2> DEFINE last == first..Count
  <2>2. last \subseteq S /\ Cardinality(last) = limit
    BY <1>5, <1>6
  <2>3. Cardinality(last) <= Cardinality(S)
    <3> HIDE DEF last
    <3> QED BY <1>7, <2>2, FS_Subset
  <2> QED BY <2>1, <2>2, <2>3
<1> QED BY <1>8

\* A set of numbers up to n has a greatest one.
LEMMA GreatestExists ==
    ASSUME NEW n \in Nat, NEW S, S \subseteq 1..n, S # {}
    PROVE  \E i \in S : \A j \in S : j <= i
<1> DEFINE T == {n - i : i \in S}
<1>1. T \subseteq Nat /\ T # {}
  <2>1. \A i \in S : n - i \in Nat
    <3> SUFFICES ASSUME NEW i \in S PROVE n - i \in Nat
      OBVIOUS
    <3>1. i \in 1..n
      OBVIOUS
    <3> QED BY <3>1
  <2>2. \E i \in S : n - i \in T
    OBVIOUS
  <2> QED BY <2>1, <2>2, Zenon
<1>2. PICK t \in T : \A u \in T : t <= u
  <2> HIDE DEF T
  <2> QED BY <1>1, LeastExists
<1>3. PICK i \in S : t = n - i
  BY <1>2
<1>4. ASSUME NEW j \in S PROVE j <= i
  <2>1. n - j \in T
    OBVIOUS
  <2>2. n - i <= n - j
    BY <1>2, <1>3, <2>1
  <2>3. i \in Nat /\ j \in Nat
    OBVIOUS
  <2> QED BY <2>2, <2>3
<1> QED BY <1>4

\* Full windows are not empty, and the list has a first and a last timestamp.
LEMMA FirstAndLast ==
    ASSUME IInv, NEW window \in Nat, NEW limit \in Nat \ {0},
           Cardinality(Within(Cleaned, window)) >= limit
    PROVE  /\ \E i \in Cleaned : admitted[i] > now - window
           /\ Oldest(Cleaned) \in Cleaned /\ Newest(Cleaned) \in Cleaned
           /\ \A j \in Cleaned : Oldest(Cleaned) <= j /\ j <= Newest(Cleaned)
<1>1. Within(Cleaned, window) # {}
  BY FS_EmptySet
<1>2. PICK i \in Cleaned : admitted[i] > now - window
  BY <1>1 DEF Within
<1>3. Cleaned \subseteq 1..Count /\ Count \in Nat
  <2>1. admitted \in Seq(Nat) /\ kept \subseteq DOMAIN admitted
    BY DEF IInv, TypeOK
  <2>2. Cleaned \subseteq kept
    BY CleaningInv
  <2> QED BY <2>1, <2>2 DEF Count
<1>4. \E o \in Cleaned : \A j \in Cleaned : o <= j
  <2>1. Cleaned \subseteq Nat
    BY <1>3
  <2> QED BY <1>2, <2>1, LeastExists
<1>5. \E l \in Cleaned : \A j \in Cleaned : j <= l
  BY <1>2, <1>3, GreatestExists
<1> QED BY <1>2, <1>4, <1>5 DEF Oldest, Newest

-----------------------------------------------------------------------------
(* Every step keeps the invariant.                                            *)

\* A request that admits nothing cleans the list at most.
LEMMA CleanedInv ==
    ASSUME IInv, kept' = Cleaned, NoteCleanup, UNCHANGED <<now, admitted>>
    PROVE  /\ now' \in Nat /\ admitted' \in Seq(Nat) /\ lastCleanup' \in Nat
           /\ kept' \subseteq DOMAIN admitted'
           /\ Sorted' /\ Past' /\ Forgotten' /\ MinuteLimit' /\ HourLimit' /\ KeptBounded'
<1> USE DEF IInv
<1>1. Cleaned \subseteq kept /\ (\A i \in DOMAIN admitted \ Cleaned : admitted[i] <= now - Hour)
  BY CleaningInv
<1>2. IsFiniteSet(Cleaned) /\ Cardinality(Cleaned) <= PerHour
  BY CleaningInv
<1>3. now' \in Nat /\ admitted' \in Seq(Nat) /\ kept' \subseteq DOMAIN admitted'
  BY <1>1 DEF TypeOK
<1>4. lastCleanup' \in Nat
  BY DEF TypeOK, NoteCleanup
<1>5. Sorted' /\ Past'
  BY DEF Sorted, Past
<1>6. Forgotten'
  BY <1>1 DEF Forgotten
<1>7. MinuteLimit' /\ HourLimit'
  BY DEF MinuteLimit, HourLimit, Spread
<1>8. KeptBounded'
  BY <1>2 DEF KeptBounded
<1> QED BY <1>3, <1>4, <1>5, <1>6, <1>7, <1>8

LEMMA RefuseMinuteInv ==
    ASSUME IInv, RefuseMinute
    PROVE  IInv'
<1> DEFINE n == Newest(Cleaned)
           wait == Minute - (now - admitted[n])
<1>1. /\ refusal' = "minute" /\ refusedAt' = now /\ retryAfter' = Truncated(wait)
      /\ kept' = Cleaned /\ NoteCleanup /\ UNCHANGED <<now, admitted>>
  BY DEF RefuseMinute, Refused
<1>2. /\ now \in Nat /\ Minute \in Nat /\ Hour \in Nat /\ Minute <= Hour /\ Second \in Nat
      /\ PerMinute \in Nat \ {0}
  BY LimitAssumption DEF IInv, TypeOK
<1>3. \A i \in DOMAIN admitted : admitted[i] \in Nat
  BY DEF IInv, TypeOK
<1>4. Cleaned \subseteq DOMAIN admitted /\ (\A i \in DOMAIN admitted \ Cleaned : admitted[i] <= now - Hour)
  BY CleaningInv DEF IInv, TypeOK
<1>5. PICK w \in Cleaned : admitted[w] > now - Minute
  BY <1>2, FirstAndLast DEF RefuseMinute, MinuteFull
<1>6. n \in Cleaned /\ \A j \in Cleaned : j <= n
  BY <1>2, FirstAndLast DEF RefuseMinute, MinuteFull
<1>7. \A j \in Cleaned : admitted[j] <= admitted[n]
  BY <1>4, <1>6 DEF IInv, Sorted
<1>8. n \in DOMAIN admitted /\ admitted[n] \in Nat /\ admitted[n] > now - Minute
  <2>1. admitted[w] \in Nat /\ admitted[n] \in Nat /\ admitted[w] <= admitted[n]
    BY <1>3, <1>4, <1>5, <1>6, <1>7
  <2> HIDE DEF n
  <2> QED BY <1>2, <1>4, <1>5, <1>6, <2>1
<1>9. \A i \in DOMAIN admitted : admitted[i] <= admitted[n]
  <2> SUFFICES ASSUME NEW i \in DOMAIN admitted, i \notin Cleaned PROVE admitted[i] <= admitted[n]
    BY <1>7
  <2>1. admitted[i] <= now - Hour /\ admitted[i] \in Nat
    BY <1>3, <1>4
  <2> HIDE DEF n
  <2> QED BY <1>2, <1>8, <2>1
<1>10. wait \in Nat
  <2> HIDE DEF n
  <2>1. now - admitted[n] < Minute
    BY <1>2, <1>8
  <2> QED BY <1>2, <1>8, <2>1
<1>11. Truncated(wait) \in Nat /\ wait < Truncated(wait) + Second
  <2> HIDE DEF wait
  <2> QED BY <1>10, TruncatedWait
<1>12. TypeOK'
  <2> HIDE DEF wait
  <2>1. refusedAt' \in Nat /\ retryAfter' \in Nat /\ refusal' \in {"none", "minute", "hour"}
    BY <1>1, <1>2, <1>11
  <2> QED BY <1>1, <2>1, CleanedInv DEF TypeOK
<1>13. MinuteWait'
  <2> SUFFICES ASSUME NEW i \in DOMAIN admitted
               PROVE  admitted[i] + Minute < now + Truncated(wait) + Second
    BY <1>1 DEF MinuteWait
  <2>1. admitted[i] \in Nat /\ admitted[i] <= admitted[n]
    BY <1>3, <1>9
  <2>2. admitted[n] + Minute = now + wait
    <3> HIDE DEF n
    <3> QED BY <1>2, <1>8
  <2> HIDE DEF n, wait
  <2> QED BY <1>2, <1>8, <1>10, <1>11, <2>1, <2>2
<1>14. HourWait'
  BY <1>1 DEF HourWait
<1> QED BY <1>1, <1>12, <1>13, <1>14, CleanedInv DEF IInv

LEMMA RefuseHourInv ==
    ASSUME IInv, RefuseHour
    PROVE  IInv'
<1> DEFINE o == Oldest(Cleaned)
           wait == Hour - (now - admitted[o])
<1>1. /\ refusal' = "hour" /\ refusedAt' = now /\ retryAfter' = Truncated(wait)
      /\ kept' = Cleaned /\ NoteCleanup /\ UNCHANGED <<now, admitted>>
  BY DEF RefuseHour, Refused
<1>2. now \in Nat /\ Hour \in Nat /\ Second \in Nat /\ PerHour \in Nat \ {0}
  BY LimitAssumption DEF IInv, TypeOK
<1>3. \A i \in DOMAIN admitted : admitted[i] \in Nat
  BY DEF IInv, TypeOK
<1>4. Cleaned \subseteq DOMAIN admitted /\ IsFiniteSet(Cleaned) /\ Cardinality(Cleaned) <= PerHour
  BY CleaningInv DEF IInv, TypeOK
<1>5. o \in Cleaned
  BY <1>2, FirstAndLast DEF RefuseHour, HourFull
<1>6. Within(Cleaned, Hour) = Cleaned
  <2>1. Within(Cleaned, Hour) \subseteq Cleaned
    BY DEF Within
  <2>2. Cardinality(Within(Cleaned, Hour)) >= PerHour
    BY DEF RefuseHour, HourFull
  <2>3. Cardinality(Within(Cleaned, Hour)) \in Nat /\ Cardinality(Cleaned) \in Nat
    BY <1>4, <2>1, FS_Subset, FS_CardinalityType
  <2>4. Cardinality(Within(Cleaned, Hour)) <= Cardinality(Cleaned)
    BY <1>4, <2>1, FS_Subset
  <2>5. Cardinality(Cleaned) = Cardinality(Within(Cleaned, Hour))
    BY <1>2, <1>4, <2>2, <2>3, <2>4
  <2> QED BY <1>4, <2>1, <2>5, FS_Subset
<1>7. o \in DOMAIN admitted /\ admitted[o] \in Nat /\ admitted[o] > now - Hour
  BY <1>3, <1>4, <1>5, <1>6 DEF Within
<1>8. wait \in Nat
  <2> HIDE DEF o
  <2>1. admitted[o] <= now
    BY <1>7 DEF IInv, Past
  <2> QED BY <1>2, <1>7, <2>1
<1>9. Truncated(wait) \in Nat /\ wait < Truncated(wait) + Second
  <2> HIDE DEF wait
  <2> QED BY <1>8, TruncatedWait
<1>10. TypeOK'
  <2> HIDE DEF wait
  <2>1. refusedAt' \in Nat /\ retryAfter' \in Nat /\ refusal' \in {"none", "minute", "hour"}
    BY <1>1, <1>2, <1>9
  <2> QED BY <1>1, <2>1, CleanedInv DEF TypeOK
<1>11. admitted[o] + Hour < now + Truncated(wait) + Second
  <2>1. admitted[o] + Hour = now + wait
    <3> HIDE DEF o
    <3> QED BY <1>2, <1>7
  <2> HIDE DEF o, wait
  <2> QED BY <1>2, <1>7, <1>8, <1>9, <2>1
<1>12. Cardinality(Cleaned \ {o}) < PerHour
  <2> HIDE DEF o
  <2>1. Cardinality(Cleaned \ {o}) = Cardinality(Cleaned) - 1
    BY <1>4, <1>5, FS_RemoveElement
  <2>2. Cardinality(Cleaned) \in Nat
    BY <1>4, FS_CardinalityType
  <2> QED BY <1>2, <1>4, <2>1, <2>2
<1>13. HourWait' /\ MinuteWait'
  <2> HIDE DEF o, wait
  <2> QED BY <1>1, <1>7, <1>11, <1>12 DEF HourWait, MinuteWait
<1> QED BY <1>1, <1>10, <1>13, CleanedInv DEF IInv

\* An admission while the window is not full keeps the spread of the admissions.
LEMMA SpreadAdmit ==
    ASSUME IInv, NEW window \in Nat, window <= Hour, NEW limit \in Nat \ {0},
           Spread(limit, window), ~(Cardinality(Within(Cleaned, window)) >= limit),
           admitted' = Append(admitted, now)
    PROVE  Spread(limit, window)'
<1> DEFINE S == Within(Cleaned, window)
<1>1. now \in Nat /\ Hour \in Nat /\ admitted \in Seq(Nat) /\ DOMAIN admitted = 1..Count /\ Count \in Nat
  BY LimitAssumption DEF IInv, TypeOK, Count
<1>2. /\ DOMAIN admitted' = 1..(Count + 1)
      /\ \A i \in 1..Count : admitted'[i] = admitted[i] /\ admitted[i] \in Nat
      /\ admitted'[Count + 1] = now
  BY <1>1 DEF Count
<1>3. Cleaned \subseteq DOMAIN admitted /\ IsFiniteSet(Cleaned)
  BY CleaningInv DEF IInv, TypeOK
<1>4. S \subseteq DOMAIN admitted /\ Cardinality(S) < limit
  <2>1. S \subseteq Cleaned
    BY DEF Within
  <2>2. Cardinality(S) \in Nat
    BY <1>3, <2>1, FS_Subset, FS_CardinalityType
  <2> QED BY <1>3, <2>1, <2>2
<1>5. ASSUME NEW i \in DOMAIN admitted, admitted[i] > now - window PROVE i \in S
  <2>1. admitted[i] \in Nat
    BY <1>1, <1>2
  <2>2. ~(admitted[i] <= now - Hour)
    BY <1>1, <1>5, <2>1
  <2>3. i \in Cleaned
    BY <2>2, CleaningInv
  <2> QED BY <1>5, <2>3 DEF Within
<1>6. limit <= Count => admitted[Count + 1 - limit] <= now - window
  <2> HIDE DEF S
  <2>1. TypeOK /\ Sorted /\ now - window \in Int
    BY <1>1 DEF IInv
  <2> QED BY <1>4, <1>5, <2>1, FewRecent
<1>7. ASSUME NEW i \in 1..(Count + 1), i + limit \in 1..(Count + 1)
      PROVE  admitted'[i + limit] - admitted'[i] >= window
  <2>1. i \in 1..Count /\ limit <= Count
    BY <1>1, <1>7
  <2>2. CASE i + limit \in 1..Count
    BY <1>1, <1>2, <2>1, <2>2 DEF Spread
  <2>3. CASE i + limit = Count + 1
    <3>1. i = Count + 1 - limit
      BY <1>1, <2>1, <2>3
    <3>2. admitted[i] <= now - window
      BY <1>6, <2>1, <3>1
    <3>3. admitted'[i + limit] = now /\ admitted'[i] = admitted[i] /\ admitted[i] \in Nat
      BY <1>2, <2>1, <2>3
    <3> QED BY <1>1, <3>2, <3>3
  <2> QED BY <1>1, <1>7, <2>2, <2>3
<1> QED BY <1>2, <1>7 DEF Spread

LEMMA AdmitInv ==
    ASSUME IInv, Admit
    PROVE  IInv'
<1>1. /\ ~MinuteFull /\ ~HourFull /\ admitted' = Append(admitted, now)
      /\ kept' = {i \in Cleaned \union {Count + 1} : admitted'[i] > now - Hour}
      /\ refusal' = "none" /\ NoteCleanup /\ UNCHANGED <<now, refusedAt, retryAfter>>
  BY DEF Admit, Count
<1>2. /\ now \in Nat /\ Hour \in Nat /\ Minute \in Nat /\ Minute <= Hour /\ 0 < Hour
      /\ PerHour \in Nat \ {0} /\ PerMinute \in Nat \ {0}
  BY LimitAssumption DEF IInv, TypeOK
<1>3. /\ admitted \in Seq(Nat) /\ admitted' \in Seq(Nat)
      /\ DOMAIN admitted = 1..Count /\ DOMAIN admitted' = 1..(Count + 1) /\ Count \in Nat
  BY <1>1, <1>2 DEF IInv, TypeOK, Count
<1>4. /\ \A i \in 1..Count : admitted'[i] = admitted[i] /\ admitted[i] \in Nat /\ admitted[i] <= now
      /\ admitted'[Count + 1] = now
  BY <1>1, <1>2, <1>3 DEF IInv, Past, Count
<1>5. Cleaned \subseteq 1..Count /\ IsFiniteSet(Cleaned)
  BY <1>3, CleaningInv DEF IInv, TypeOK
<1>6. TypeOK'
  <2>1. lastCleanup' \in Nat
    BY <1>1 DEF IInv, TypeOK, NoteCleanup
  <2>2. kept' \subseteq DOMAIN admitted'
    <3>1. Cleaned \union {Count + 1} \subseteq 1..(Count + 1)
      BY <1>3, <1>5
    <3>2. kept' \subseteq Cleaned \union {Count + 1}
      BY <1>1
    <3> QED BY <1>3, <3>1, <3>2
  <2> QED BY <1>1, <1>3, <2>1, <2>2 DEF IInv, TypeOK
<1>7. Sorted'
  <2> SUFFICES ASSUME NEW i \in 1..(Count + 1), NEW j \in 1..(Count + 1), i <= j
               PROVE  admitted'[i] <= admitted'[j]
    BY <1>3 DEF Sorted
  <2>1. CASE j \in 1..Count
    <3>1. i \in 1..Count
      BY <1>3, <2>1
    <3>2. admitted[i] <= admitted[j]
      BY <1>3, <2>1, <3>1 DEF IInv, Sorted
    <3> QED BY <1>4, <2>1, <3>1, <3>2
  <2>2. CASE j = Count + 1
    BY <1>2, <1>3, <1>4, <2>2
  <2> QED BY <1>3, <2>1, <2>2
<1>8. Past'
  BY <1>1, <1>2, <1>3, <1>4 DEF Past
<1>9. Forgotten'
  <2> SUFFICES ASSUME NEW i \in 1..(Count + 1), i \notin kept'
               PROVE  admitted'[i] <= now - Hour
    BY <1>1, <1>3 DEF Forgotten
  <2>1. admitted'[i] \in Nat
    BY <1>2, <1>3, <1>4
  <2>2. CASE i \in Cleaned \union {Count + 1}
    <3>1. ~(admitted'[i] > now - Hour)
      BY <1>1, <2>2
    <3> QED BY <1>2, <2>1, <3>1
  <2>3. CASE i \notin Cleaned /\ i \in 1..Count
    BY <1>3, <1>4, <2>3, CleaningInv
  <2> QED BY <1>3, <2>2, <2>3
<1>10. MinuteLimit'
  <2>1. Spread(PerMinute, Minute)'
    BY <1>1, <1>2, SpreadAdmit DEF IInv, MinuteLimit, MinuteFull
  <2> QED BY <2>1 DEF MinuteLimit
<1>11. HourLimit'
  <2>1. Spread(PerHour, Hour)'
    BY <1>1, <1>2, SpreadAdmit DEF IInv, HourLimit, HourFull
  <2> QED BY <2>1 DEF HourLimit
<1>12. KeptBounded'
  <2> DEFINE S == Within(Cleaned, Hour)
             T == S \union {Count + 1}
  <2>1. S \subseteq Cleaned /\ IsFiniteSet(S) /\ Cardinality(S) \in Nat
    <3>1. S \subseteq Cleaned
      BY DEF Within
    <3> QED BY <1>5, <3>1, FS_Subset, FS_CardinalityType
  <2>2. Cardinality(S) < PerHour
    BY <1>1, <1>2, <2>1 DEF HourFull
  <2>3. IsFiniteSet(T) /\ Cardinality(T) <= Cardinality(S) + 1 /\ Cardinality(T) \in Nat
    <3> HIDE DEF S
    <3>1. IsFiniteSet(T) /\ Cardinality(T) = IF Count + 1 \in S THEN Cardinality(S) ELSE Cardinality(S) + 1
      BY <2>1, FS_AddElement
    <3> HIDE DEF T
    <3> QED BY <2>1, <3>1, FS_CardinalityType
  <2>4. kept' \subseteq T
    <3> SUFFICES ASSUME NEW i \in kept', i \in Cleaned PROVE i \in S
      BY <1>1
    <3>1. admitted'[i] > now - Hour /\ admitted'[i] = admitted[i]
      BY <1>1, <1>4, <1>5
    <3> QED BY <3>1 DEF Within
  <2>5. IsFiniteSet(kept') /\ Cardinality(kept') <= Cardinality(T) /\ Cardinality(kept') \in Nat
    <3> HIDE DEF T
    <3> QED BY <2>3, <2>4, FS_Subset, FS_CardinalityType
  <2> HIDE DEF S, T
  <2>6. Cardinality(kept') <= PerHour
    BY <1>2, <2>1, <2>2, <2>3, <2>5
  <2> QED BY <2>5, <2>6 DEF KeptBounded
<1>13. MinuteWait' /\ HourWait'
  BY <1>1 DEF MinuteWait, HourWait
<1> QED BY <1>6, <1>7, <1>8, <1>9, <1>10, <1>11, <1>12, <1>13 DEF IInv

LEMMA OtherKeyInv ==
    ASSUME IInv, OtherKey
    PROVE  IInv'
<1>1. kept' = Cleaned /\ NoteCleanup /\ UNCHANGED <<now, admitted, refusal, refusedAt, retryAfter>>
  BY DEF OtherKey
<1>2. TypeOK'
  <2>1. refusal' \in {"none", "minute", "hour"} /\ refusedAt' \in Nat /\ retryAfter' \in Nat
    BY <1>1 DEF IInv, TypeOK
  <2> QED BY <1>1, <2>1, CleanedInv DEF TypeOK
<1>3. MinuteWait'
  BY <1>1 DEF IInv, MinuteWait
<1>4. HourWait'
  <2> SUFFICES ASSUME refusal = "hour"
               PROVE  \E i \in DOMAIN admitted : /\ admitted[i] + Hour < refusedAt + retryAfter + Second
                                                 /\ Cardinality(Cleaned \ {i}) < PerHour
    BY <1>1 DEF HourWait
  <2>1. PICK i \in DOMAIN admitted : /\ admitted[i] + Hour < refusedAt + retryAfter + Second
                                     /\ Cardinality(kept \ {i}) < PerHour
    BY DEF IInv, HourWait
  <2>2. /\ Cardinality(Cleaned \ {i}) <= Cardinality(kept \ {i})
        /\ Cardinality(Cleaned \ {i}) \in Nat /\ Cardinality(kept \ {i}) \in Nat
    BY CleaningInv, FS_CardinalityType
  <2>3. Cardinality(Cleaned \ {i}) < PerHour
    BY <2>1, <2>2, LimitAssumption
  <2> QED BY <2>1, <2>3
<1> QED BY <1>1, <1>2, <1>3, <1>4, CleanedInv DEF IInv

LEMMA TickInv ==
    ASSUME IInv, Tick
    PROVE  IInv'
<1>1. now' = now + 1 /\ UNCHANGED <<admitted, kept, lastCleanup, refusal, refusedAt, retryAfter>>
  BY DEF Tick
<1>2. now \in Nat /\ Hour \in Nat /\ \A i \in DOMAIN admitted : admitted[i] \in Nat
  BY LimitAssumption DEF IInv, TypeOK
<1>3. TypeOK'
  BY <1>1 DEF IInv, TypeOK
<1>4. Sorted' /\ MinuteLimit' /\ HourLimit' /\ KeptBounded'
  BY <1>1 DEF IInv, Sorted, MinuteLimit, HourLimit, Spread, KeptBounded
<1>5. Past' /\ Forgotten'
  BY <1>1, <1>2 DEF IInv, Past, Forgotten
<1>6. MinuteWait' /\ HourWait'
  BY <1>1 DEF IInv, MinuteWait, HourWait
<1> QED BY <1>3, <1>4, <1>5, <1>6 DEF IInv

\* IInv is an invariant of the limiter.
THEOREM Inductive == Spec => []IInv
<1>1. ASSUME IInv, [Next]_vars PROVE IInv'
  <2>1. CASE RefuseMinute
    BY <1>1, <2>1, RefuseMinuteInv
  <2>2. CASE RefuseHour
    BY <1>1, <2>2, RefuseHourInv
  <2>3. CASE Admit
    BY <1>1, <2>3, AdmitInv
  <2>4. CASE OtherKey
    BY <1>1, <2>4, OtherKeyInv
  <2>5. CASE Tick
    BY <1>1, <2>5, TickInv
  <2>6. CASE UNCHANGED vars
    BY <1>1, <2>6 DEF vars, IInv, TypeOK, Sorted, Past, Forgotten, MinuteLimit, HourLimit,
       Spread, KeptBounded, MinuteWait, HourWait
  <2> QED BY <1>1, <2>1, <2>2, <2>3, <2>4, <2>5, <2>6 DEF Next
<1> QED BY <1>1, InitInv, PTL DEF Spec

-----------------------------------------------------------------------------
(* The theorems.                                                              *)

\* Every variable has its type, and a wait is never negative.
THEOREM TypeCorrect == Spec => []TypeOK
<1>1. IInv => TypeOK
  BY DEF IInv
<1> QED BY <1>1, Inductive, PTL

\* The list forgets too little for a window to admit more than its limit, whatever
\* the limits, the windows and the moments of the cleanups are.
THEOREM AtMostPerMinute == Spec => []MinuteLimit
<1>1. IInv => MinuteLimit
  BY DEF IInv
<1> QED BY <1>1, Inductive, PTL

\* Nor does an hour: trimming at an admission removes what is at least an hour old.
THEOREM AtMostPerHour == Spec => []HourLimit
<1>1. IInv => HourLimit
  BY DEF IInv
<1> QED BY <1>1, Inductive, PTL

\* Together: no window of either length admits more than its limit.
THEOREM WithinLimits == Spec => []WindowLimits
<1> QED BY AtMostPerMinute, AtMostPerHour, PTL DEF WindowLimits

\* A key keeps at most PerHour timestamps.
THEOREM Bounded == Spec => []KeptBounded
<1>1. IInv => KeptBounded
  BY DEF IInv
<1> QED BY <1>1, Inductive, PTL

\* A refusal's Retry-After, and the second that int() may have cut off, is long
\* enough for the window that refused.
THEOREM WaitIsEnough == Spec => []RetryAfterSuffices
<1>1. ASSUME IInv PROVE RetryAfterSuffices
  <2> SUFFICES ASSUME now >= refusedAt + retryAfter + Second
               PROVE  /\ refusal = "minute" => ~MinuteFull
                      /\ refusal = "hour" => ~HourFull
    BY DEF RetryAfterSuffices
  <2>1. /\ now \in Nat /\ refusedAt \in Nat /\ retryAfter \in Nat /\ Second \in Nat /\ Minute \in Nat
        /\ Hour \in Nat /\ PerMinute \in Nat \ {0} /\ PerHour \in Nat \ {0}
    BY <1>1, LimitAssumption DEF IInv, TypeOK
  <2>2. Cleaned \subseteq DOMAIN admitted /\ \A i \in DOMAIN admitted : admitted[i] \in Nat
    BY <1>1, CleaningInv DEF IInv, TypeOK
  <2>3. ASSUME refusal = "minute" PROVE ~MinuteFull
    <3>1. \A i \in DOMAIN admitted : admitted[i] + Minute < refusedAt + retryAfter + Second
      BY <1>1, <2>3 DEF IInv, MinuteWait
    <3>2. Within(Cleaned, Minute) = {}
      BY <2>1, <2>2, <3>1 DEF Within
    <3> QED BY <2>1, <3>2, FS_EmptySet DEF MinuteFull
  <2>4. ASSUME refusal = "hour" PROVE ~HourFull
    <3>1. PICK i \in DOMAIN admitted : /\ admitted[i] + Hour < refusedAt + retryAfter + Second
                                       /\ Cardinality(kept \ {i}) < PerHour
      BY <1>1, <2>4 DEF IInv, HourWait
    <3>2. Within(Cleaned, Hour) \subseteq Cleaned \ {i}
      BY <2>1, <2>2, <3>1 DEF Within
    <3>3. /\ IsFiniteSet(Cleaned \ {i}) /\ Cardinality(Cleaned \ {i}) <= Cardinality(kept \ {i})
          /\ Cardinality(kept \ {i}) \in Nat
      BY <1>1, CleaningInv
    <3>4. /\ Cardinality(Within(Cleaned, Hour)) <= Cardinality(Cleaned \ {i})
          /\ Cardinality(Within(Cleaned, Hour)) \in Nat /\ Cardinality(Cleaned \ {i}) \in Nat
      BY <3>2, <3>3, FS_Subset, FS_CardinalityType
    <3> QED BY <2>1, <3>1, <3>3, <3>4 DEF HourFull
  <2> QED BY <2>3, <2>4
<1> QED BY <1>1, Inductive, PTL
=============================================================================
