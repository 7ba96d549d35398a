------------------------- MODULE RequestGuardProofs -------------------------
(***************************************************************************)
(* The limit of the request guard, for any sources, limit, window and      *)
(* bounds of the map: forgetting attempts never changes a decision.        *)
(***************************************************************************)
EXTENDS RequestGuard, SequenceTheorems, FiniteSetTheorems,
        WellFoundedInduction, TLAPS

\* A bucket holds the end of what was admitted, and what it lacks is not in
\* the window any more.
Remembers(bucket, all, cutoff) ==
  /\ Len(bucket) <= Len(all)
  /\ \A i \in 1..Len(bucket) : bucket[i] = all[Len(all) - Len(bucket) + i]
  /\ \A i \in 1..(Len(all) - Len(bucket)) : all[i] <= cutoff

Ascending(all, last) ==
  /\ \A i \in 1..Len(all) : all[i] <= last
  /\ \A i, j \in 1..Len(all) : i <= j => all[i] <= all[j]

Spaced(all) ==
  \A i \in 1..Len(all) :
    i + Limit <= Len(all) => all[i + Limit] - all[i] >= Window

CountsType ==
  /\ clock \in Nat
  /\ attempts \in [Sources -> Seq(Int)]
  /\ admitted \in [Sources -> Seq(Int)]
  /\ returned \in [Sources -> BOOLEAN]

GuardInv ==
  /\ CountsType
  /\ \A s \in Sources : /\ Remembers(attempts[s], admitted[s], Cutoff)
                        /\ Ascending(admitted[s], clock)
                        /\ Spaced(admitted[s])

---------------------------------------------------------------------------
\* Where induction is needed: the least of a set of numbers.
LEMMA LeastOf ==
  ASSUME NEW S, S \subseteq Nat, S # {}
  PROVE  \E x \in S : \A y \in S : ~(y < x)
<1>1. \E x \in S : \A y \in S : ~(<<y, x>> \in OpToRel(<, Nat))
  BY WFMin, NatLessThanWellFounded, Zenon
<1> QED
  BY <1>1, Zenon DEF OpToRel

---------------------------------------------------------------------------
(* Purging.                                                                *)

\* How far the loop goes: to the first attempt that is not expired.
LEMMA ExpiredFacts ==
  ASSUME Cutoff \in Int, NEW bucket \in Seq(Int), NEW n, n = Expired(bucket)
  PROVE  /\ n \in 0..Len(bucket)
         /\ \A i \in 1..n : bucket[i] <= Cutoff
         /\ n < Len(bucket) => bucket[n + 1] > Cutoff
<1> DEFINE Stops(m) == /\ \A i \in 1..m : bucket[i] <= Cutoff
                       /\ m < Len(bucket) => bucket[m + 1] > Cutoff
           Alive == {i \in 1..Len(bucket) : ~(bucket[i] <= Cutoff)}
<1>1. \E m \in 0..Len(bucket) : Stops(m)
  <2>1. CASE Alive = {}
    BY <2>1
  <2>2. CASE Alive # {}
    <3>1. Alive \subseteq Nat
      OBVIOUS
    <3> HIDE DEF Alive
    <3>2. PICK x \in Alive : \A y \in Alive : ~(y < x)
      BY <2>2, <3>1, LeastOf, Zenon
    <3>3. /\ x \in 1..Len(bucket) /\ bucket[x] \in Int /\ ~(bucket[x] <= Cutoff)
          /\ \A i \in 1..Len(bucket) : bucket[i] <= Cutoff \/ ~(i < x)
      BY <3>2 DEF Alive
    <3>4. x - 1 \in 0..Len(bucket) /\ Stops(x - 1)
      BY <3>3
    <3> QED
      BY <3>4
  <2> QED
    BY <2>1, <2>2
<1> HIDE DEF Stops
<1>2. n \in 0..Len(bucket) /\ Stops(n)
  BY <1>1 DEF Expired, Stops
<1> QED
  BY <1>2 DEF Stops

LEMMA FreshFacts ==
  ASSUME Cutoff \in Int, NEW bucket \in Seq(Int)
  PROVE  \E n \in 0..Len(bucket) :
           /\ Fresh(bucket) \in Seq(Int)
           /\ Len(Fresh(bucket)) = Len(bucket) - n
           /\ \A i \in 1..(Len(bucket) - n) : Fresh(bucket)[i] = bucket[n + i]
           /\ \A i \in 1..n : bucket[i] <= Cutoff
           /\ n < Len(bucket) => bucket[n + 1] > Cutoff
<1> DEFINE n == Expired(bucket)
<1>1. /\ n \in 0..Len(bucket)
      /\ \A i \in 1..n : bucket[i] <= Cutoff
      /\ n < Len(bucket) => bucket[n + 1] > Cutoff
  BY ExpiredFacts
<1>2. Fresh(bucket) = SubSeq(bucket, n + 1, Len(bucket))
  BY DEF Fresh
<1> HIDE DEF n
<1>3. n + 1 \in Int /\ Len(bucket) \in Int
      /\ \A i \in (n + 1)..Len(bucket) : bucket[i] \in Int
  BY <1>1
<1>4. /\ SubSeq(bucket, n + 1, Len(bucket)) \in Seq(Int)
      /\ Len(SubSeq(bucket, n + 1, Len(bucket)))
           = IF n + 1 <= Len(bucket) THEN Len(bucket) - (n + 1) + 1 ELSE 0
      /\ \A i \in 1..(Len(bucket) - (n + 1) + 1) :
           SubSeq(bucket, n + 1, Len(bucket))[i] = bucket[n + 1 + i - 1]
  BY <1>3, SubSeqProperties
<1>5. /\ Fresh(bucket) \in Seq(Int)
      /\ Len(Fresh(bucket)) = Len(bucket) - n
      /\ \A i \in 1..(Len(bucket) - n) : Fresh(bucket)[i] = bucket[n + i]
  BY <1>1, <1>2, <1>4
<1> QED
  BY <1>1, <1>5

\* What is purged is not in the window.
LEMMA FreshRemembers ==
  ASSUME Cutoff \in Int, NEW bucket \in Seq(Int), NEW all \in Seq(Int),
         Remembers(bucket, all, Cutoff)
  PROVE  Fresh(bucket) \in Seq(Int) /\ Remembers(Fresh(bucket), all, Cutoff)
<1>1. PICK n \in 0..Len(bucket) :
        /\ Fresh(bucket) \in Seq(Int)
        /\ Len(Fresh(bucket)) = Len(bucket) - n
        /\ \A i \in 1..(Len(bucket) - n) : Fresh(bucket)[i] = bucket[n + i]
        /\ \A i \in 1..n : bucket[i] <= Cutoff
  BY FreshFacts
<1> DEFINE fresh == Fresh(bucket)
           k == Len(all) - Len(bucket)
<1> HIDE DEF fresh
<1>2. /\ Len(bucket) \in Nat /\ Len(all) \in Nat /\ k \in Nat
      /\ \A i \in 1..Len(bucket) : bucket[i] = all[k + i]
      /\ \A i \in 1..k : all[i] <= Cutoff
  BY DEF Remembers
<1>3. Len(all) - Len(fresh) = k + n
  <2>1. n \in Nat /\ Len(fresh) = Len(bucket) - n
    BY <1>1 DEF fresh
  <2> QED
    BY <1>2, <2>1
<1>4. \A i \in 1..Len(fresh) : fresh[i] = all[(k + n) + i]
  BY <1>1, <1>2 DEF fresh
<1>5. \A i \in 1..(k + n) : all[i] <= Cutoff
  <2>1. ASSUME NEW i \in 1..(k + n) PROVE all[i] <= Cutoff
    <3>1. CASE i <= k
      BY <1>2, <3>1
    <3>2. CASE i > k
      <4>1. i - k \in 1..n /\ i - k \in 1..Len(bucket)
        BY <1>2, <3>2
      <4>2. bucket[i - k] = all[k + (i - k)] /\ bucket[i - k] <= Cutoff
        BY <1>1, <1>2, <4>1
      <4>3. k + (i - k) = i
        BY <1>2
      <4> QED
        BY <4>2, <4>3
    <3> QED
      BY <1>2, <3>1, <3>2
  <2> QED
    BY <2>1
<1>6. Len(fresh) <= Len(all)
  BY <1>1, <1>2 DEF fresh
<1>7. Remembers(fresh, all, Cutoff)
  BY <1>3, <1>4, <1>5, <1>6 DEF Remembers
<1> QED
  BY <1>1, <1>7 DEF fresh

\* A purged bucket is full exactly if the last attempts are in the window.
LEMMA FreshDecides ==
  ASSUME Cutoff \in Int, NEW bucket \in Seq(Int), NEW all \in Seq(Int), NEW last,
         Remembers(bucket, all, Cutoff), Ascending(all, last)
  PROVE  Len(Fresh(bucket)) >= Limit
           <=> Len(all) >= Limit /\ all[Len(all) - Limit + 1] > Cutoff
<1> DEFINE fresh == Fresh(bucket)
<1>1. fresh \in Seq(Int) /\ Remembers(fresh, all, Cutoff)
  BY FreshRemembers
<1>2. Len(fresh) > 0 => fresh[1] > Cutoff
  <2>1. PICK n \in 0..Len(bucket) :
          /\ Len(Fresh(bucket)) = Len(bucket) - n
          /\ \A i \in 1..(Len(bucket) - n) : Fresh(bucket)[i] = bucket[n + i]
          /\ n < Len(bucket) => bucket[n + 1] > Cutoff
    BY FreshFacts
  <2>2. ASSUME Len(bucket) - n > 0
        PROVE  Fresh(bucket)[1] = bucket[n + 1] /\ bucket[n + 1] > Cutoff
    <3>1. 1 \in 1..(Len(bucket) - n) /\ n < Len(bucket)
      BY <2>2
    <3>2. Fresh(bucket)[1] = bucket[n + 1]
      BY <2>1, <3>1
    <3> QED
      BY <2>1, <3>1, <3>2
  <2> QED
    BY <2>1, <2>2
<1> HIDE DEF fresh
<1>3. /\ Limit \in Nat \ {0} /\ Len(all) \in Nat /\ Len(fresh) \in 0..Len(all)
      /\ \A i \in 1..Len(all) : all[i] \in Int
  BY <1>1, GuardAssumption DEF Remembers
<1>4. CASE Len(fresh) >= Limit
  <2>1. fresh[1] = all[Len(all) - Len(fresh) + 1] /\ fresh[1] > Cutoff
    BY <1>1, <1>2, <1>3, <1>4 DEF Remembers
  <2>2. all[Len(all) - Len(fresh) + 1] <= all[Len(all) - Limit + 1]
    <3> DEFINE i == Len(all) - Len(fresh) + 1
               j == Len(all) - Limit + 1
    <3>1. i \in 1..Len(all) /\ j \in 1..Len(all) /\ i <= j
      BY <1>3, <1>4
    <3> HIDE DEF i, j
    <3>2. all[i] <= all[j]
      BY <3>1 DEF Ascending
    <3> QED
      BY <3>2 DEF i, j
  <2> DEFINE first == all[Len(all) - Len(fresh) + 1]
             oldest == all[Len(all) - Limit + 1]
  <2>3. first > Cutoff /\ first <= oldest
    BY <2>1, <2>2
  <2>4. first \in Int /\ oldest \in Int /\ Len(all) >= Limit
    <3>1. Len(all) - Len(fresh) + 1 \in 1..Len(all)
          /\ Len(all) - Limit + 1 \in 1..Len(all) /\ Len(all) >= Limit
      BY <1>3, <1>4
    <3> QED
      BY <1>3, <3>1
  <2> HIDE DEF first, oldest
  <2>5. oldest > Cutoff
    BY <2>3, <2>4
  <2> QED
    BY <1>4, <2>4, <2>5 DEF fresh, oldest
<1>5. CASE ~(Len(fresh) >= Limit) /\ Len(all) >= Limit
  <2>1. Len(all) - Limit + 1 \in 1..(Len(all) - Len(fresh))
    BY <1>3, <1>5
  <2>2. all[Len(all) - Limit + 1] <= Cutoff
    BY <1>1, <2>1 DEF Remembers
  <2> QED
    BY <1>3, <1>5, <2>1, <2>2 DEF fresh
<1> QED
  BY <1>3, <1>4, <1>5 DEF fresh

---------------------------------------------------------------------------
(* Admitting.                                                              *)

LEMMA Appending ==
  ASSUME NEW bucket \in Seq(Int), NEW all \in Seq(Int), NEW cutoff \in Int,
         NEW time \in Int, Remembers(bucket, all, cutoff)
  PROVE  Remembers(Append(bucket, time), Append(all, time), cutoff)
<1> DEFINE more == Append(bucket, time)
           every == Append(all, time)
           k == Len(all) - Len(bucket)
<1>1. /\ more \in Seq(Int) /\ Len(more) = Len(bucket) + 1
      /\ \A i \in 1..Len(bucket) : more[i] = bucket[i]
      /\ more[Len(bucket) + 1] = time
  BY AppendProperties
<1>2. /\ every \in Seq(Int) /\ Len(every) = Len(all) + 1
      /\ \A i \in 1..Len(all) : every[i] = all[i]
      /\ every[Len(all) + 1] = time
  BY AppendProperties
<1>3. /\ Len(bucket) \in Nat /\ Len(all) \in Nat /\ k \in Nat
      /\ \A i \in 1..Len(bucket) : bucket[i] = all[k + i]
      /\ \A i \in 1..k : all[i] <= cutoff
  BY DEF Remembers
<1> HIDE DEF more, every
<1>4. Len(every) - Len(more) = k /\ Len(more) <= Len(every)
  BY <1>1, <1>2, <1>3
<1>5. \A i \in 1..Len(more) : more[i] = every[k + i]
  <2>1. ASSUME NEW i \in 1..Len(more) PROVE more[i] = every[k + i]
    <3>1. CASE i = Len(bucket) + 1
      BY <1>1, <1>2, <1>3, <3>1
    <3>2. CASE i \in 1..Len(bucket)
      <4>1. k + i \in 1..Len(all)
        BY <1>3, <3>2
      <4>2. more[i] = bucket[i] /\ bucket[i] = all[k + i] /\ every[k + i] = all[k + i]
        BY <1>1, <1>2, <1>3, <3>2, <4>1
      <4> QED
        BY <4>2
    <3> QED
      BY <1>1, <1>3, <3>1, <3>2
  <2> QED
    BY <2>1
<1>6. \A i \in 1..k : every[i] <= cutoff
  <2>1. ASSUME NEW i \in 1..k PROVE every[i] <= cutoff
    <3>1. i \in 1..Len(all)
      BY <1>3
    <3> QED
      BY <1>2, <1>3, <3>1
  <2> QED
    BY <2>1
<1>7. Remembers(more, every, cutoff)
  BY <1>4, <1>5, <1>6 DEF Remembers
<1> QED
  BY <1>7 DEF more, every

\* What is forgotten stays out of the window as the window moves on.
LEMMA RemembersLater ==
  ASSUME NEW bucket \in Seq(Int), NEW all \in Seq(Int), NEW cutoff \in Int,
         NEW later \in Int, cutoff <= later, Remembers(bucket, all, cutoff)
  PROVE  Remembers(bucket, all, later)
BY DEF Remembers

\* The attempt that is let through keeps the distance to the Limit-th before.
LEMMA Spacing ==
  ASSUME NEW all \in Seq(Int), clock \in Nat, Ascending(all, clock), Spaced(all),
         ~(Len(all) >= Limit /\ all[Len(all) - Limit + 1] > Cutoff)
  PROVE  /\ Ascending(Append(all, clock), clock)
         /\ Spaced(Append(all, clock))
<1> DEFINE every == Append(all, clock)
<1>1. /\ Len(every) = Len(all) + 1 /\ Len(all) \in Nat
      /\ \A i \in 1..Len(all) : every[i] = all[i] /\ all[i] \in Int
      /\ every[Len(all) + 1] = clock
  BY AppendProperties
<1>2. /\ \A i \in 1..Len(all) : all[i] <= clock
      /\ \A i, j \in 1..Len(all) : i <= j => all[i] <= all[j]
  BY DEF Ascending
<1>3. Limit \in Nat \ {0} /\ Window \in Nat
  BY GuardAssumption
<1> HIDE DEF every
<1>4. Ascending(every, clock)
  <2>1. \A i \in 1..Len(every) : every[i] <= clock
    BY <1>1, <1>2
  <2>2. ASSUME NEW i \in 1..Len(every), NEW j \in 1..Len(every), i <= j
        PROVE  every[i] <= every[j]
    <3>1. CASE j = Len(all) + 1
      BY <1>1, <2>1, <3>1
    <3>2. CASE j \in 1..Len(all)
      <4>1. i \in 1..Len(all)
        BY <1>1, <2>2, <3>2
      <4>2. all[i] <= all[j] /\ every[i] = all[i] /\ every[j] = all[j]
        BY <1>1, <1>2, <2>2, <3>2, <4>1
      <4> QED
        BY <4>2
    <3> QED
      BY <1>1, <3>1, <3>2
  <2> QED
    BY <2>1, <2>2 DEF Ascending
<1>5. Spaced(every)
  <2>1. ASSUME NEW i \in 1..Len(every), i + Limit <= Len(every)
        PROVE  every[i + Limit] - every[i] >= Window
    <3>1. i \in 1..Len(all) /\ every[i] = all[i] /\ all[i] \in Int
      BY <1>1, <1>3, <2>1
    <3>2. CASE i + Limit = Len(all) + 1
      <4>1. Len(all) >= Limit /\ Len(all) - Limit + 1 = i
        BY <1>1, <1>3, <3>1, <3>2
      <4>2. ~(all[i] > Cutoff)
        BY <4>1
      <4>3. every[i + Limit] = clock
        BY <1>1, <3>2
      <4> QED
        BY <1>3, <3>1, <4>2, <4>3 DEF Cutoff
    <3>3. CASE i + Limit \in 1..Len(all)
      <4>1. all[i + Limit] - all[i] >= Window
        BY <3>1, <3>3 DEF Spaced
      <4>2. every[i + Limit] = all[i + Limit]
        BY <1>1, <3>3
      <4> QED
        BY <3>1, <4>1, <4>2
    <3> QED
      BY <1>1, <1>3, <2>1, <3>1, <3>2, <3>3
  <2> QED
    BY <2>1 DEF Spaced
<1> QED
  BY <1>4, <1>5 DEF every

---------------------------------------------------------------------------
(* The steps.                                                              *)

LEMMA CutoffType ==
  ASSUME clock \in Nat
  PROVE  Cutoff \in Int
BY GuardAssumption DEF Cutoff

LEMMA OverLimitExact ==
  ASSUME GuardInv, NEW s \in Sources
  PROVE  OverLimit(s) <=> Limiter!Exhausted(s)
<1>1. /\ clock \in Nat /\ attempts[s] \in Seq(Int) /\ admitted[s] \in Seq(Int)
      /\ Remembers(attempts[s], admitted[s], Cutoff)
      /\ Ascending(admitted[s], clock)
  BY DEF GuardInv, CountsType
<1>2. Cutoff \in Int
  BY <1>1, CutoffType
<1>3. Len(Fresh(attempts[s])) >= Limit
        <=> Len(admitted[s]) >= Limit
            /\ admitted[s][Len(admitted[s]) - Limit + 1] > Cutoff
  BY <1>1, <1>2, FreshDecides
<1> QED
  BY <1>3 DEF OverLimit, Limiter!Exhausted, Cutoff

\* Trimming forgets expired attempts only.
LEMMA TrimmedFacts ==
  ASSUME NEW buckets \in [Sources -> Seq(Int)], NEW names, NEW s \in Sources,
         NEW all \in Seq(Int), Cutoff \in Int, Remembers(buckets[s], all, Cutoff)
  PROVE  /\ Trimmed(buckets, names)[s] \in Seq(Int)
         /\ Remembers(Trimmed(buckets, names)[s], all, Cutoff)
<1>1. Trimmed(buckets, names)[s] \in {buckets[s], Fresh(buckets[s])}
  BY DEF Trimmed
<1>2. Fresh(buckets[s]) \in Seq(Int) /\ Remembers(Fresh(buckets[s]), all, Cutoff)
  BY FreshRemembers
<1> QED
  BY <1>1, <1>2

LEMMA TrimmedType ==
  ASSUME NEW buckets \in [Sources -> Seq(Int)], NEW names, Cutoff \in Int
  PROVE  Trimmed(buckets, names) \in [Sources -> Seq(Int)]
<1>1. \A s \in Sources : Fresh(buckets[s]) \in Seq(Int)
  BY FreshFacts
<1> QED
  BY <1>1 DEF Trimmed

LEMMA RefuseKeeps ==
  ASSUME GuardInv, NEW s \in Sources, Refuse(s), clock' = clock
  PROVE  GuardInv'
<1>1. CountsType /\ Cutoff \in Int
  BY CutoffType DEF GuardInv, CountsType
<1>2. Fresh(attempts[s]) \in Seq(Int)
      /\ Remembers(Fresh(attempts[s]), admitted[s], Cutoff)
  BY <1>1, FreshRemembers DEF GuardInv, CountsType
<1>3. CountsType'
  BY <1>1, <1>2 DEF CountsType, Refuse
<1>4. Cutoff' = Cutoff
  BY DEF Cutoff
<1>5. ASSUME NEW t \in Sources
      PROVE  /\ Remembers(attempts'[t], admitted'[t], Cutoff)
             /\ Ascending(admitted'[t], clock) /\ Spaced(admitted'[t])
  <2>1. admitted'[t] = admitted[t]
        /\ attempts'[t] = IF t = s THEN Fresh(attempts[s]) ELSE attempts[t]
    BY <1>1 DEF CountsType, Refuse
  <2>2. /\ Remembers(attempts[t], admitted[t], Cutoff)
        /\ Ascending(admitted[t], clock) /\ Spaced(admitted[t])
    BY DEF GuardInv
  <2>3. CASE t = s
    BY <1>2, <2>1, <2>2, <2>3
  <2>4. CASE t # s
    BY <2>1, <2>2, <2>4
  <2> QED
    BY <2>3, <2>4
<1> QED
  BY <1>3, <1>4, <1>5 DEF GuardInv, Remembers, Ascending, Spaced

LEMMA AdmitKeeps ==
  ASSUME GuardInv, NEW s \in Sources, Admit(s), clock' = clock
  PROVE  GuardInv'
<1> DEFINE added == [attempts EXCEPT ![s] = Append(Fresh(@), clock)]
           every == [admitted EXCEPT ![s] = Append(@, clock)]
<1>1. CountsType /\ Cutoff \in Int /\ clock \in Int
  BY CutoffType DEF GuardInv, CountsType
<1>2. Fresh(attempts[s]) \in Seq(Int)
      /\ Remembers(Fresh(attempts[s]), admitted[s], Cutoff)
  BY <1>1, FreshRemembers DEF GuardInv, CountsType
<1>3. /\ Append(Fresh(attempts[s]), clock) \in Seq(Int)
      /\ Append(admitted[s], clock) \in Seq(Int)
  BY <1>1, <1>2, AppendProperties DEF CountsType
<1>4. added \in [Sources -> Seq(Int)] /\ every \in [Sources -> Seq(Int)]
  BY <1>1, <1>3 DEF CountsType
<1>5. ASSUME NEW t \in Sources
      PROVE  /\ Remembers(added[t], every[t], Cutoff)
             /\ Ascending(every[t], clock) /\ Spaced(every[t])
  <2>1. /\ Remembers(attempts[t], admitted[t], Cutoff)
        /\ Ascending(admitted[t], clock) /\ Spaced(admitted[t])
    BY DEF GuardInv
  <2>2. CASE t # s
    <3>1. added[t] = attempts[t] /\ every[t] = admitted[t]
      BY <1>1, <2>2 DEF CountsType
    <3> QED
      BY <2>1, <3>1
  <2>3. CASE t = s
    <3>1. added[t] = Append(Fresh(attempts[s]), clock)
          /\ every[t] = Append(admitted[s], clock)
      BY <1>1, <2>3 DEF CountsType
    <3>2. Remembers(Append(Fresh(attempts[s]), clock), Append(admitted[s], clock), Cutoff)
      BY <1>1, <1>2, Appending DEF CountsType
    <3>3. ~(Len(admitted[s]) >= Limit
            /\ admitted[s][Len(admitted[s]) - Limit + 1] > Cutoff)
      BY OverLimitExact DEF Admit, Limiter!Exhausted, Cutoff
    <3>4. /\ Ascending(Append(admitted[s], clock), clock)
          /\ Spaced(Append(admitted[s], clock))
      BY <1>1, <2>1, <2>3, <3>3, Spacing DEF CountsType
    <3> QED
      BY <3>1, <3>2, <3>4
  <2> QED
    BY <2>2, <2>3
<1>6. PICK names : attempts' = Trimmed(added, names)
  BY DEF Admit
<1>7. admitted' = every /\ returned' = [returned EXCEPT ![s] = TRUE]
  BY DEF Admit
<1> HIDE DEF added, every
<1>8. CountsType'
  <2>1. attempts' \in [Sources -> Seq(Int)]
    BY <1>1, <1>4, <1>6, TrimmedType
  <2> QED
    BY <1>1, <1>4, <1>7, <2>1 DEF CountsType
<1>9. Cutoff' = Cutoff
  BY DEF Cutoff
<1>10. ASSUME NEW t \in Sources
       PROVE  /\ Remembers(attempts'[t], admitted'[t], Cutoff)
              /\ Ascending(admitted'[t], clock) /\ Spaced(admitted'[t])
  <2>1. every[t] \in Seq(Int) /\ Remembers(added[t], every[t], Cutoff)
    BY <1>4, <1>5
  <2>2. Remembers(Trimmed(added, names)[t], every[t], Cutoff)
    BY <1>1, <1>4, <2>1, TrimmedFacts
  <2> QED
    BY <1>5, <1>6, <1>7, <2>2
<1> QED
  BY <1>8, <1>9, <1>10 DEF GuardInv, Remembers, Ascending, Spaced

LEMMA TickKeeps ==
  ASSUME GuardInv, Tick
  PROVE  GuardInv'
<1>1. CountsType /\ clock' = clock + 1
      /\ UNCHANGED <<attempts, admitted, returned>>
  BY DEF GuardInv, Tick
<1>2. CountsType'
  BY <1>1 DEF CountsType
<1>3. Cutoff \in Int /\ Cutoff' \in Int /\ Cutoff <= Cutoff'
  BY <1>1, GuardAssumption DEF CountsType, Cutoff
<1>4. ASSUME NEW t \in Sources
      PROVE  /\ Remembers(attempts[t], admitted[t], Cutoff')
             /\ Ascending(admitted[t], clock') /\ Spaced(admitted[t])
  <2>1. /\ Remembers(attempts[t], admitted[t], Cutoff)
        /\ Ascending(admitted[t], clock) /\ Spaced(admitted[t])
        /\ attempts[t] \in Seq(Int) /\ admitted[t] \in Seq(Int) /\ clock \in Int
    BY <1>1 DEF GuardInv, CountsType
  <2>2. Remembers(attempts[t], admitted[t], Cutoff')
    BY <1>3, <2>1, RemembersLater
  <2>3. Ascending(admitted[t], clock')
    BY <1>1, <2>1 DEF Ascending
  <2> QED
    BY <2>1, <2>2, <2>3
<1> QED
  BY <1>1, <1>2, <1>4 DEF GuardInv, Remembers, Ascending, Spaced

LEMMA CountsKept ==
  ASSUME GuardInv, UNCHANGED counts
  PROVE  GuardInv'
BY DEF GuardInv, CountsType, counts, Cutoff, Remembers, Ascending, Spaced

\* Every step but these leaves the counts alone.
LEMMA CountingSteps ==
  ASSUME [Next]_vars
  PROVE  \/ Tick
         \/ \E s \in Sources : (Refuse(s) \/ Admit(s)) /\ clock' = clock
         \/ UNCHANGED counts
BY Zenon DEF Next, Arrive, Receive, Begin, Return, Forget, vars

LEMMA GuardInvStep ==
  ASSUME GuardInv, [Next]_vars
  PROVE  GuardInv'
BY CountingSteps, TickKeeps, RefuseKeeps, AdmitKeeps, CountsKept

LEMMA GuardInvInit ==
  ASSUME Init
  PROVE  GuardInv
<1>1. CountsType
  BY DEF Init, CountsType
<1>2. \A s \in Sources : attempts[s] = <<>> /\ admitted[s] = <<>>
  BY DEF Init
<1> QED
  BY <1>1, <1>2 DEF GuardInv, Remembers, Ascending, Spaced

LEMMA GuardInvariant == Spec => []GuardInv
<1>1. Init => GuardInv
  BY GuardInvInit
<1>2. GuardInv /\ [Next]_vars => GuardInv'
  BY GuardInvStep
<1> QED
  BY <1>1, <1>2, PTL DEF Spec

\* The limit of the README: in no window of time, wherever it begins, does
\* _admit let more than Limit attempts of a source through.
THEOREM WindowKept == Spec => []WindowLimit
<1>1. GuardInv => WindowLimit
  BY DEF GuardInv, Spaced, WindowLimit
<1> QED
  BY <1>1, GuardInvariant, PTL

---------------------------------------------------------------------------
(* Refinement.                                                             *)

LEMMA RefuseRefines ==
  ASSUME GuardInv, NEW s \in Sources, Refuse(s), clock' = clock
  PROVE  Limiter!Attempt(s)
<1>1. Limiter!Exhausted(s)
  BY OverLimitExact DEF Refuse
<1>2. returned' = [returned EXCEPT ![s] = FALSE] /\ admitted' = admitted
  BY DEF Refuse
<1> QED
  BY <1>1, <1>2, Zenon DEF Limiter!Attempt

LEMMA AdmitRefines ==
  ASSUME GuardInv, NEW s \in Sources, Admit(s), clock' = clock
  PROVE  Limiter!Attempt(s)
<1>1. ~Limiter!Exhausted(s)
  BY OverLimitExact DEF Admit
<1>2. /\ returned' = [returned EXCEPT ![s] = TRUE]
      /\ admitted' = [admitted EXCEPT ![s] = Append(@, clock)]
  BY DEF Admit
<1> QED
  BY <1>1, <1>2, Zenon DEF Limiter!Attempt

LEMMA TickRefines ==
  ASSUME GuardInv, Tick
  PROVE  Limiter!Advance
BY DEF GuardInv, CountsType, Tick, Limiter!Advance

LEMMA StepRefines ==
  ASSUME GuardInv, [Next]_vars
  PROVE  [Limiter!LimitNext]_Limiter!limitVars
<1>1. CASE Tick
  BY <1>1, TickRefines DEF Limiter!LimitNext
<1>2. CASE \E s \in Sources : (Refuse(s) \/ Admit(s)) /\ clock' = clock
  BY <1>2, RefuseRefines, AdmitRefines DEF Limiter!LimitNext
<1>3. CASE UNCHANGED counts
  BY <1>3 DEF counts, Limiter!limitVars
<1> QED
  BY <1>1, <1>2, <1>3, CountingSteps

\* A source cannot tell the trimmed map from one that remembers every attempt:
\* _admit decides as the abstract limiter does, whatever it purged.
THEOREM GuardRefines == Spec => ImplementsRateLimit
<1>1. Init => Limiter!LimitInit
  BY DEF Init, Limiter!LimitInit
<1>2. GuardInv /\ [Next]_vars => [Limiter!LimitNext]_Limiter!limitVars
  BY StepRefines
<1> QED
  BY <1>1, <1>2, GuardInvariant, PTL DEF Spec, ImplementsRateLimit, Limiter!LimitSpec

---------------------------------------------------------------------------
(* One request.                                                            *)

RequestType ==
  [at : {"idle", "app", "done"}, received : Int, handed : Int,
   answers : {0, 1}, refused : BOOLEAN]

\* handed <= received is what keeps the application below the maximum: the
\* messages it got are among those that were counted.
RequestFits(q) ==
  /\ q \in RequestType
  /\ q.at = "idle" => q = Idle
  /\ q.refused => q.at # "app" /\ q.handed = 0
  /\ q.handed <= q.received /\ q.handed <= MaxBody

RequestsInv ==
  /\ DOMAIN request = Requests
  /\ \A r \in Requests : RequestFits(request[r])

LEMMA IdleFits == RequestFits(Idle)
BY GuardAssumption DEF RequestFits, RequestType, Idle

LEMMA AnsweredFits ==
  ASSUME NEW q, RequestFits(q), q.answers = 0,
         q.refused => q.handed = 0
  PROVE  RequestFits(Answered(q))
<1> DEFINE a == Answered(q)
<1>1. q.answers + 1 = 1
  OBVIOUS
<1>2. a = [q EXCEPT !.at = "done", !.answers = 1]
  BY <1>1 DEF Answered
<1>3. /\ a \in RequestType
      /\ a.at = "done" /\ a.refused = q.refused /\ a.handed = q.handed
      /\ a.received = q.received
  BY <1>2 DEF RequestFits, RequestType
<1> HIDE DEF a
<1>4. RequestFits(a)
  BY <1>3 DEF RequestFits
<1> QED
  BY <1>4 DEF a

LEMMA ArriveFits ==
  ASSUME RequestsInv, NEW r \in Requests, NEW s, NEW length, Arrive(r, s, length)
  PROVE  RequestFits(request'[r]) /\ \A o \in Requests \ {r} : request'[o] = request[o]
<1> DEFINE p == request[r]
           a == [p EXCEPT !.refused = TRUE]
           b == [p EXCEPT !.at = "app"]
<1>1. /\ RequestFits(p) /\ p = Idle
      /\ p.handed = 0 /\ p.received = 0 /\ p.answers = 0 /\ p.refused = FALSE
  BY DEF RequestsInv, RequestFits, Arrive, Idle
<1>2. /\ request'[r] \in {Answered(a), b}
      /\ \A o \in Requests \ {r} : request'[o] = request[o]
  BY DEF Arrive, RequestsInv
<1>3. /\ a \in RequestType /\ a.handed = 0 /\ a.received = 0 /\ a.answers = 0
      /\ a.refused = TRUE
  BY <1>1 DEF RequestFits, RequestType
<1>4. /\ b \in RequestType /\ b.handed = 0 /\ b.received = 0 /\ b.at = "app"
      /\ b.refused = FALSE
  BY <1>1 DEF RequestFits, RequestType
<1> HIDE DEF p, a, b
<1>5. RequestFits(b)
  BY <1>4, GuardAssumption DEF RequestFits
<1>6. RequestFits(Answered(a))
  <2> DEFINE c == Answered(a)
  <2>1. c = [a EXCEPT !.at = "done", !.answers = 1]
    BY <1>3 DEF Answered
  <2>2. c \in RequestType /\ c.at = "done" /\ c.handed = 0 /\ c.received = 0
    BY <1>3, <2>1 DEF RequestType
  <2> HIDE DEF c
  <2>3. RequestFits(c)
    BY <2>2, GuardAssumption DEF RequestFits
  <2> QED
    BY <2>3 DEF c
<1> QED
  BY <1>2, <1>5, <1>6

LEMMA ReceiveFits ==
  ASSUME RequestsInv, NEW r \in Requests, NEW n \in Lengths, Receive(r, n)
  PROVE  RequestFits(request'[r]) /\ \A o \in Requests \ {r} : request'[o] = request[o]
<1> DEFINE p == request[r]
           q == [p EXCEPT !.received = FirstOf(@ + n, MaxBody + 1)]
<1>1. RequestFits(p) /\ p.at = "app" /\ n \in Nat /\ MaxBody \in Nat
  BY GuardAssumption DEF RequestsInv, Receive
<1>2. \A o \in Requests \ {r} : request'[o] = request[o]
  BY DEF Receive, RequestsInv
<1>3. /\ q.at = "app" /\ q.answers = p.answers /\ q.refused = p.refused
      /\ q.handed = p.handed /\ q.received = FirstOf(p.received + n, MaxBody + 1)
      /\ q \in RequestType
  BY <1>1 DEF RequestFits, RequestType, FirstOf
<1>4. ASSUME p.received + n <= MaxBody, request'[r] = [q EXCEPT !.handed = @ + n]
      PROVE  RequestFits(request'[r])
  <2>1. q.received = p.received + n
    BY <1>1, <1>3, <1>4 DEF FirstOf, RequestFits, RequestType
  <2> DEFINE a == [q EXCEPT !.handed = @ + n]
  <2> HIDE DEF q
  <2>2. /\ a \in RequestType
        /\ a.at = "app" /\ a.refused = p.refused
        /\ a.handed = p.handed + n /\ a.received = p.received + n
    BY <1>1, <1>3, <2>1 DEF RequestType
  <2> HIDE DEF a
  <2>3. RequestFits(a)
    BY <1>1, <1>4, <2>2 DEF RequestFits, RequestType
  <2> QED
    BY <1>4, <2>3 DEF a
<1>5. ASSUME p.received + n > MaxBody, request'[r] \in {q, TooLarge(q)}
      PROVE  RequestFits(request'[r])
  <2>1. q.received = MaxBody + 1
    BY <1>1, <1>3, <1>5 DEF FirstOf, RequestFits, RequestType
  <2> HIDE DEF q
  <2>2. RequestFits(q)
    BY <1>1, <1>3, <2>1 DEF RequestFits, RequestType
  <2>3. RequestFits(TooLarge(q))
    <3>1. CASE q.answers > 0
      BY <1>3, <2>2, <3>1 DEF TooLarge, RequestFits, RequestType
    <3>2. CASE ~(q.answers > 0)
      BY <1>3, <2>2, <3>2, AnsweredFits DEF TooLarge, RequestFits, RequestType
    <3> QED
      BY <3>1, <3>2
  <2> QED
    BY <1>5, <2>2, <2>3
<1>6. \/ p.received + n <= MaxBody /\ request'[r] = [q EXCEPT !.handed = @ + n]
      \/ p.received + n > MaxBody /\ request'[r] \in {q, TooLarge(q)}
  <2> HIDE DEF q
  <2> QED
    BY DEF Receive, RequestsInv, q
<1> QED
  BY <1>2, <1>4, <1>5, <1>6

LEMMA AnswerFits ==
  ASSUME RequestsInv, NEW r \in Requests, Begin(r) \/ Return(r) \/ Forget(r)
  PROVE  RequestFits(request'[r]) /\ \A o \in Requests \ {r} : request'[o] = request[o]
<1>1. RequestFits(request[r])
  BY DEF RequestsInv
<1>2. CASE Begin(r)
  BY <1>1, <1>2 DEF Begin, RequestsInv, RequestFits, RequestType
<1>3. CASE Return(r)
  BY <1>1, <1>3 DEF Return, RequestsInv, RequestFits, RequestType
<1>4. CASE Forget(r)
  BY <1>4, IdleFits DEF Forget, RequestsInv
<1> QED
  BY <1>2, <1>3, <1>4

LEMMA RequestsInvStep ==
  ASSUME RequestsInv, [Next]_vars
  PROVE  RequestsInv'
<1>1. DOMAIN request' = Requests
  BY Zenon DEF RequestsInv, Next, Tick, Arrive, Receive, Begin, Return, Forget, vars
<1>2. \/ UNCHANGED request
      \/ \E r \in Requests :
           /\ RequestFits(request'[r])
           /\ \A o \in Requests \ {r} : request'[o] = request[o]
  <2>1. CASE Tick \/ UNCHANGED vars
    BY <2>1, Zenon DEF Tick, vars
  <2>2. CASE Next /\ ~Tick
    BY <2>2, ArriveFits, ReceiveFits, AnswerFits DEF Next
  <2> QED
    BY <2>1, <2>2
<1>3. \A r \in Requests : RequestFits(request'[r])
  BY <1>2 DEF RequestsInv
<1> QED
  BY <1>1, <1>3 DEF RequestsInv, RequestFits, RequestType

\* A request gets one answer, refused ones give the application nothing, and
\* no more than MaxBody bytes of a body come through limited_receive.
THEOREM OneAnswer == Spec => []AnsweredOnce
<1>1. Init => RequestsInv
  BY IdleFits DEF Init, RequestsInv
<1>2. RequestsInv /\ [Next]_vars => RequestsInv'
  BY RequestsInvStep
<1>3. RequestsInv => AnsweredOnce
  BY DEF RequestsInv, RequestFits, RequestType, AnsweredOnce
<1> QED
  BY <1>1, <1>2, <1>3, PTL DEF Spec

---------------------------------------------------------------------------
(* Trimming.                                                               *)

\* One pass over the map: what the loop does with the n-th key.
KeptStep(buckets, names, kept, n) ==
  IF n = 0 THEN <<>>
  ELSE IF buckets[names[n]] = <<>> THEN kept[n - 1]
       ELSE Append(kept[n - 1], names[n])

\* The loop looks one key back and no further.
LEMMA KeptStepOf ==
  ASSUME NEW buckets, NEW names, NEW f, NEW g, NEW n, n # 0 => f[n - 1] = g[n - 1]
  PROVE  KeptStep(buckets, names, f, n) = KeptStep(buckets, names, g, n)
<1>1. CASE n = 0
  BY <1>1, Zenon DEF KeptStep
<1>2. CASE n # 0
  <2>1. f[n - 1] = g[n - 1]
    BY <1>2
  <2> QED
    BY <2>1, SMT DEF KeptStep
<1> QED
  BY <1>1, <1>2

\* The function that Kept reads off is the one its equations describe.
LEMMA KeptDefined ==
  ASSUME NEW buckets, NEW names, Len(names) \in Nat
  PROVE  \E kept :
           /\ kept = [n \in 0..Len(names) |-> KeptStep(buckets, names, kept, n)]
           /\ Kept(buckets, names) = kept[Len(names)]
<1> DEFINE Upto(kept, k) == kept = [n \in 0..k |-> KeptStep(buckets, names, kept, n)]
           Missing == {k \in Nat : ~(\E kept : Upto(kept, k))}
           all == CHOOSE kept : kept = [n \in 0..Len(names) |->
                    IF n = 0 THEN <<>>
                    ELSE IF buckets[names[n]] = <<>> THEN kept[n - 1]
                         ELSE Append(kept[n - 1], names[n])]
<1>1. ASSUME Missing # {} PROVE FALSE
  <2>1. Missing \subseteq Nat
    OBVIOUS
  <2> HIDE DEF Missing
  <2>2. PICK x \in Missing : \A y \in Missing : ~(y < x)
    BY <1>1, <2>1, LeastOf, Zenon
  <2>3. x \in Nat /\ ~(\E kept : Upto(kept, x))
    BY <2>2 DEF Missing
  <2>4. x # 0
    <3> DEFINE kept == [n \in 0..0 |-> <<>>]
    <3>1. Upto(kept, 0)
      BY DEF KeptStep
    <3> QED
      BY <2>3, <3>1
  <2>5. PICK less : Upto(less, x - 1)
    <3>1. x - 1 \in Nat /\ x - 1 < x
      BY <2>3, <2>4
    <3>2. x - 1 \notin Missing
      BY <2>2, <3>1
    <3> QED
      BY <3>1, <3>2 DEF Missing
  <2> DEFINE more == [n \in 0..x |-> IF n = x THEN KeptStep(buckets, names, less, x)
                                     ELSE less[n]]
  <2>6. /\ more = [n \in 0..x |-> more[n]]
        /\ more[x] = KeptStep(buckets, names, less, x)
        /\ \A n \in 0..x : n # x => more[n] = less[n]
    BY <2>3
  <2> HIDE DEF more
  <2>7. ASSUME NEW n \in 0..x
        PROVE  more[n] = KeptStep(buckets, names, more, n)
    <3>1. n # 0 => more[n - 1] = less[n - 1]
      BY <2>3, <2>6
    <3>2. KeptStep(buckets, names, more, n) = KeptStep(buckets, names, less, n)
      BY <3>1, KeptStepOf, Zenon
    <3>3. CASE n = x
      BY <2>6, <3>2, <3>3, Zenon
    <3>4. CASE n # x
      <4>1. n \in 0..(x - 1)
        BY <2>3, <3>4
      <4>2. less[n] = KeptStep(buckets, names, less, n)
        BY <2>5, <4>1, Zenon
      <4> QED
        BY <2>6, <3>2, <3>4, <4>2, Zenon
    <3> QED
      BY <3>3, <3>4
  <2>8. [n \in 0..x |-> more[n]] = [n \in 0..x |-> KeptStep(buckets, names, more, n)]
    BY <2>7, Zenon
  <2>9. Upto(more, x)
    BY <2>6, <2>8, Zenon
  <2> QED
    BY <2>3, <2>9, Zenon
<1>2. \E kept : Upto(kept, Len(names))
  BY <1>1
<1>3. Upto(all, Len(names))
  BY <1>2, Zenon DEF KeptStep
<1>4. Kept(buckets, names) = all[Len(names)]
  BY Zenon DEF Kept
<1> QED
  BY <1>3, <1>4, Zenon

\* The keys of the buckets that are not empty, and no more of them.
KeysLeft(keys, buckets, names) ==
  /\ keys \in Seq(Sources)
  /\ Len(keys) = Cardinality({i \in 1..Len(names) : buckets[names[i]] # <<>>})
  /\ \A j \in 1..Len(keys) : /\ buckets[keys[j]] # <<>>
                              /\ \E i \in 1..Len(names) : keys[j] = names[i]

\* Trimming keeps those.
LEMMA KeptFacts ==
  ASSUME NEW buckets, NEW names \in Seq(Sources)
  PROVE  KeysLeft(Kept(buckets, names), buckets, names)
<1>1. Len(names) \in Nat
  OBVIOUS
<1>2. PICK kept :
        /\ kept = [n \in 0..Len(names) |-> KeptStep(buckets, names, kept, n)]
        /\ Kept(buckets, names) = kept[Len(names)]
  BY <1>1, KeptDefined
<1> DEFINE Left(n) == {i \in 1..n : buckets[names[i]] # <<>>}
           Right(n) ==
             /\ kept[n] \in Seq(Sources)
             /\ Len(kept[n]) = Cardinality(Left(n)) /\ IsFiniteSet(Left(n))
             /\ \A j \in 1..Len(kept[n]) :
                  /\ buckets[kept[n][j]] # <<>>
                  /\ \E i \in 1..Len(names) : kept[n][j] = names[i]
           Wrong == {n \in 0..Len(names) : ~Right(n)}
<1>3. \A n \in 0..Len(names) : kept[n] = KeptStep(buckets, names, kept, n)
  BY <1>2, Zenon
<1>4. Right(0)
  <2>1. kept[0] = <<>>
    BY <1>1, <1>3 DEF KeptStep
  <2>2. Left(0) = {}
    OBVIOUS
  <2> QED
    BY <2>1, <2>2, FS_EmptySet
<1>5. ASSUME NEW n \in 1..Len(names), Right(n - 1) PROVE Right(n)
  <2>1. n \in Nat /\ n # 0 /\ n \in 0..Len(names) /\ names[n] \in Sources
    BY <1>1
  <2> DEFINE old == kept[n - 1]
  <2>2. /\ old \in Seq(Sources)
        /\ Len(old) = Cardinality(Left(n - 1)) /\ IsFiniteSet(Left(n - 1))
        /\ \A j \in 1..Len(old) :
             /\ buckets[old[j]] # <<>>
             /\ \E i \in 1..Len(names) : old[j] = names[i]
    BY <1>5
  <2>3. CASE buckets[names[n]] = <<>>
    <3>1. kept[n] = old
      BY <1>3, <2>1, <2>3 DEF KeptStep
    <3>2. Left(n) = Left(n - 1)
      BY <2>1, <2>3
    <3> QED
      BY <2>2, <3>1, <3>2, Zenon
  <2>4. CASE buckets[names[n]] # <<>>
    <3>1. kept[n] = Append(old, names[n])
      BY <1>3, <2>1, <2>4 DEF KeptStep
    <3>2. Left(n) = Left(n - 1) \cup {n} /\ n \notin Left(n - 1)
      BY <2>1, <2>4
    <3> HIDE DEF old, Left
    <3>3. IsFiniteSet(Left(n)) /\ Cardinality(Left(n)) = Cardinality(Left(n - 1)) + 1
      <4>1. IsFiniteSet(Left(n - 1) \cup {n})
            /\ Cardinality(Left(n - 1) \cup {n}) = Cardinality(Left(n - 1)) + 1
        BY <2>2, <3>2, FS_AddElement
      <4> QED
        BY <3>2, <4>1, Zenon
    <3>4. /\ kept[n] \in Seq(Sources) /\ Len(kept[n]) = Len(old) + 1
          /\ \A j \in 1..(Len(old) + 1) :
               kept[n][j] = IF j = Len(old) + 1 THEN names[n] ELSE old[j]
      BY <2>1, <2>2, <3>1, AppendProperties
    <3>5. ASSUME NEW j \in 1..Len(kept[n])
          PROVE  /\ buckets[kept[n][j]] # <<>>
                 /\ \E i \in 1..Len(names) : kept[n][j] = names[i]
      <4>1. CASE j = Len(old) + 1
        BY <2>1, <2>4, <3>4, <4>1
      <4>2. CASE j # Len(old) + 1
        <5>1. j \in 1..Len(old) /\ kept[n][j] = old[j]
          BY <2>2, <3>4, <4>2
        <5> QED
          BY <2>2, <5>1
      <4> QED
        BY <4>1, <4>2
    <3> QED
      BY <2>2, <3>3, <3>4, <3>5, Zenon
  <2> QED
    BY <2>3, <2>4
<1> HIDE DEF Right
<1>6. ASSUME Wrong # {} PROVE FALSE
  <2>1. Wrong \subseteq Nat
    OBVIOUS
  <2> HIDE DEF Wrong
  <2>2. PICK x \in Wrong : \A y \in Wrong : ~(y < x)
    BY <1>6, <2>1, LeastOf, Zenon
  <2>3. x \in 0..Len(names) /\ ~Right(x)
    BY <2>2 DEF Wrong
  <2>4. x # 0
    BY <1>4, <2>3
  <2>5. x \in 1..Len(names) /\ x - 1 \in 0..Len(names) /\ x - 1 < x
    BY <1>1, <2>3, <2>4
  <2>6. Right(x - 1)
    BY <2>2, <2>5 DEF Wrong
  <2> QED
    BY <1>5, <2>3, <2>5, <2>6
<1>7. Right(Len(names))
  BY <1>1, <1>6
<1>8. KeysLeft(kept[Len(names)], buckets, names)
  BY <1>7, Zenon DEF Right, KeysLeft
<1> QED
  BY <1>2, <1>8, Zenon

\* A source whose attempts are not all expired has its last one in the window.
LEMMA FreshLast ==
  ASSUME Cutoff \in Int, NEW bucket \in Seq(Int), Fresh(bucket) # <<>>
  PROVE  /\ Len(bucket) \in Nat \ {0} /\ Len(Fresh(bucket)) \in Nat \ {0}
         /\ Fresh(bucket)[Len(Fresh(bucket))] = bucket[Len(bucket)]
         /\ \E i \in 1..Len(bucket) : bucket[i] > Cutoff
<1>1. PICK n \in 0..Len(bucket) :
        /\ Fresh(bucket) \in Seq(Int)
        /\ Len(Fresh(bucket)) = Len(bucket) - n
        /\ \A i \in 1..(Len(bucket) - n) : Fresh(bucket)[i] = bucket[n + i]
        /\ n < Len(bucket) => bucket[n + 1] > Cutoff
  BY FreshFacts
<1>2. Len(Fresh(bucket)) # 0
  BY <1>1, EmptySeq
<1>3. Len(bucket) \in Nat /\ n < Len(bucket)
  BY <1>1, <1>2
<1>4. Len(bucket) - n \in 1..(Len(bucket) - n) /\ n + (Len(bucket) - n) = Len(bucket)
  BY <1>3
<1>5. Fresh(bucket)[Len(bucket) - n] = bucket[n + (Len(bucket) - n)]
  BY <1>1, <1>4, Zenon
<1>6. n + 1 \in 1..Len(bucket) /\ bucket[n + 1] > Cutoff
  BY <1>1, <1>3
<1>7. Len(bucket) \in Nat \ {0} /\ Len(bucket) - n \in Nat \ {0}
  BY <1>3
<1> QED
  BY <1>1, <1>4, <1>5, <1>6, <1>7, Zenon

\* The scan goes as far as is needed, or over the whole map.
LEMMA ScannedFacts ==
  ASSUME NEW buckets, NEW names \in Seq(Sources)
  PROVE  \/ \A i \in 1..Len(names) : names[i] \in Scanned(buckets, names)
         \/ \E n \in 1..Len(names) :
              /\ Len(names)
                   - Cardinality({i \in 1..n : Fresh(buckets[names[i]]) = <<>>})
                   <= LowSources
              /\ \A i \in 1..n : names[i] \in Scanned(buckets, names)
<1> DEFINE Gone(n) == {i \in 1..n : Fresh(buckets[names[i]]) = <<>>}
           enough == {n \in 1..Len(names) :
                        Len(names) - Cardinality(Gone(n)) <= LowSources}
           last == IF enough = {} THEN Len(names)
                   ELSE CHOOSE n \in enough : \A m \in enough : n <= m
<1>1. Scanned(buckets, names) = {names[i] : i \in 1..last}
  BY Zenon DEF Scanned
<1>2. enough \subseteq 1..Len(names) /\ enough \subseteq Nat
  OBVIOUS
<1> HIDE DEF enough
<1>3. CASE enough = {}
  BY <1>1, <1>3
<1>4. CASE enough # {}
  <2>1. PICK x \in enough : \A y \in enough : ~(y < x)
    BY <1>2, <1>4, LeastOf, Zenon
  <2>2. \A y \in enough : x <= y
    BY <1>2, <2>1
  <2>3. last \in enough
    BY <1>4, <2>2, Zenon
  <2> HIDE DEF last
  <2>4. last \in 1..Len(names) /\ Len(names) - Cardinality(Gone(last)) <= LowSources
    BY <2>3 DEF enough
  <2> QED
    BY <1>1, <2>4
<1> QED
  BY <1>3, <1>4

\* What trimming leaves: few enough keys, or what purging leaves of each bucket.
LEMMA TrimmedLeaves ==
  ASSUME NEW buckets \in [Sources -> Seq(Int)], NEW names \in Seq(Sources),
         Cutoff \in Int
  PROVE  LET after == Trimmed(buckets, names)
             keys == Kept(after, names)
         IN  \/ Len(keys) <= MaxSources
             \/ \A j \in 1..Len(keys) : after[keys[j]] = Fresh(buckets[keys[j]])
<1> DEFINE after == Trimmed(buckets, names)
           keys == Kept(after, names)
           Left == {i \in 1..Len(names) : after[names[i]] # <<>>}
           Leaves == \/ Len(keys) <= MaxSources
                     \/ \A j \in 1..Len(keys) : after[keys[j]] = Fresh(buckets[keys[j]])
<1>1. /\ keys \in Seq(Sources) /\ Len(keys) = Cardinality(Left)
      /\ \A j \in 1..Len(keys) : /\ after[keys[j]] # <<>>
                                  /\ \E i \in 1..Len(names) : keys[j] = names[i]
  <2>1. KeysLeft(keys, after, names)
    BY KeptFacts, Zenon
  <2> HIDE DEF keys, after
  <2> QED
    BY <2>1 DEF KeysLeft
<1>2. /\ Len(names) \in Nat
      /\ IsFiniteSet(1..Len(names)) /\ Cardinality(1..Len(names)) = Len(names)
  BY FS_Interval
<1>3. MaxSources \in Nat /\ LowSources \in 0..MaxSources
  BY GuardAssumption
<1>4. ASSUME Len(names) <= MaxSources PROVE Leaves
  <2>1. Left \subseteq 1..Len(names)
    OBVIOUS
  <2> HIDE DEF Left
  <2>2. Cardinality(Left) \in Nat /\ Cardinality(Left) <= Cardinality(1..Len(names))
    BY <1>2, <2>1, FS_Subset, FS_CardinalityType
  <2> HIDE DEF after, keys
  <2> QED
    BY <1>1, <1>2, <1>3, <1>4, <2>2
<1>5. ASSUME ~(Len(names) <= MaxSources) PROVE Leaves
  <2>1. after = [s \in Sources |-> IF s \in Scanned(buckets, names)
                                   THEN Fresh(buckets[s]) ELSE buckets[s]]
    BY <1>5, Zenon DEF Trimmed
  <2>2. \A i \in 1..Len(names) :
          names[i] \in Sources
          /\ (names[i] \in Scanned(buckets, names)
                => after[names[i]] = Fresh(buckets[names[i]]))
    BY <2>1
  <2>3. CASE \A i \in 1..Len(names) : names[i] \in Scanned(buckets, names)
    <3> HIDE DEF after, keys
    <3>1. ASSUME NEW j \in 1..Len(keys)
          PROVE  after[keys[j]] = Fresh(buckets[keys[j]])
      <4>1. PICK i \in 1..Len(names) : keys[j] = names[i]
        BY <1>1
      <4> QED
        BY <2>2, <2>3, <4>1
    <3> QED
      BY <3>1
  <2>4. ASSUME NEW n \in 1..Len(names),
               Len(names)
                 - Cardinality({i \in 1..n : Fresh(buckets[names[i]]) = <<>>})
                 <= LowSources,
               \A i \in 1..n : names[i] \in Scanned(buckets, names)
        PROVE  Len(keys) <= MaxSources
    <3> DEFINE Gone == {i \in 1..n : Fresh(buckets[names[i]]) = <<>>}
    <3>1. Gone \subseteq 1..Len(names)
      BY <1>2
    <3>2. Left \subseteq (1..Len(names)) \ Gone
      <4> HIDE DEF after
      <4> QED
        BY <1>2, <2>2, <2>4
    <3>3. Len(names) - Cardinality(Gone) <= LowSources
      BY <2>4
    <3> HIDE DEF Left, Gone, keys, after
    <3>4. IsFiniteSet(Gone) /\ IsFiniteSet((1..Len(names)) \ Gone)
      BY <1>2, <3>1, FS_Subset, FS_Difference
    <3>5. Cardinality((1..Len(names)) \ Gone)
            = Cardinality(1..Len(names)) - Cardinality((1..Len(names)) \cap Gone)
      BY <1>2, FS_Difference
    <3>6. (1..Len(names)) \cap Gone = Gone
      BY <3>1
    <3>7. Cardinality(Left) <= Cardinality((1..Len(names)) \ Gone)
      BY <3>2, <3>4, FS_Subset
    <3>8. Cardinality(Left) \in Nat /\ Cardinality(Gone) \in Nat
      BY <3>2, <3>4, FS_Subset, FS_CardinalityType
    <3>9. Cardinality((1..Len(names)) \ Gone) = Len(names) - Cardinality(Gone)
      BY <1>2, <3>5, <3>6, Zenon
    <3> QED
      BY <1>1, <1>2, <1>3, <3>3, <3>7, <3>8, <3>9
  <2> QED
    BY <2>3, <2>4, ScannedFacts, Zenon
<1> QED
  BY <1>4, <1>5, Zenon

\* The last of a bucket is its latest.
LEMMA LatestLast ==
  ASSUME NEW bucket \in Seq(Int), NEW all \in Seq(Int), NEW cutoff \in Int,
         NEW last, Remembers(bucket, all, cutoff), Ascending(all, last),
         NEW i \in 1..Len(bucket)
  PROVE  bucket[i] <= bucket[Len(bucket)]
<1> DEFINE k == Len(all) - Len(bucket)
<1>1. Len(bucket) \in Nat /\ Len(all) \in Nat /\ Len(bucket) <= Len(all)
  BY DEF Remembers
<1>2. k + i \in 1..Len(all) /\ k + Len(bucket) \in 1..Len(all)
      /\ k + i <= k + Len(bucket) /\ Len(bucket) \in 1..Len(bucket)
  BY <1>1
<1>3. bucket[i] = all[k + i] /\ bucket[Len(bucket)] = all[k + Len(bucket)]
  BY <1>2 DEF Remembers
<1> HIDE DEF k
<1>4. all[k + i] <= all[k + Len(bucket)]
  BY <1>2 DEF Ascending
<1> QED
  BY <1>3, <1>4

\* The keys of the map are sources: an attempt that is let through adds its
\* own and trimming adds none.
AdmitOrder(s) ==
  IF \E i \in DOMAIN order : order[i] = s THEN order ELSE Append(order, s)

LEMMA AdmitMap ==
  ASSUME order \in Seq(Sources), NEW s \in Sources, Admit(s)
  PROVE  /\ AdmitOrder(s) \in Seq(Sources)
         /\ attempts' = Trimmed([attempts EXCEPT ![s] = Append(Fresh(@), clock)],
                                AdmitOrder(s))
         /\ order' = Kept(attempts', AdmitOrder(s))
         /\ order' \in Seq(Sources)
<1>1. AdmitOrder(s) \in Seq(Sources)
  BY AppendProperties DEF AdmitOrder
<1>2. /\ attempts' = Trimmed([attempts EXCEPT ![s] = Append(Fresh(@), clock)],
                             AdmitOrder(s))
      /\ order' = Kept(attempts', AdmitOrder(s))
  BY Zenon DEF Admit, AdmitOrder
<1> QED
  BY <1>1, <1>2, KeptFacts DEF KeysLeft

OrderType == order \in Seq(Sources)

LEMMA OrderStep ==
  ASSUME OrderType, [Next]_vars
  PROVE  OrderType'
<1>1. CASE Tick
  BY <1>1 DEF Tick, OrderType
<1>2. ASSUME NEW s \in Sources, Refuse(s) PROVE OrderType'
  BY <1>2 DEF Refuse, OrderType
<1>3. ASSUME NEW s \in Sources, Admit(s) PROVE OrderType'
  BY <1>3, AdmitMap DEF OrderType
<1>4. CASE UNCHANGED counts
  BY <1>4 DEF counts, OrderType
<1> QED
  BY <1>1, <1>2, <1>3, <1>4, CountingSteps, Zenon

\* The attempt that is let through leaves the map within its bound, or with
\* nothing to purge.
LEMMA AdmitTrims ==
  ASSUME GuardInv, order \in Seq(Sources), NEW s \in Sources, Admit(s)
  PROVE  \/ Len(order') <= MaxSources
         \/ \A i \in DOMAIN order' :
              attempts'[order'[i]][Len(attempts'[order'[i]])] > Cutoff
<1> DEFINE added == [attempts EXCEPT ![s] = Append(Fresh(@), clock)]
           names == AdmitOrder(s)
<1>1. /\ CountsType /\ Cutoff \in Int /\ clock \in Int
      /\ Fresh(attempts[s]) \in Seq(Int)
  <2>1. CountsType /\ Cutoff \in Int
    BY CutoffType DEF GuardInv, CountsType
  <2>2. attempts[s] \in Seq(Int) /\ clock \in Int
    BY <2>1 DEF CountsType
  <2>3. Fresh(attempts[s]) \in Seq(Int)
    BY <2>1, <2>2, FreshFacts
  <2> QED
    BY <2>1, <2>2, <2>3
<1>2. /\ names \in Seq(Sources) /\ order' \in Seq(Sources)
      /\ attempts' = Trimmed(added, names) /\ order' = Kept(attempts', names)
  BY AdmitMap
<1>3. added \in [Sources -> Seq(Int)]
  BY <1>1, AppendProperties DEF CountsType
<1>4. clock > Cutoff
  BY <1>1, GuardAssumption DEF Cutoff, CountsType
<1>5. ASSUME NEW t \in Sources, Fresh(added[t]) # <<>>
      PROVE  Fresh(added[t])[Len(Fresh(added[t]))] > Cutoff
  <2>1. CASE t = s
    <3>1. added[t] = Append(Fresh(attempts[s]), clock)
      BY <1>1, <2>1 DEF CountsType
    <3>2. added[t] \in Seq(Int)
      BY <1>3
    <3> HIDE DEF added
    <3>3. added[t][Len(added[t])] = clock
      BY <1>1, <3>1, AppendProperties
    <3>4. Fresh(added[t])[Len(Fresh(added[t]))] = added[t][Len(added[t])]
      BY <1>1, <1>5, <3>2, FreshLast
    <3> QED
      BY <1>4, <3>3, <3>4
  <2>2. CASE t # s
    <3>1. /\ added[t] = attempts[t] /\ attempts[t] \in Seq(Int)
          /\ admitted[t] \in Seq(Int)
      BY <1>1, <2>2 DEF CountsType
    <3>2. Remembers(attempts[t], admitted[t], Cutoff) /\ Ascending(admitted[t], clock)
      BY DEF GuardInv
    <3> HIDE DEF added
    <3>3. /\ Len(attempts[t]) \in Nat \ {0}
          /\ Fresh(attempts[t])[Len(Fresh(attempts[t]))] = attempts[t][Len(attempts[t])]
          /\ \E i \in 1..Len(attempts[t]) : attempts[t][i] > Cutoff
      BY <1>1, <1>5, <3>1, FreshLast
    <3>4. PICK i \in 1..Len(attempts[t]) : attempts[t][i] > Cutoff
      BY <3>3
    <3>5. attempts[t][i] <= attempts[t][Len(attempts[t])]
      BY <1>1, <3>1, <3>2, LatestLast
    <3>6. attempts[t][i] \in Int /\ attempts[t][Len(attempts[t])] \in Int
      BY <3>1, <3>3
    <3> QED
      BY <1>1, <3>1, <3>3, <3>4, <3>5, <3>6
  <2> QED
    BY <2>1, <2>2
<1> HIDE DEF added, names
<1>6. CASE \A j \in 1..Len(order') : attempts'[order'[j]] = Fresh(added[order'[j]])
  <2>1. KeysLeft(order', attempts', names)
    BY <1>2, KeptFacts, Zenon
  <2>2. \A j \in 1..Len(order') : order'[j] \in Sources /\ attempts'[order'[j]] # <<>>
    BY <1>2, <2>1 DEF KeysLeft
  <2>3. ASSUME NEW j \in 1..Len(order')
        PROVE  attempts'[order'[j]][Len(attempts'[order'[j]])] > Cutoff
    <3>1. order'[j] \in Sources /\ Fresh(added[order'[j]]) # <<>>
          /\ attempts'[order'[j]] = Fresh(added[order'[j]])
      BY <1>6, <2>2
    <3> QED
      BY <1>5, <3>1, Zenon
  <2>4. DOMAIN order' = 1..Len(order')
    BY <1>2
  <2> QED
    BY <2>3, <2>4, Zenon
<1>7. \/ Len(order') <= MaxSources
      \/ \A j \in 1..Len(order') : attempts'[order'[j]] = Fresh(added[order'[j]])
  BY <1>1, <1>2, <1>3, TrimmedLeaves, Zenon
<1> QED
  BY <1>6, <1>7

\* TrimmedWhatItCould for any bounds of the map: when the map is over its
\* bound after an attempt, no source in it could have been deleted.
THEOREM TrimsWhatItCan == Spec => TrimmedWhatItCould
<1>1. Init => OrderType
  BY DEF Init, OrderType
<1>2. OrderType /\ [Next]_vars => OrderType'
  BY OrderStep
<1>3. GuardInv /\ OrderType /\ [Next]_vars => [TrimsEnough]_vars
  <2> SUFFICES ASSUME GuardInv, OrderType, [Next]_vars,
                      admitted' # admitted
               PROVE  \/ Len(order') <= MaxSources
                      \/ \A i \in DOMAIN order' :
                           attempts'[order'[i]][Len(attempts'[order'[i]])] > Cutoff
    BY DEF TrimsEnough
  <2>1. \E s \in Sources : Admit(s)
    BY CountingSteps, Zenon DEF Tick, Refuse, counts
  <2> QED
    BY <2>1, AdmitTrims DEF OrderType
<1> QED
  BY <1>1, <1>2, <1>3, GuardInvariant, PTL DEF Spec, TrimmedWhatItCould

=============================================================================
