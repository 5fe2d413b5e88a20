-------------------------- MODULE ContinuationsProofs --------------------------
(* Proof that the adapters remember a conversation's turns as they should, for *)
(* every number of requests, objects of the session, turns and histories, and  *)
(* for every limit and queue.                                                  *)
EXTENDS ServicesProofs

-----------------------------------------------------------------------------
(* Lists of the newest records. *)

\* The end of a sequence.
LEMMA EndOfSequence ==
    ASSUME NEW S, NEW s \in Seq(S), NEW left \in 0..Len(s)
    PROVE  LET end == SubSeq(s, left + 1, Len(s))
           IN  /\ Len(end) = Len(s) - left /\ DOMAIN end = 1..(Len(s) - left)
               /\ \A k \in 1..(Len(s) - left) : end[k] = s[left + k]
<1>1. Len(s) \in Nat /\ left \in Nat /\ left <= Len(s)
    OBVIOUS
<1>2. Len(SubSeq(s, left + 1, Len(s))) = Len(s) - left
    BY <1>1
<1>3. SubSeq(s, left + 1, Len(s)) \in Seq(S)
    BY <1>1
<1>4. ASSUME NEW k \in 1..(Len(s) - left)
      PROVE  SubSeq(s, left + 1, Len(s))[k] = s[left + k]
    BY <1>1
<1> QED
    BY <1>2, <1>3, <1>4

\* The oldest records are left out when there are more than the limit allows.
LEMMA RecentIs ==
    ASSUME NEW records \in Seq(Turn)
    PROVE  /\ Len(C!Recent(records)) <= Limit
           /\ \E left \in Nat :
                /\ left > 0 => Len(C!Recent(records)) = Limit
                /\ Len(C!Recent(records)) + left = Len(records)
                /\ DOMAIN C!Recent(records) = 1..Len(C!Recent(records))
                /\ \A k \in DOMAIN C!Recent(records) :
                      C!Recent(records)[k] = records[left + k]
<1> DEFINE kept == C!Min({Limit, Len(records)})
           left == Len(records) - kept
<1>1. Limit \in Nat /\ Len(records) \in Nat
    BY ContinuationFacts
<1>2. \E x \in {Limit, Len(records)} : \A y \in {Limit, Len(records)} : x <= y
    BY <1>1
<1>3. kept \in {Limit, Len(records)} /\ kept <= Limit /\ kept <= Len(records)
    BY <1>2 DEF C!Min
<1> HIDE DEF kept
<1>4. /\ left \in 0..Len(records) /\ left \in Nat /\ Len(records) - left = kept
      /\ kept + left = Len(records) /\ (left > 0 => kept = Limit)
    BY <1>1, <1>3
<1> HIDE DEF left
<1>5. C!Recent(records) = SubSeq(records, left + 1, Len(records))
    BY DEF C!Recent, kept, left
<1>6. /\ Len(C!Recent(records)) = kept /\ DOMAIN C!Recent(records) = 1..kept
      /\ \A k \in 1..kept : C!Recent(records)[k] = records[left + k]
    BY <1>4, <1>5, EndOfSequence
<1> QED
    BY <1>3, <1>4, <1>6

\* The newest of the records that are the newest of some turns are the newest of
\* those turns.
LEMMA RecentIsNewest ==
    ASSUME NEW records \in Seq(Turn), NEW log \in Seq(Turn), NEW ids,
           C!Newest(records, log, ids)
    PROVE  Len(C!Recent(records)) <= Limit /\ C!Newest(C!Recent(records), log, ids)
<1> DEFINE those == {i \in DOMAIN log : log[i].id \in ids}
           recent == C!Recent(records)
<1>1. PICK place \in [DOMAIN records -> those] :
          /\ \A k \in DOMAIN records : records[k] = log[place[k]]
          /\ \A j, k \in DOMAIN records : j < k => place[j] < place[k]
          /\ \A i \in those : (\A k \in DOMAIN records : place[k] # i) =>
                /\ Len(records) >= Limit
                /\ \A k \in DOMAIN records : i < place[k]
    BY DEF C!Newest
<1>2. PICK left \in Nat :
          /\ left > 0 => Len(recent) = Limit
          /\ Len(recent) + left = Len(records)
          /\ DOMAIN recent = 1..Len(recent)
          /\ \A k \in DOMAIN recent : recent[k] = records[left + k]
    BY RecentIs
<1>3. /\ Limit \in Nat /\ Len(recent) \in Nat /\ Len(recent) <= Limit
      /\ Len(records) \in Nat /\ DOMAIN records = 1..Len(records)
      /\ \A i \in those : i \in Nat
    <2>1. recent \in Seq(Turn) /\ Len(recent) <= Limit
        BY RecentTurns
    <2>2. Limit \in Nat
        BY ContinuationFacts
    <2>3. \A i \in those : i \in Nat
        OBVIOUS
    <2> HIDE DEF recent
    <2> QED
        BY <2>1, <2>2, <2>3
<1> HIDE DEF those, recent
<1>4. ASSUME NEW k \in DOMAIN recent
      PROVE  left + k \in DOMAIN records /\ k \in Nat
    BY <1>2, <1>3
<1>5. /\ left > 0 => Len(recent) = Limit
      /\ ~(left > 0) => Len(recent) = Len(records)
    <2>1. Len(recent) + left = Len(records) /\ Len(recent) \in Nat
        BY <1>2, <1>3
    <2>2. ~(left > 0) => Len(recent) = Len(records)
        BY <2>1
    <2> QED
        BY <1>2, <2>2
<1>6. ASSUME NEW n \in DOMAIN records
      PROVE  /\ n > left => n - left \in DOMAIN recent /\ left + (n - left) = n
             /\ n <= left => left > 0 /\ \A k \in DOMAIN recent : n < left + k
    <2>1. /\ Len(recent) + left = Len(records) /\ DOMAIN recent = 1..Len(recent)
          /\ Len(recent) \in Nat /\ Len(records) \in Nat /\ n \in 1..Len(records)
        BY <1>2, <1>3
    <2>2. n > left => n - left \in DOMAIN recent /\ left + (n - left) = n
        BY <2>1
    <2>3. n <= left => left > 0 /\ \A k \in DOMAIN recent : n < left + k
        BY <2>1
    <2> QED
        BY <2>2, <2>3
<1> DEFINE moved == [k \in DOMAIN recent |-> place[left + k]]
<1>7. moved \in [DOMAIN recent -> those]
    BY <1>4
<1>8. \A k \in DOMAIN recent : moved[k] = place[left + k]
    OBVIOUS
<1> HIDE DEF moved
<1>9. \A k \in DOMAIN recent : recent[k] = log[moved[k]]
    BY <1>1, <1>2, <1>4, <1>8
<1>10. ASSUME NEW j \in DOMAIN recent, NEW k \in DOMAIN recent, j < k
       PROVE  moved[j] < moved[k]
    <2>1. left + j < left + k
        BY <1>4, <1>10
    <2> QED
        BY <1>1, <1>4, <1>8, <2>1
<1>11. ASSUME NEW i \in those, \A k \in DOMAIN recent : moved[k] # i
       PROVE  Len(recent) >= Limit /\ \A k \in DOMAIN recent : i < moved[k]
    <2>1. CASE \A k \in DOMAIN records : place[k] # i
        <3>1. Len(records) >= Limit /\ \A k \in DOMAIN recent : i < moved[k]
            BY <1>1, <1>4, <1>8, <2>1
        <3> QED
            BY <1>3, <1>5, <3>1
    <2>2. ASSUME NEW n \in DOMAIN records, place[n] = i
          PROVE  Len(recent) >= Limit /\ \A k \in DOMAIN recent : i < moved[k]
        <3>1. CASE n > left
            BY <1>6, <1>8, <1>11, <2>2, <3>1
        <3>2. CASE ~(n > left)
            <4>1. left > 0 /\ \A k \in DOMAIN recent : n < left + k
                BY <1>3, <1>6, <3>2
            <4> QED
                BY <1>1, <1>4, <1>5, <1>8, <2>2, <4>1
        <3> QED
            BY <3>1, <3>2
    <2> QED
        BY <2>1, <2>2
<1> QED
    BY <1>3, <1>7, <1>9, <1>10, <1>11 DEF C!Newest, those, recent

\* They still are when a turn is told that is none of those.
LEMMA NewestOfMore ==
    ASSUME NEW records \in Seq(Turn), NEW log \in Seq(Turn), NEW ids, NEW x \in Turn,
           x.id \notin ids, C!Newest(records, log, ids)
    PROVE  C!Newest(records, Append(log, x), ids)
<1> DEFINE those == {i \in DOMAIN log : log[i].id \in ids}
           longer == Append(log, x)
<1>1. those = {i \in DOMAIN longer : longer[i].id \in ids}
    BY Zenon, SMT
<1>2. \A i \in those : longer[i] = log[i]
    OBVIOUS
<1> HIDE DEF longer
<1> QED
    BY <1>1, <1>2 DEF C!Newest, longer

\* A turn that was told after all of those is the newest of them.
LEMMA NewestAppended ==
    ASSUME NEW records \in Seq(Turn), NEW log \in Seq(Turn), NEW ids,
           C!Newest(records, log, ids),
           NEW p \in DOMAIN log,
           \A i \in DOMAIN log : log[i].id \in ids => i < p,
           \A i \in DOMAIN log : log[i].id = log[p].id => i = p
    PROVE  C!Newest(Append(records, log[p]), log, ids \cup {log[p].id})
<1> DEFINE those == {i \in DOMAIN log : log[i].id \in ids}
           more == {i \in DOMAIN log : log[i].id \in ids \cup {log[p].id}}
           longer == Append(records, log[p])
           last == Len(records) + 1
<1>1. PICK place \in [DOMAIN records -> those] :
          /\ \A k \in DOMAIN records : records[k] = log[place[k]]
          /\ \A j, k \in DOMAIN records : j < k => place[j] < place[k]
          /\ \A i \in those : (\A k \in DOMAIN records : place[k] # i) =>
                /\ Len(records) >= Limit
                /\ \A k \in DOMAIN records : i < place[k]
    BY DEF C!Newest
<1>2. more = those \cup {p} /\ (\A i \in those : i < p)
    OBVIOUS
<1>3. /\ Limit \in Nat /\ Len(records) \in Nat /\ DOMAIN records = 1..Len(records)
      /\ DOMAIN longer = 1..last /\ Len(longer) = last /\ longer[last] = log[p]
      /\ \A k \in DOMAIN records : longer[k] = records[k]
      /\ \A k \in DOMAIN longer : k # last => k \in DOMAIN records /\ k < last
      /\ (\A i \in those : i \in Nat) /\ p \in Nat
    BY ContinuationFacts
<1> HIDE DEF those, more, longer
<1> DEFINE added == [k \in DOMAIN longer |-> IF k = last THEN p ELSE place[k]]
<1>4. added \in [DOMAIN longer -> more]
    BY <1>1, <1>2, <1>3
<1>5. added[last] = p /\ \A k \in DOMAIN records : added[k] = place[k]
    BY <1>3
<1> HIDE DEF added
<1>6. /\ \A j, k \in DOMAIN records : j < k => place[j] < place[k]
      /\ \A k \in DOMAIN records : place[k] < p /\ k < last
    BY <1>1, <1>2, <1>3
<1>7. \A k \in DOMAIN longer : longer[k] = log[added[k]]
    BY <1>1, <1>3, <1>5
<1>8. ASSUME NEW j \in DOMAIN longer, NEW k \in DOMAIN longer, j < k
      PROVE  added[j] < added[k]
    <2>1. j \in DOMAIN records
        BY <1>3, <1>8
    <2>2. CASE k = last
        BY <1>5, <1>6, <2>1, <2>2
    <2>3. CASE k # last
        BY <1>3, <1>5, <1>8, <1>6, <2>1, <2>3
    <2> QED
        BY <2>2, <2>3
<1>9. ASSUME NEW i \in more, \A k \in DOMAIN longer : added[k] # i
      PROVE  Len(longer) >= Limit /\ \A k \in DOMAIN longer : i < added[k]
    <2>1. i \in those
        BY <1>2, <1>3, <1>5, <1>9
    <2>2. \A k \in DOMAIN records : place[k] # i
        BY <1>3, <1>5, <1>9
    <2>3. Len(records) >= Limit /\ \A k \in DOMAIN records : i < place[k]
        BY <1>1, <2>1, <2>2
    <2>4. Len(longer) >= Limit
        BY <1>3, <2>3
    <2>5. \A k \in DOMAIN longer : i < added[k]
        BY <1>2, <1>3, <1>5, <2>1, <2>3
    <2> QED
        BY <2>4, <2>5
<1> QED
    BY <1>4, <1>7, <1>8, <1>9 DEF C!Newest, more, longer

\* A whole log is the newest of its turns, and nothing is the newest of none.
LEMMA NewestOfAll ==
    ASSUME NEW log \in Seq(Turn), NEW ids,
           \A i \in DOMAIN log : log[i].id \in ids
    PROVE  C!Newest(log, log, ids)
<1> DEFINE those == {i \in DOMAIN log : log[i].id \in ids}
           place == [k \in DOMAIN log |-> k]
<1>1. place \in [DOMAIN log -> those] /\ \A k \in DOMAIN log : place[k] = k
    OBVIOUS
<1> HIDE DEF place
<1>2. \A i \in those : \E k \in DOMAIN log : place[k] = i
    BY <1>1
<1> QED
    BY <1>1, <1>2 DEF C!Newest

LEMMA NewestOfNone ==
    ASSUME NEW log \in Seq(Turn)
    PROVE  C!Newest(<<>>, log, {})
<1> DEFINE those == {i \in DOMAIN log : log[i].id \in {}}
           place == [k \in {} |-> 0]
<1>1. place \in [DOMAIN <<>> -> those] /\ DOMAIN <<>> = {} /\ those = {}
    OBVIOUS
<1> HIDE DEF place
<1> QED
    BY <1>1 DEF C!Newest

-----------------------------------------------------------------------------
(* Matching a history with the records. *)

\* Cardinality is the same in every module.
LEMMA SameCount == \A S : C!Cardinality(S) = Cardinality(S)
    BY DEF C!Cardinality, Cardinality

\* What follows a position of a sequence with the same key.
Later(keys, i) == {j \in DOMAIN keys : j > i /\ keys[j] = keys[i]}

\* How many that are is a number.
LEMMA AfterIsCount ==
    ASSUME NEW n \in Nat, NEW keys, DOMAIN keys = 1..n, NEW i \in 1..n
    PROVE  /\ IsFiniteSet(Later(keys, i))
           /\ C!After(keys, i) = Cardinality(Later(keys, i))
           /\ C!After(keys, i) \in Nat
<1>1. IsFiniteSet(1..n)
    BY FS_Interval
<1>2. Later(keys, i) \in SUBSET (1..n)
    BY DEF Later
<1>3. IsFiniteSet(Later(keys, i))
    BY <1>1, <1>2, FS_Subset
<1>4. C!After(keys, i) = Cardinality(Later(keys, i))
    BY SameCount DEF C!After, Later
<1> QED
    BY <1>3, <1>4, FS_CardinalityType

\* It is less for a later position of the same key.
LEMMA AfterDecreases ==
    ASSUME NEW n \in Nat, NEW keys, DOMAIN keys = 1..n,
           NEW i \in 1..n, NEW k \in 1..n, i < k, keys[i] = keys[k]
    PROVE  C!After(keys, k) < C!After(keys, i)
<1>1. /\ k \in Later(keys, i) /\ k \notin Later(keys, k)
      /\ Later(keys, k) \in SUBSET Later(keys, i)
    BY DEF Later
<1>2. /\ IsFiniteSet(Later(keys, i)) /\ IsFiniteSet(Later(keys, k))
      /\ C!After(keys, i) = Cardinality(Later(keys, i))
      /\ C!After(keys, k) = Cardinality(Later(keys, k))
      /\ C!After(keys, i) \in Nat /\ C!After(keys, k) \in Nat
    BY AfterIsCount
<1>3. Cardinality(Later(keys, k)) <= Cardinality(Later(keys, i))
    BY <1>1, <1>2, FS_Subset
<1>4. Cardinality(Later(keys, k)) # Cardinality(Later(keys, i))
    BY <1>1, <1>2, FS_Subset
<1> QED
    BY <1>2, <1>3, <1>4

\* So it tells the positions of a key apart.
LEMMA AfterIsInjective ==
    ASSUME NEW n \in Nat, NEW keys, DOMAIN keys = 1..n,
           NEW i \in 1..n, NEW k \in 1..n, keys[i] = keys[k],
           C!After(keys, i) = C!After(keys, k)
    PROVE  i = k
<1>1. C!After(keys, i) \in Nat /\ C!After(keys, k) \in Nat
    BY AfterIsCount
<1>2. CASE i < k
    BY <1>1, <1>2, AfterDecreases
<1>3. CASE k < i
    BY <1>1, <1>3, AfterDecreases
<1> QED
    BY <1>2, <1>3

\* Every smaller number is that of a later position of the key.
LEMMA AfterIsDense ==
    ASSUME NEW n \in Nat, NEW keys, DOMAIN keys = 1..n,
           NEW i \in 1..n, NEW m \in Nat, m < C!After(keys, i)
    PROVE  \E k \in 1..n : k > i /\ keys[k] = keys[i] /\ C!After(keys, k) = m
<1> DEFINE later == Later(keys, i)
           count == Cardinality(later)
           below == 0..(count - 1)
           rank == [k \in later |-> C!After(keys, k)]
<1>1. /\ IsFiniteSet(later) /\ count \in Nat /\ m \in below
    BY AfterIsCount
<1>2. \A k \in later : k \in 1..n /\ k > i /\ keys[k] = keys[i]
    BY DEF Later
<1>3. IsFiniteSet(below) /\ Cardinality(below) = count
    <2> HIDE DEF count
    <2>1. 0 \in Int /\ count - 1 \in Int /\ ~(0 > count - 1) /\ count - 1 - 0 + 1 = count
        BY <1>1
    <2> QED
        BY <2>1, FS_Interval
<1>4. \A k \in later : C!After(keys, k) \in below
    BY <1>1, <1>2, AfterDecreases, AfterIsCount
<1>5. rank \in [later -> below]
    BY <1>4
<1>6. \A j, k \in later : rank[j] = rank[k] => j = k
    BY <1>2, AfterIsInjective
<1>7. rank \in Injection(later, below)
    BY <1>5, <1>6 DEF Injection, IsInjective
<1>8. rank \in Surjection(later, below)
    BY <1>1, <1>3, <1>7, FS_Injection
<1>9. \E k \in later : rank[k] = m
    BY <1>1, <1>8 DEF Surjection
<1> QED
    BY <1>2, <1>9

\* Every message of a history is given the mark of the record it repeats.
LEMMA ReasoningIsTheirOwn ==
    ASSUME NEW records \in Seq(Turn), NEW S, NEW messages \in Seq(S)
    PROVE  C!GivesTheirOwn([records |-> records, messages |-> messages,
                            reasoning |-> C!Reasoning(records, messages)])
<1> DEFINE keys == [i \in DOMAIN records |-> records[i].key]
           partner(i) == {j \in DOMAIN records :
                             keys[j] = messages[i]
                             /\ C!After(keys, j) = C!After(messages, i)}
           repeats == {i \in DOMAIN messages : partner(i) # {}}
           pairs == [i \in repeats |-> CHOOSE j \in partner(i) : TRUE]
           matched == C!Matched(records, messages)
           n == Len(records)
           m == Len(messages)
<1>1. /\ n \in Nat /\ m \in Nat /\ DOMAIN records = 1..n /\ DOMAIN messages = 1..m
      /\ DOMAIN keys = 1..n
    OBVIOUS
<1>2. \A i \in repeats : pairs[i] \in partner(i)
    OBVIOUS
<1>3. matched = [i \in repeats |-> records[CHOOSE j \in partner(i) : TRUE]]
    BY DEF C!Matched
<1>4. DOMAIN matched = repeats /\ \A i \in repeats : matched[i] = records[pairs[i]]
    BY <1>3
<1>5. \A j \in 1..n : keys[j] = records[j].key
    BY <1>1
<1>6. \A i \in 1..m, j \in 1..n :
          j \in partner(i) <=> keys[j] = messages[i] /\ C!After(keys, j) = C!After(messages, i)
    BY <1>1
<1>7. \A i \in 1..m : i \in repeats <=> \E j \in 1..n : j \in partner(i)
    BY <1>1
<1>8. repeats \subseteq 1..m /\ pairs \in [repeats -> DOMAIN records]
    BY <1>1, <1>2
<1> HIDE DEF keys, partner, repeats, pairs, matched, n, m
<1>9. /\ \A i \in 1..m : C!After(messages, i) \in Nat
      /\ \A j \in 1..n : C!After(keys, j) \in Nat
    BY <1>1, AfterIsCount
<1>10. \A i \in repeats :
          /\ i \in 1..m /\ pairs[i] \in 1..n /\ keys[pairs[i]] = messages[i]
          /\ C!After(keys, pairs[i]) = C!After(messages, i)
    BY <1>1, <1>2, <1>6, <1>8
\* A record of the message's key and rank is its partner.
<1>11. ASSUME NEW i \in 1..m, NEW j \in 1..n, keys[j] = messages[i],
              C!After(keys, j) = C!After(messages, i)
       PROVE  i \in repeats /\ pairs[i] = j
    <2>1. i \in repeats
        BY <1>6, <1>7, <1>11
    <2> QED
        BY <1>1, <1>10, <1>11, <2>1, AfterIsInjective
\* A message of the record's key and rank takes it.
<1>12. ASSUME NEW i \in 1..m, NEW j \in 1..n, keys[j] = messages[i],
              C!After(keys, j) < C!After(messages, i)
       PROVE  \E k \in repeats : pairs[k] = j
    <2>1. C!After(keys, j) \in Nat
        BY <1>9
    <2>2. PICK k \in 1..m : /\ k > i /\ messages[k] = messages[i]
                            /\ C!After(messages, k) = C!After(keys, j)
        BY <1>1, <1>12, <2>1, AfterIsDense
    <2> QED
        BY <1>11, <1>12, <2>2
<1>13. ASSUME NEW i \in repeats, NEW k \in repeats, i < k, messages[i] = messages[k]
       PROVE  pairs[i] < pairs[k]
    <2>1. C!After(messages, k) < C!After(messages, i)
        BY <1>1, <1>10, <1>13, AfterDecreases
    <2>2. C!After(keys, pairs[k]) < C!After(keys, pairs[i])
        BY <1>10, <2>1
    <2>3. pairs[i] \in 1..n /\ pairs[k] \in 1..n /\ keys[pairs[i]] = keys[pairs[k]]
          /\ C!After(keys, pairs[i]) \in Nat /\ C!After(keys, pairs[k]) \in Nat
        BY <1>9, <1>10, <1>13
    <2>4. pairs[k] < pairs[i] => C!After(keys, pairs[i]) < C!After(keys, pairs[k])
        BY <1>1, <2>3, AfterDecreases
    <2>5. pairs[k] # pairs[i]
        BY <2>2, <2>3
    <2> QED
        BY <1>1, <2>2, <2>3, <2>4, <2>5
<1>14. ASSUME NEW i \in repeats, NEW k \in 1..m, k > i, messages[k] = messages[i]
       PROVE  k \in repeats
    <2>1. C!After(messages, k) < C!After(keys, pairs[i])
        BY <1>1, <1>10, <1>14, AfterDecreases
    <2>2. C!After(messages, k) \in Nat /\ pairs[i] \in 1..n
        BY <1>9, <1>10
    <2>3. ASSUME NEW p \in 1..n, NEW rank \in Nat, rank < C!After(keys, p)
          PROVE  \E j \in 1..n : keys[j] = keys[p] /\ C!After(keys, j) = rank
        BY <1>1, <2>3, AfterIsDense
    <2>4. PICK j \in 1..n : /\ keys[j] = keys[pairs[i]]
                            /\ C!After(keys, j) = C!After(messages, k)
        BY <2>1, <2>2, <2>3
    <2> QED
        BY <1>10, <1>11, <1>14, <2>4
<1>15. ASSUME NEW i \in repeats, NEW j \in 1..n, j > pairs[i], keys[j] = messages[i]
       PROVE  \E k \in repeats : pairs[k] = j
    <2>1. C!After(keys, j) < C!After(keys, pairs[i])
        BY <1>1, <1>10, <1>15, AfterDecreases
    <2> QED
        BY <1>10, <1>12, <1>15, <2>1
<1>16. ASSUME NEW i \in (1..m) \ repeats, NEW j \in 1..n, keys[j] = messages[i]
       PROVE  \E k \in repeats : pairs[k] = j
    <2>1. C!After(keys, j) # C!After(messages, i)
        BY <1>11, <1>16
    <2>2. CASE C!After(keys, j) < C!After(messages, i)
        BY <1>12, <1>16, <2>2
    <2>3. CASE C!After(messages, i) < C!After(keys, j)
        <3>1. PICK k \in 1..n : /\ keys[k] = keys[j]
                                /\ C!After(keys, k) = C!After(messages, i)
            BY <1>1, <1>9, <2>3, AfterIsDense
        <3> QED
            BY <1>11, <1>16, <3>1
    <2> QED
        BY <1>9, <2>1, <2>2, <2>3
<1>17. C!Pairs(pairs, records, messages)
    <2>1. DOMAIN pairs = repeats
        BY <1>8
    <2> QED
        BY <1>1, <1>5, <1>10, <1>13, <1>14, <1>15, <1>16, <2>1 DEF C!Pairs
<1>18. \A i \in DOMAIN messages :
          C!Reasoning(records, messages)[i] =
              IF i \in repeats THEN C!Due(records[pairs[i]]) ELSE "none"
    BY <1>4 DEF C!Reasoning, C!Due, matched
<1> DEFINE given == [records |-> records, messages |-> messages,
                     reasoning |-> C!Reasoning(records, messages)]
<1>19. /\ given.records = records /\ given.messages = messages
       /\ given.reasoning = C!Reasoning(records, messages)
    OBVIOUS
<1> HIDE DEF given
<1>20. repeats \in SUBSET DOMAIN given.messages
       /\ pairs \in [repeats -> DOMAIN given.records]
    BY <1>1, <1>8, <1>19
<1>21. C!Pairs(pairs, given.records, given.messages)
    BY <1>17, <1>19
<1>22. \A i \in DOMAIN given.messages :
          given.reasoning[i] =
              IF i \in repeats THEN C!Due(given.records[pairs[i]]) ELSE "none"
    BY <1>18, <1>19
<1>23. C!GivesTheirOwn(given)
    BY <1>20, <1>21, <1>22, Zenon DEF C!GivesTheirOwn
<1> QED
    BY <1>23 DEF given

-----------------------------------------------------------------------------
(* The inductive invariant. *)

Id == {x.id : x \in Turn}

\* A turn is told once, and none of a request that has yet to save it.
TurnsAreTold ==
    /\ told \in Seq(Turn) /\ accepted \subseteq Id /\ known \in [Objects -> SUBSET Id]
    /\ \A i, j \in DOMAIN told : told[i].id = told[j].id => i = j
    /\ \A r \in Requests : turn[r] # "done" =>
          /\ \A i \in DOMAIN told : told[i].id # r
          /\ r \notin accepted
          /\ \A o \in Objects : r \notin known[o]

\* An object that is not hydrated was given nothing before its load is over, and
\* nothing is parked: requests save only through a hydrated one.
MemoryIsRemembered ==
    \A o \in Objects :
       /\ memory[o].hydrated => C!Remembers(memory[o].saved, known[o])
       /\ ~memory[o].hydrated => memory[o].saved = <<>>
       /\ ~memory[o].hydrated /\ ~memory[o].loading => known[o] = {}
       /\ memory[o].pending \in {None, <<>>}

Loads(r) == turn[r] \in {"load", "waiting", "install"}

\* One request at a time loads an object, and what it has loaded are the newest
\* turns of those the object was given.
LoadsAreSound ==
    \A r \in Requests :
       /\ turn[r] \in {"prepare", "answering"} => memory[uses[r]].hydrated
       /\ Loads(r) => memory[uses[r]].loading
       /\ turn[r] \in {"load", "waiting"} => known[uses[r]] = {}
       /\ turn[r] \in {"new", "hydrate", "load", "waiting"} => batch[r] = <<>>
       /\ turn[r] = "install" => C!Newest(batch[r], told, known[uses[r]])
       /\ \A q \in Requests : Loads(r) /\ Loads(q) /\ uses[r] = uses[q] => r = q

IsLoad(k) == queue[k].kind = "load"

WritesTurn(k, i) == queue[k].kind = "write" /\ queue[k].record = told[i]

\* What is on disk or was, of what the recorder took.
Written == accepted \ C!Submitted(queue)

\* A queued load is that of a request that waits for it, and the writes follow
\* each other and what is written in the order the turns were told.
QueueIsSound ==
    /\ \A k \in DOMAIN queue : IsLoad(k) => turn[queue[k].reader] = "waiting"
    /\ \A k, n \in DOMAIN queue :
          IsLoad(k) /\ IsLoad(n) /\ queue[k].reader = queue[n].reader => k = n
    /\ \A k \in DOMAIN queue : queue[k].kind = "write" =>
          queue[k].record.id \in accepted /\ \E i \in DOMAIN told : WritesTurn(k, i)
    /\ \A k, n \in DOMAIN queue, i, j \in DOMAIN told :
          k < n /\ WritesTurn(k, i) /\ WritesTurn(n, j) => i < j
    /\ \A k \in DOMAIN queue, i, j \in DOMAIN told :
          told[i].id \in Written /\ WritesTurn(k, j) => i < j

RowsAreRemembered == C!Remembers(durable, Written)

ReplaysAreMarked ==
    /\ DOMAIN replayed = Requests
    /\ \A r \in Requests : replayed[r] # None => C!GivesTheirOwn(replayed[r])

RememberedInv ==
    /\ TurnsAreTold /\ MemoryIsRemembered /\ LoadsAreSound /\ QueueIsSound
    /\ RowsAreRemembered /\ ReplaysAreMarked

-----------------------------------------------------------------------------
(* Each step keeps it. *)

\* The turns that wait in a queue to be written.
LEMMA SubmittedAre ==
    ASSUME NEW jobs, NEW id
    PROVE  id \in C!Submitted(jobs) <=>
               \E k \in DOMAIN jobs : jobs[k].kind = "write" /\ jobs[k].record.id = id
    BY DEF C!Submitted, C!ToSet

\* What is in the queue.
LEMMA QueuedJobs ==
    ASSUME ContinuationInv
    PROVE  /\ Len(queue) \in Nat /\ DOMAIN queue = 1..Len(queue)
           /\ \A k \in DOMAIN queue :
                 /\ queue[k].kind \in {"load", "write"}
                 /\ queue[k].kind = "load" => queue[k].reader \in Requests
                 /\ queue[k].kind = "write" => queue[k].record \in Turn
<1>1. queue \in Seq(Job)
    BY DEF ContinuationInv, ContinuationTypes
<1>2. Len(queue) \in Nat /\ DOMAIN queue = 1..Len(queue)
      /\ \A k \in DOMAIN queue : queue[k] \in Job
    BY <1>1
<1>3. \A job \in Job : /\ job.kind \in {"load", "write"}
                       /\ job.kind = "load" => job.reader \in Requests
                       /\ job.kind = "write" => job.record \in Turn
    BY DEF Job, C!Write
<1> QED
    BY <1>2, <1>3

\* A request goes on, and neither loads nor saves.
LEMMA RequestGoesOn ==
    ASSUME ContinuationInv, RememberedInv, NEW r \in Requests,
           UNCHANGED <<memory, batch, queue, durable, told, accepted, known>>,
           \A q \in Requests \ {r} : turn'[q] = turn[q] /\ uses'[q] = uses[q],
           ~Loads(r), turn'[r] \notin {"new", "load", "waiting", "install"},
           turn[r] # "done",
           turn'[r] \in {"prepare", "answering"} => memory[uses'[r]].hydrated,
           turn'[r] = "hydrate" => batch[r] = <<>>
    PROVE  /\ TurnsAreTold' /\ MemoryIsRemembered' /\ LoadsAreSound' /\ QueueIsSound'
           /\ RowsAreRemembered'
<1> USE DEF RememberedInv
<1>1. TurnsAreTold'
    BY DEF TurnsAreTold
<1>2. MemoryIsRemembered'
    BY DEF MemoryIsRemembered, C!Remembers
<1>3. LoadsAreSound'
    <2>1. ~Loads(r)'
        BY DEF Loads
    <2>2. \A q \in Requests \ {r} : Loads(q)' <=> Loads(q)
        BY DEF Loads
    <2> QED
        BY <2>1, <2>2 DEF LoadsAreSound
<1>4. QueueIsSound'
    BY QueuedJobs DEF QueueIsSound, IsLoad, WritesTurn, Written, Loads
<1>5. RowsAreRemembered'
    BY DEF RowsAreRemembered, C!Remembers, Written
<1> QED
    BY <1>1, <1>2, <1>3, <1>4, <1>5

\* A request takes the object of the store.
LEMMA RememberedBegin ==
    ASSUME ContinuationInv, RememberedInv, NEW r \in Requests, C!Begin(r)
    PROVE  RememberedInv'
<1>1. /\ turn[r] = "new" /\ turn'[r] = "hydrate" /\ batch[r] = <<>>
      /\ \A q \in Requests \ {r} : turn'[q] = turn[q] /\ uses'[q] = uses[q]
      /\ UNCHANGED <<memory, batch, queue, durable, told, accepted, known, replayed>>
    BY DEF C!Begin, ContinuationInv, ContinuationTypes, RememberedInv, LoadsAreSound
<1>2. ~Loads(r)
    BY <1>1 DEF Loads
<1>3. ReplaysAreMarked'
    BY <1>1 DEF RememberedInv, ReplaysAreMarked
<1> QED
    BY <1>1, <1>2, <1>3, RequestGoesOn DEF RememberedInv

\* A history is given its marks.
LEMMA RememberedPrepare ==
    ASSUME ContinuationInv, RememberedInv, NEW r \in Requests,
           NEW messages \in Histories, C!Prepare(r, messages)
    PROVE  RememberedInv'
<1> DEFINE records == memory[uses[r]].saved
           given == [records |-> records, messages |-> messages,
                     reasoning |-> C!Reasoning(records, messages)]
<1>1. /\ turn[r] = "prepare" /\ turn'[r] = "answering" /\ memory[uses[r]].hydrated
      /\ \A q \in Requests \ {r} : turn'[q] = turn[q] /\ uses'[q] = uses[q]
      /\ uses' = uses
      /\ UNCHANGED <<memory, batch, queue, durable, told, accepted, known>>
    BY DEF C!Prepare, ContinuationInv, ContinuationTypes, RememberedInv, LoadsAreSound
<1>2. ~Loads(r)
    BY <1>1 DEF Loads
<1>3. records \in Seq(Turn)
    BY DEF ContinuationInv, ContinuationTypes, Memory
<1>4. C!GivesTheirOwn(given)
    <2>1. messages \in Seq({messages[i] : i \in DOMAIN messages})
        BY ContinuationAssumption
    <2> HIDE DEF records
    <2> QED
        BY <1>3, <2>1, ReasoningIsTheirOwn
<1>5. replayed' = [replayed EXCEPT ![r] = given]
    BY DEF C!Prepare
<1> HIDE DEF given
<1>6. ReplaysAreMarked'
    <2> SUFFICES ASSUME NEW q \in Requests, replayed'[q] # None
                 PROVE  C!GivesTheirOwn(replayed'[q])
        BY <1>5 DEF RememberedInv, ReplaysAreMarked
    <2>1. CASE q = r
        BY <1>4, <1>5, <2>1 DEF RememberedInv, ReplaysAreMarked
    <2>2. CASE q # r
        BY <1>5, <2>2 DEF RememberedInv, ReplaysAreMarked
    <2> QED
        BY <2>1, <2>2
<1> QED
    BY <1>1, <1>2, <1>6, RequestGoesOn DEF RememberedInv

\* A response leaves nothing.
LEMMA RememberedAbandon ==
    ASSUME ContinuationInv, RememberedInv, NEW r \in Requests, C!Abandon(r)
    PROVE  RememberedInv'
<1>1. /\ turn[r] = "answering" /\ turn'[r] = "done"
      /\ \A q \in Requests \ {r} : turn'[q] = turn[q] /\ uses'[q] = uses[q]
      /\ UNCHANGED <<memory, batch, queue, durable, told, accepted, known, replayed>>
    BY DEF C!Abandon, ContinuationInv, ContinuationTypes
<1>2. ~Loads(r)
    BY <1>1 DEF Loads
<1>3. ReplaysAreMarked'
    BY <1>1 DEF RememberedInv, ReplaysAreMarked
<1> QED
    BY <1>1, <1>2, <1>3, RequestGoesOn DEF RememberedInv

\* The store drops the object, or nothing happens.
LEMMA RememberedIdle ==
    ASSUME ContinuationInv, RememberedInv,
           UNCHANGED <<memory, turn, uses, batch, replayed, queue, durable, told,
                       accepted, known>>
    PROVE  RememberedInv'
<1> USE DEF RememberedInv
<1>1. TurnsAreTold' /\ MemoryIsRemembered'
    BY DEF TurnsAreTold, MemoryIsRemembered, C!Remembers
<1>2. LoadsAreSound'
    BY DEF LoadsAreSound, Loads
<1>3. QueueIsSound'
    BY DEF QueueIsSound, IsLoad, WritesTurn, Written
<1>4. RowsAreRemembered' /\ ReplaysAreMarked'
    BY DEF RowsAreRemembered, C!Remembers, Written, ReplaysAreMarked
<1> QED
    BY <1>1, <1>2, <1>3, <1>4

\* A request finds its object hydrated, has nothing to load from, or becomes the
\* one that loads it.
LEMMA RememberedHydrate ==
    ASSUME ContinuationInv, RememberedInv, NEW r \in Requests, C!Hydrate(r)
    PROVE  RememberedInv'
<1> PICK o \in Objects : o = uses[r]
    BY DEF ContinuationInv, ContinuationTypes
<1> DEFINE own == memory[o]
<1>1. /\ turn[r] = "hydrate" /\ ~own.loading
      /\ UNCHANGED <<uses, batch, replayed, queue, durable, told, accepted, known>>
      /\ memory \in [Objects -> Memory] /\ turn \in [Requests -> TurnSteps]
    BY DEF C!Hydrate, C!EnterHydration, ContinuationInv, ContinuationTypes
<1>2. /\ turn' = [turn EXCEPT ![r] = turn'[r]]
      /\ turn'[r] = IF own.hydrated \/ ~enabled THEN "prepare" ELSE "load"
    BY <1>1 DEF C!Hydrate, C!EnterHydration
<1>3. /\ memory' = [memory EXCEPT ![o] = memory'[o]]
      /\ memory'[o] = IF own.hydrated THEN own
                      ELSE IF ~enabled THEN [own EXCEPT !.hydrated = TRUE]
                      ELSE [own EXCEPT !.loading = TRUE, !.pending = <<>>]
    BY <1>1 DEF C!Hydrate, C!EnterHydration
<1>4. own \in Memory
    BY <1>1
<1>5. /\ memory'[o].saved = own.saved
      /\ memory'[o].hydrated = (own.hydrated \/ ~enabled)
      /\ memory'[o].loading = (~own.hydrated /\ enabled)
      /\ memory'[o].pending = IF own.hydrated \/ ~enabled THEN own.pending ELSE <<>>
    <2> HIDE DEF own
    <2>1. CASE own.hydrated
        BY <1>1, <1>3, <1>4, <2>1 DEF Memory
    <2>2. CASE ~own.hydrated /\ ~enabled
        BY <1>1, <1>3, <1>4, <2>2 DEF Memory
    <2>3. CASE ~own.hydrated /\ enabled
        BY <1>1, <1>3, <1>4, <2>3 DEF Memory
    <2> QED
        BY <2>1, <2>2, <2>3
<1>6. \A p \in Objects \ {o} : memory'[p] = memory[p]
    BY <1>1, <1>3
<1>7. \A q \in Requests \ {r} : turn'[q] = turn[q]
    BY <1>1, <1>2
<1>8. turn'[r] \in {"prepare", "load"} /\ ~Loads(r)
    BY <1>1, <1>2 DEF Loads
<1> HIDE DEF own
<1> USE DEF RememberedInv
<1>9. ~own.hydrated => own.saved = <<>> /\ known[o] = {}
    BY <1>1 DEF MemoryIsRemembered, own
<1>10. TurnsAreTold'
    BY <1>1, <1>7, <1>8 DEF TurnsAreTold
<1>11. MemoryIsRemembered'
    <2>1. \A p \in Objects \ {o} :
             /\ memory'[p].hydrated => C!Remembers(memory[p].saved, known[p])'
             /\ ~memory'[p].hydrated => memory'[p].saved = <<>>
             /\ ~memory'[p].hydrated /\ ~memory'[p].loading => known'[p] = {}
             /\ memory'[p].pending \in {None, <<>>}
        BY <1>1, <1>6 DEF MemoryIsRemembered, C!Remembers
    <2>2. own.hydrated \/ ~enabled => C!Remembers(own.saved, known[o])
        <3>1. CASE own.hydrated
            BY <1>1, <3>1 DEF MemoryIsRemembered, own
        <3>2. CASE ~own.hydrated
            <4>1. C!Newest(<<>>, told, {})
                BY NewestOfNone DEF TurnsAreTold
            <4>2. Len(<<>>) <= Limit
                BY ContinuationFacts
            <4> QED
                BY <1>9, <3>2, <4>1, <4>2 DEF C!Remembers
        <3> QED
            BY <3>1, <3>2
    <2>3. memory'[o].hydrated => C!Remembers(memory[o].saved, known[o])'
        BY <1>1, <1>5, <2>2 DEF C!Remembers
    <2>4. /\ ~memory'[o].hydrated => memory'[o].saved = <<>>
          /\ ~memory'[o].hydrated /\ ~memory'[o].loading => known'[o] = {}
          /\ memory'[o].pending \in {None, <<>>}
        BY <1>1, <1>5, <1>9 DEF MemoryIsRemembered, own
    <2> QED
        BY <2>1, <2>3, <2>4 DEF MemoryIsRemembered
<1>12. LoadsAreSound'
    <2>1. \A q \in Requests : uses[q] \in Objects
        BY DEF ContinuationInv, ContinuationTypes
    <2>2. \A q \in Requests \ {r} : Loads(q)' <=> Loads(q)
        BY <1>7 DEF Loads
    <2>3. \A q \in Requests : Loads(q) => uses[q] # o
        BY <1>1 DEF LoadsAreSound, own
    <2>4. \A p \in Objects : /\ memory[p].hydrated => memory'[p].hydrated
                             /\ p # o => memory'[p].loading = memory[p].loading
        BY <1>5, <1>6 DEF own
    <2>5. ASSUME NEW q \in Requests \ {r}
          PROVE  /\ turn'[q] \in {"prepare", "answering"} => memory'[uses'[q]].hydrated
                 /\ Loads(q)' => memory'[uses'[q]].loading
                 /\ turn'[q] \in {"load", "waiting"} => known'[uses'[q]] = {}
                 /\ turn'[q] \in {"new", "hydrate", "load", "waiting"} => batch'[q] = <<>>
                 /\ turn'[q] = "install" => C!Newest(batch'[q], told', known'[uses'[q]])
        BY <1>1, <1>7, <2>1, <2>2, <2>3, <2>4, <2>5 DEF LoadsAreSound
    <2>6. /\ turn'[r] \in {"prepare", "answering"} => memory'[uses'[r]].hydrated
          /\ Loads(r)' => memory'[uses'[r]].loading
          /\ turn'[r] \in {"load", "waiting"} => known'[uses'[r]] = {}
          /\ turn'[r] \in {"new", "hydrate", "load", "waiting"} => batch'[r] = <<>>
          /\ turn'[r] # "install"
        BY <1>1, <1>2, <1>5, <1>8, <1>9 DEF LoadsAreSound, Loads
    <2>7. \A q, p \in Requests : Loads(q)' /\ Loads(p)' /\ uses'[q] = uses'[p] => q = p
        BY <1>1, <2>2, <2>3 DEF LoadsAreSound
    <2> QED
        BY <2>5, <2>6, <2>7 DEF LoadsAreSound
<1>13. QueueIsSound'
    BY <1>1, <1>7, QueuedJobs DEF QueueIsSound, IsLoad, WritesTurn, Written
<1>14. RowsAreRemembered' /\ ReplaysAreMarked'
    BY <1>1 DEF RowsAreRemembered, C!Remembers, Written, ReplaysAreMarked
<1> QED
    BY <1>10, <1>11, <1>12, <1>13, <1>14

\* A load is queued, or refused and over with no records.
LEMMA RememberedSubmit ==
    ASSUME ContinuationInv, RememberedInv, NEW r \in Requests, C!SubmitLoad(r)
    PROVE  RememberedInv'
<1> USE DEF RememberedInv
<1>1. /\ turn[r] = "load" /\ turn \in [Requests -> TurnSteps]
      /\ UNCHANGED <<memory, uses, batch, replayed, durable, told, accepted, known>>
    BY DEF C!SubmitLoad, ContinuationInv, ContinuationTypes
<1>2. /\ turn'[r] \in {"install", "waiting"}
      /\ \A q \in Requests \ {r} : turn'[q] = turn[q]
    BY <1>1 DEF C!SubmitLoad
<1>3. TurnsAreTold'
    BY <1>1, <1>2 DEF TurnsAreTold
<1>4. MemoryIsRemembered'
    BY <1>1 DEF MemoryIsRemembered, C!Remembers
<1>5. LoadsAreSound'
    <2>1. \A q \in Requests : Loads(q)' <=> Loads(q)
        BY <1>1, <1>2 DEF Loads
    <2>2. turn'[r] = "install" => C!Newest(batch[r], told, known[uses[r]])
        BY <1>1, NewestOfNone DEF LoadsAreSound, TurnsAreTold
    <2>3. turn'[r] \in {"load", "waiting"} => known[uses[r]] = {} /\ batch[r] = <<>>
        BY <1>1 DEF LoadsAreSound
    <2> QED
        BY <1>1, <1>2, <2>1, <2>2, <2>3 DEF LoadsAreSound
\* The queue is the same but for a load at its end.
<1>6. /\ Len(queue) \in Nat /\ DOMAIN queue = 1..Len(queue)
      /\ DOMAIN queue \subseteq DOMAIN queue'
      /\ \A k \in DOMAIN queue : queue'[k] = queue[k]
      /\ \A k \in DOMAIN queue' \ DOMAIN queue :
            /\ k = Len(queue) + 1 /\ queue'[k].kind = "load" /\ queue'[k].reader = r
            /\ turn'[r] = "waiting"
    <2>1. queue \in Seq(Job)
        BY DEF ContinuationInv, ContinuationTypes
    <2>2. CASE C!Refuses(queue)
        BY <2>1, <2>2 DEF C!SubmitLoad
    <2>3. CASE ~C!Refuses(queue)
        <3>1. queue' = Append(queue, [kind |-> "load", reader |-> r]) /\ turn'[r] = "waiting"
            BY <1>1, <2>3 DEF C!SubmitLoad
        <3> QED
            BY <2>1, <3>1
    <2> QED
        BY <2>2, <2>3
<1>7. \A id : id \in C!Submitted(queue') <=> id \in C!Submitted(queue)
    BY <1>6, SubmittedAre
<1>8. Written' = Written
    BY <1>1, <1>7 DEF Written
<1>9. QueueIsSound'
    <2>1. \A k \in DOMAIN queue : IsLoad(k) => queue[k].reader # r
        BY <1>1 DEF QueueIsSound
    <2>2. \A k \in DOMAIN queue :
             /\ IsLoad(k)' <=> IsLoad(k)
             /\ \A i \in DOMAIN told : WritesTurn(k, i)' <=> WritesTurn(k, i)
        BY <1>1, <1>6 DEF IsLoad, WritesTurn
    <2>3. \A k \in DOMAIN queue' \ DOMAIN queue :
             IsLoad(k)' /\ \A i \in DOMAIN told : ~WritesTurn(k, i)'
        BY <1>6 DEF IsLoad, WritesTurn
    <2>4. \A k \in DOMAIN queue' : IsLoad(k)' => turn'[queue'[k].reader] = "waiting"
        BY <1>2, <1>6, <2>1, <2>2, QueuedJobs DEF QueueIsSound, IsLoad
    <2>5. \A k, n \in DOMAIN queue' :
             IsLoad(k)' /\ IsLoad(n)' /\ queue'[k].reader = queue'[n].reader => k = n
        BY <1>6, <2>1, <2>2 DEF QueueIsSound
    <2>6. \A k \in DOMAIN queue' : queue'[k].kind = "write" =>
             queue'[k].record.id \in accepted' /\ \E i \in DOMAIN told' : WritesTurn(k, i)'
        BY <1>1, <1>6, <2>2 DEF QueueIsSound
    <2>7. \A k, n \in DOMAIN queue', i, j \in DOMAIN told' :
             k < n /\ WritesTurn(k, i)' /\ WritesTurn(n, j)' => i < j
        BY <1>1, <1>6, <2>2, <2>3 DEF QueueIsSound
    <2>8. \A k \in DOMAIN queue', i, j \in DOMAIN told' :
             told'[i].id \in Written' /\ WritesTurn(k, j)' => i < j
        BY <1>1, <1>6, <1>8, <2>2, <2>3 DEF QueueIsSound
    <2> QED
        BY <2>4, <2>5, <2>6, <2>7, <2>8 DEF QueueIsSound
<1>10. RowsAreRemembered' /\ ReplaysAreMarked'
    BY <1>1, <1>8 DEF RowsAreRemembered, C!Remembers, ReplaysAreMarked
<1> QED
    BY <1>3, <1>4, <1>5, <1>9, <1>10

\* What was loaded is remembered; nothing was parked meanwhile.
LEMMA RememberedInstall ==
    ASSUME ContinuationInv, RememberedInv, NEW r \in Requests, C!Install(r)
    PROVE  RememberedInv'
<1> USE DEF RememberedInv
<1> PICK o \in Objects : o = uses[r]
    BY DEF ContinuationInv, ContinuationTypes
<1> DEFINE parked == IF memory[o].pending = None THEN <<>> ELSE memory[o].pending
<1>1. /\ turn[r] = "install" /\ turn' = [turn EXCEPT ![r] = "prepare"]
      /\ memory' = [memory EXCEPT ![o] =
            [saved |-> C!Recent(batch[r] \o parked), hydrated |-> TRUE,
             loading |-> FALSE, pending |-> None]]
      /\ queue' = C!Persisted(queue, parked) /\ accepted' = accepted \cup C!Submitted(queue')
      /\ UNCHANGED <<uses, batch, replayed, durable, told, known>>
    BY DEF C!Install
<1>2. /\ memory \in [Objects -> Memory] /\ turn \in [Requests -> TurnSteps]
      /\ batch[r] \in Seq(Turn) /\ queue \in Seq(Job) /\ uses \in [Requests -> Objects]
    BY DEF ContinuationInv, ContinuationTypes
<1>3. parked = <<>> /\ batch[r] \o parked = batch[r]
    <2>1. parked = <<>>
        BY DEF MemoryIsRemembered
    <2> HIDE DEF parked
    <2> QED
        BY <1>2, <2>1
<1> HIDE DEF parked
<1>4. queue' = queue
    <2> DEFINE room == IF ~enabled \/ broken THEN 0
                       ELSE C!Min({Len(<<>>), QueueSize - Len(queue)})
    <2>1. queue' = queue \o [i \in 1..room |-> C!Write(<<>>[i])]
        BY <1>1, <1>3 DEF C!Persisted
    <2>2. queue \o [i \in 1..room |-> C!Write(<<>>[i])] = queue
        <3>1. room = 0
            <4> DEFINE free == QueueSize - Len(queue)
            <4>1. Len(<<>>) = 0 /\ free \in Nat
                BY ContinuationFacts DEF ContinuationInv, ContinuationTypes
            <4> HIDE DEF free
            <4>2. \E x \in {0, free} : \A y \in {0, free} : x <= y
                BY <4>1
            <4>3. C!Min({0, free}) \in {0, free} /\ C!Min({0, free}) <= 0
                BY <4>2 DEF C!Min
            <4>4. C!Min({0, free}) = 0
                BY <4>1, <4>3
            <4> QED
                BY <4>1, <4>4 DEF free
        <3> HIDE DEF room
        <3>2. [i \in 1..room |-> C!Write(<<>>[i])] = <<>>
            BY <3>1
        <3>3. queue \o <<>> = queue
            BY <1>2
        <3> QED
            BY <3>2, <3>3
    <2> QED
        BY <2>1, <2>2
<1>5. accepted' = accepted
    BY <1>1, <1>4, SubmittedAre DEF QueueIsSound
<1>6. Written' = Written
    BY <1>4, <1>5 DEF Written
<1>7. /\ \A q \in Requests \ {r} : turn'[q] = turn[q]
      /\ turn'[r] = "prepare" /\ ~Loads(r)' /\ Loads(r)
      /\ \A q \in Requests \ {r} : Loads(q)' <=> Loads(q)
    BY <1>1, <1>2 DEF Loads
<1>8. /\ \A p \in Objects \ {o} : memory'[p] = memory[p]
      /\ memory'[o].saved = C!Recent(batch[r]) /\ memory'[o].hydrated
      /\ ~memory'[o].loading /\ memory'[o].pending = None
    BY <1>1, <1>2, <1>3
<1>9. C!Remembers(memory[o].saved, known[o])'
    <2>1. C!Newest(batch[r], told, known[o])
        BY <1>1 DEF LoadsAreSound
    <2>2. told \in Seq(Turn)
        BY DEF TurnsAreTold
    <2>3. Len(C!Recent(batch[r])) <= Limit /\ C!Newest(C!Recent(batch[r]), told, known[o])
        BY <1>2, <2>1, <2>2, RecentIsNewest
    <2> QED
        BY <1>1, <1>8, <2>3 DEF C!Remembers
<1>10. TurnsAreTold'
    BY <1>1, <1>5, <1>7 DEF TurnsAreTold
<1>11. MemoryIsRemembered'
    <2>1. \A p \in Objects \ {o} :
             /\ memory'[p].hydrated => C!Remembers(memory[p].saved, known[p])'
             /\ ~memory'[p].hydrated => memory'[p].saved = <<>>
             /\ ~memory'[p].hydrated /\ ~memory'[p].loading => known'[p] = {}
             /\ memory'[p].pending \in {None, <<>>}
        BY <1>1, <1>8 DEF MemoryIsRemembered, C!Remembers
    <2> QED
        BY <1>8, <1>9, <2>1 DEF MemoryIsRemembered
<1>12. LoadsAreSound'
    <2>1. \A q \in Requests \ {r} : Loads(q) => uses[q] # o
        BY <1>7 DEF LoadsAreSound
    <2>2. \A p \in Objects : memory[p].hydrated => memory'[p].hydrated
        BY <1>8
    <2>3. ASSUME NEW q \in Requests \ {r}
          PROVE  /\ turn'[q] \in {"prepare", "answering"} => memory'[uses'[q]].hydrated
                 /\ Loads(q)' => memory'[uses'[q]].loading
                 /\ turn'[q] \in {"load", "waiting"} => known'[uses'[q]] = {}
                 /\ turn'[q] \in {"new", "hydrate", "load", "waiting"} => batch'[q] = <<>>
                 /\ turn'[q] = "install" => C!Newest(batch'[q], told', known'[uses'[q]])
        BY <1>1, <1>2, <1>7, <1>8, <2>1, <2>2 DEF LoadsAreSound
    <2>4. turn'[r] \in {"prepare", "answering"} => memory'[uses'[r]].hydrated
        BY <1>1, <1>8
    <2>5. \A q, p \in Requests : Loads(q)' /\ Loads(p)' /\ uses'[q] = uses'[p] => q = p
        BY <1>1, <1>7 DEF LoadsAreSound
    <2> QED
        BY <1>7, <2>3, <2>4, <2>5 DEF LoadsAreSound
<1>13. QueueIsSound'
    BY <1>1, <1>4, <1>5, <1>6, <1>7, QueuedJobs DEF QueueIsSound, IsLoad, WritesTurn
<1>14. RowsAreRemembered' /\ ReplaysAreMarked'
    BY <1>1, <1>6 DEF RowsAreRemembered, C!Remembers, ReplaysAreMarked
<1> QED
    BY <1>10, <1>11, <1>12, <1>13, <1>14

\* The first job leaves the queue.
LEMMA QueueShrinks ==
    ASSUME ContinuationInv, queue # <<>>, queue' = Tail(queue)
    PROVE  /\ 1 \in DOMAIN queue /\ Head(queue) = queue[1]
           /\ \A k \in DOMAIN queue' : k + 1 \in DOMAIN queue /\ queue'[k] = queue[k + 1]
           /\ \A k \in DOMAIN queue : k # 1 => k - 1 \in DOMAIN queue' /\ queue'[k - 1] = queue[k]
           /\ \A k \in DOMAIN queue : k \in Nat /\ (k # 1 => k > 1)
           /\ \A k \in DOMAIN queue' : k \in Nat /\ k >= 1
<1>1. queue \in Seq(Job)
    BY DEF ContinuationInv, ContinuationTypes
<1>2. Len(queue) \in Nat /\ Len(queue) > 0 /\ DOMAIN queue = 1..Len(queue)
    BY <1>1
<1>3. /\ DOMAIN queue' = 1..(Len(queue) - 1)
      /\ \A k \in 1..(Len(queue) - 1) : queue'[k] = queue[k + 1]
    BY <1>1, <1>2
<1>4. Head(queue) = queue[1]
    BY <1>1
<1>5. \A k \in DOMAIN queue' : k + 1 \in DOMAIN queue /\ queue'[k] = queue[k + 1]
    BY <1>2, <1>3
<1>6. ASSUME NEW k \in DOMAIN queue, k # 1
      PROVE  k - 1 \in DOMAIN queue' /\ queue'[k - 1] = queue[k]
    <2>1. k - 1 \in 1..(Len(queue) - 1) /\ (k - 1) + 1 = k
        BY <1>2, <1>6
    <2> QED
        BY <1>3, <2>1
<1> QED
    BY <1>2, <1>3, <1>4, <1>5, <1>6

\* The next turn is written: it is the newest of those that are.
LEMMA RememberedWrite ==
    ASSUME ContinuationInv, RememberedInv, C!RunWrite
    PROVE  RememberedInv'
<1> USE DEF RememberedInv
<1>1. /\ queue # <<>> /\ Head(queue).kind = "write" /\ queue' = Tail(queue)
      /\ durable' = C!Recent(Append(durable, Head(queue).record))
      /\ UNCHANGED <<memory, turn, uses, batch, replayed, told, accepted, known>>
    BY DEF C!RunWrite
<1>2. /\ 1 \in DOMAIN queue /\ Head(queue) = queue[1]
      /\ \A k \in DOMAIN queue' : k + 1 \in DOMAIN queue /\ queue'[k] = queue[k + 1]
      /\ \A k \in DOMAIN queue : k # 1 => k - 1 \in DOMAIN queue' /\ queue'[k - 1] = queue[k]
      /\ \A k \in DOMAIN queue : k \in Nat /\ (k # 1 => k > 1)
      /\ \A k \in DOMAIN queue' : k \in Nat /\ k >= 1
    BY <1>1, QueueShrinks
<1>3. PICK p \in DOMAIN told : WritesTurn(1, p)
    BY <1>1, <1>2 DEF QueueIsSound
<1>4. queue[1].kind = "write" /\ queue[1].record = told[p] /\ told[p].id \in accepted
    BY <1>2, <1>3 DEF WritesTurn, QueueIsSound
<1>5. told \in Seq(Turn) /\ told[p] \in Turn /\ DOMAIN told = 1..Len(told) /\ Len(told) \in Nat
    BY DEF TurnsAreTold
<1>6. \A i \in DOMAIN told : told[i].id = told[p].id => i = p
    BY DEF TurnsAreTold
<1>7. \A k \in DOMAIN queue, j \in DOMAIN told : k # 1 /\ WritesTurn(k, j) => p < j
    BY <1>2, <1>3 DEF QueueIsSound
<1>8. \A k \in DOMAIN queue' :
         /\ IsLoad(k)' <=> IsLoad(k + 1)
         /\ \A i \in DOMAIN told : WritesTurn(k, i)' <=> WritesTurn(k + 1, i)
    BY <1>1, <1>2 DEF IsLoad, WritesTurn
<1>9. \A id : id \in C!Submitted(queue') <=> id \in C!Submitted(queue) /\ id # told[p].id
    <2> TAKE id
    <2>1. ASSUME NEW k \in DOMAIN queue, k # 1, queue[k].kind = "write"
          PROVE  queue[k].record.id # told[p].id
        <3>1. PICK i \in DOMAIN told : WritesTurn(k, i)
            BY <2>1 DEF QueueIsSound
        <3>2. p < i
            BY <1>7, <2>1, <3>1
        <3> QED
            BY <1>5, <1>6, <3>1, <3>2 DEF WritesTurn
    <2>2. id \in C!Submitted(queue') <=>
              \E k \in DOMAIN queue' : queue'[k].kind = "write" /\ queue'[k].record.id = id
        BY SubmittedAre
    <2>3. id \in C!Submitted(queue) <=>
              \E k \in DOMAIN queue : queue[k].kind = "write" /\ queue[k].record.id = id
        BY SubmittedAre
    <2>4. ASSUME NEW k \in DOMAIN queue', queue'[k].kind = "write",
                 queue'[k].record.id = id
          PROVE  id \in C!Submitted(queue) /\ id # told[p].id
        <3>1. /\ k + 1 \in DOMAIN queue /\ k + 1 # 1
              /\ queue[k + 1].kind = "write" /\ queue[k + 1].record.id = id
            BY <1>2, <2>4
        <3> QED
            BY <2>1, <2>3, <3>1
    <2>5. ASSUME NEW k \in DOMAIN queue, queue[k].kind = "write",
                 queue[k].record.id = id, id # told[p].id
          PROVE  id \in C!Submitted(queue')
        <3>1. k # 1
            BY <1>4, <2>5
        <3>2. /\ k - 1 \in DOMAIN queue'
              /\ queue'[k - 1].kind = "write" /\ queue'[k - 1].record.id = id
            BY <1>2, <2>5, <3>1
        <3> QED
            BY <2>2, <3>2
    <2> QED
        BY <2>2, <2>3, <2>4, <2>5
<1>10. Written' = Written \cup {told[p].id}
    BY <1>1, <1>4, <1>9 DEF Written
<1>11. \A i \in DOMAIN told : told[i].id \in Written => i < p
    BY <1>2, <1>3 DEF QueueIsSound
<1>12. RowsAreRemembered'
    <2>1. durable \in Seq(Turn)
        BY DEF ContinuationInv, ContinuationTypes
    <2>2. Append(durable, told[p]) \in Seq(Turn)
        BY <1>5, <2>1
    <2>3. C!Newest(durable, told, Written)
        BY DEF RowsAreRemembered, C!Remembers
    <2>4. C!Newest(Append(durable, told[p]), told, Written \cup {told[p].id})
        BY <1>5, <1>6, <1>11, <2>1, <2>3, NewestAppended
    <2>5. durable' = C!Recent(Append(durable, told[p]))
        BY <1>1, <1>2, <1>4
    <2>6. Len(durable') <= Limit /\ C!Newest(durable', told, Written \cup {told[p].id})
        BY <1>5, <2>2, <2>4, <2>5, RecentIsNewest
    <2> QED
        BY <1>1, <1>10, <2>6 DEF RowsAreRemembered, C!Remembers
<1>13. QueueIsSound'
    <2>1. \A k \in DOMAIN queue' : IsLoad(k)' => turn'[queue'[k].reader] = "waiting"
        BY <1>1, <1>2, <1>8 DEF QueueIsSound
    <2>2. ASSUME NEW k \in DOMAIN queue', NEW n \in DOMAIN queue',
                 IsLoad(k)', IsLoad(n)', queue'[k].reader = queue'[n].reader
          PROVE  k = n
        <3>1. k + 1 = n + 1
            BY <1>2, <1>8, <2>2 DEF QueueIsSound
        <3> QED
            BY <1>2, <3>1
    <2>3. \A k \in DOMAIN queue' : queue'[k].kind = "write" =>
             queue'[k].record.id \in accepted' /\ \E i \in DOMAIN told' : WritesTurn(k, i)'
        BY <1>1, <1>2, <1>8 DEF QueueIsSound
    <2>4. ASSUME NEW k \in DOMAIN queue', NEW n \in DOMAIN queue',
                 NEW i \in DOMAIN told, NEW j \in DOMAIN told,
                 k < n, WritesTurn(k, i)', WritesTurn(n, j)'
          PROVE  i < j
        <3>1. k + 1 < n + 1
            BY <1>2, <2>4
        <3> QED
            BY <1>2, <1>8, <2>4, <3>1 DEF QueueIsSound
    <2>5. ASSUME NEW k \in DOMAIN queue', NEW i \in DOMAIN told, NEW j \in DOMAIN told,
                 told[i].id \in Written', WritesTurn(k, j)'
          PROVE  i < j
        <3>1. k + 1 \in DOMAIN queue /\ k + 1 # 1 /\ WritesTurn(k + 1, j)
            BY <1>2, <1>8, <2>5
        <3>2. CASE told[i].id \in Written
            BY <2>5, <3>1, <3>2 DEF QueueIsSound
        <3>3. CASE told[i].id = told[p].id
            BY <1>6, <1>7, <3>1, <3>3
        <3> QED
            BY <1>10, <2>5, <3>2, <3>3
    <2> QED
        BY <1>1, <2>1, <2>2, <2>3, <2>4, <2>5 DEF QueueIsSound
<1>14. TurnsAreTold' /\ MemoryIsRemembered'
    BY <1>1 DEF TurnsAreTold, MemoryIsRemembered, C!Remembers
<1>15. LoadsAreSound'
    BY <1>1 DEF LoadsAreSound, Loads
<1>16. ReplaysAreMarked'
    BY <1>1 DEF ReplaysAreMarked
<1> QED
    BY <1>12, <1>13, <1>14, <1>15, <1>16

\* Another conversation's write removes the rows.
LEMMA RememberedPrune ==
    ASSUME ContinuationInv, RememberedInv, C!PruneSession
    PROVE  RememberedInv'
<1> USE DEF RememberedInv
<1>1. /\ durable' = <<>> /\ accepted' = accepted \cap C!Submitted(queue)
      /\ UNCHANGED <<memory, turn, uses, batch, replayed, queue, told, known>>
    BY DEF C!PruneSession
<1>2. Written' = {}
    BY <1>1 DEF Written
<1>3. RowsAreRemembered'
    <2>1. told \in Seq(Turn)
        BY DEF TurnsAreTold
    <2>2. C!Newest(<<>>, told, {}) /\ Len(<<>>) <= Limit
        BY <2>1, NewestOfNone, ContinuationFacts
    <2> QED
        BY <1>1, <1>2, <2>2 DEF RowsAreRemembered, C!Remembers
<1>4. QueueIsSound'
    <2>1. \A k \in DOMAIN queue : queue[k].kind = "write" => queue[k].record.id \in accepted'
        BY <1>1, SubmittedAre DEF QueueIsSound
    <2> QED
        BY <1>1, <1>2, <2>1 DEF QueueIsSound, IsLoad, WritesTurn
<1>5. TurnsAreTold' /\ MemoryIsRemembered'
    BY <1>1 DEF TurnsAreTold, MemoryIsRemembered, C!Remembers
<1>6. LoadsAreSound'
    BY <1>1 DEF LoadsAreSound, Loads
<1>7. ReplaysAreMarked'
    BY <1>1 DEF ReplaysAreMarked
<1> QED
    BY <1>3, <1>4, <1>5, <1>6, <1>7

\* The writer fails: loads are answered with nothing, and what waited to be
\* written never is.
LEMMA RememberedFails ==
    ASSUME ContinuationInv, RememberedInv, C!RunFails
    PROVE  RememberedInv'
<1> USE DEF RememberedInv
<1> DEFINE readers == {job.reader : job \in {j \in C!ToSet(queue) : j.kind = "load"}}
<1>1. /\ turn' = [r \in Requests |-> IF r \in readers THEN "install" ELSE turn[r]]
      /\ accepted' = accepted \ C!Submitted(queue) /\ queue' = <<>>
      /\ UNCHANGED <<memory, uses, batch, replayed, durable, told, known>>
    BY DEF C!RunFails
<1>2. \A r \in readers : turn[r] = "waiting"
    BY DEF C!ToSet, QueueIsSound, IsLoad
<1> HIDE DEF readers
<1>3. \A r \in Requests : /\ turn'[r] = turn[r] \/ (turn[r] = "waiting" /\ turn'[r] = "install")
                          /\ Loads(r)' <=> Loads(r)
    BY <1>1, <1>2 DEF Loads
<1>4. Written' = Written
    BY <1>1, SubmittedAre DEF Written
<1>5. TurnsAreTold'
    BY <1>1, <1>3 DEF TurnsAreTold
<1>6. MemoryIsRemembered' /\ ReplaysAreMarked'
    BY <1>1 DEF MemoryIsRemembered, C!Remembers, ReplaysAreMarked
<1>7. LoadsAreSound'
    <2>1. \A r \in Requests : turn[r] = "waiting" => C!Newest(batch[r], told, known[uses[r]])
        BY NewestOfNone DEF LoadsAreSound, TurnsAreTold
    <2> QED
        BY <1>1, <1>3, <2>1 DEF LoadsAreSound
<1>8. QueueIsSound'
    BY <1>1 DEF QueueIsSound
<1>9. RowsAreRemembered'
    BY <1>1, <1>4 DEF RowsAreRemembered, C!Remembers
<1> QED
    BY <1>5, <1>6, <1>7, <1>8, <1>9

\* A load is answered with the newest rows: with them its object is given the
\* turns that are written.
LEMMA RememberedLoad ==
    ASSUME ContinuationInv, RememberedInv, C!RunLoad
    PROVE  RememberedInv'
<1> USE DEF RememberedInv
<1>1. PICK r \in Requests : r = Head(queue).reader /\ turn[r] = "waiting"
    <2>1. queue # <<>> /\ Head(queue).kind = "load"
        BY DEF C!RunLoad
    <2>2. 1 \in DOMAIN queue /\ Head(queue) = queue[1]
        BY <2>1, QueueShrinks DEF C!RunLoad
    <2>3. IsLoad(1) /\ Head(queue).reader \in Requests
        BY <2>1, <2>2, QueuedJobs DEF IsLoad
    <2> QED
        BY <2>2, <2>3 DEF QueueIsSound
<1> PICK o \in Objects : o = uses[r]
    BY DEF ContinuationInv, ContinuationTypes
<1>2. /\ queue # <<>> /\ Head(queue).kind = "load" /\ queue' = Tail(queue)
      /\ batch' = [batch EXCEPT ![r] = C!Recent(durable)]
      /\ known' = [known EXCEPT ![o] = @ \cup Written]
      /\ turn' = [turn EXCEPT ![r] = "install"]
      /\ UNCHANGED <<memory, uses, replayed, durable, told, accepted>>
    BY <1>1 DEF C!RunLoad, Written
<1>3. /\ turn \in [Requests -> TurnSteps] /\ batch \in [Requests -> Seq(Turn)]
      /\ uses \in [Requests -> Objects] /\ durable \in Seq(Turn)
    BY DEF ContinuationInv, ContinuationTypes
<1>4. /\ told \in Seq(Turn) /\ known \in [Objects -> SUBSET Id] /\ accepted \subseteq Id
    BY DEF TurnsAreTold
<1>5. /\ 1 \in DOMAIN queue /\ Head(queue) = queue[1]
      /\ \A k \in DOMAIN queue' : k + 1 \in DOMAIN queue /\ queue'[k] = queue[k + 1]
      /\ \A k \in DOMAIN queue : k # 1 => k - 1 \in DOMAIN queue' /\ queue'[k - 1] = queue[k]
      /\ \A k \in DOMAIN queue : k \in Nat /\ (k # 1 => k > 1)
      /\ \A k \in DOMAIN queue' : k \in Nat /\ k >= 1
    BY <1>2, QueueShrinks
<1>6. /\ \A q \in Requests \ {r} : turn'[q] = turn[q] /\ batch'[q] = batch[q]
      /\ turn'[r] = "install" /\ batch'[r] = C!Recent(durable)
      /\ \A q \in Requests : Loads(q)' <=> Loads(q)
    BY <1>1, <1>2, <1>3 DEF Loads
<1>7. /\ known'[o] = Written /\ \A p \in Objects \ {o} : known'[p] = known[p]
    <2>1. known[o] = {}
        BY <1>1 DEF LoadsAreSound
    <2> QED
        BY <1>2, <1>4, <2>1
<1>8. memory[o].loading /\ ~memory[o].hydrated /\ Loads(r)
    BY <1>1 DEF LoadsAreSound, Loads, ContinuationInv, MemoryIsSound
<1>9. \A k \in DOMAIN queue' :
         /\ IsLoad(k)' <=> IsLoad(k + 1)
         /\ \A i \in DOMAIN told : WritesTurn(k, i)' <=> WritesTurn(k + 1, i)
    BY <1>2, <1>5 DEF IsLoad, WritesTurn
<1>10. \A id : id \in C!Submitted(queue') <=> id \in C!Submitted(queue)
    <2> TAKE id
    <2>1. id \in C!Submitted(queue') <=>
              \E k \in DOMAIN queue' : queue'[k].kind = "write" /\ queue'[k].record.id = id
        BY SubmittedAre
    <2>2. id \in C!Submitted(queue) <=>
              \E k \in DOMAIN queue : queue[k].kind = "write" /\ queue[k].record.id = id
        BY SubmittedAre
    <2>3. ASSUME NEW k \in DOMAIN queue, queue[k].kind = "write",
                 queue[k].record.id = id
          PROVE  id \in C!Submitted(queue')
        <3>1. k # 1
            BY <1>2, <1>5, <2>3
        <3>2. /\ k - 1 \in DOMAIN queue'
              /\ queue'[k - 1].kind = "write" /\ queue'[k - 1].record.id = id
            BY <1>5, <2>3, <3>1
        <3> QED
            BY <2>1, <3>2
    <2> QED
        BY <1>5, <2>1, <2>2, <2>3
<1>11. Written' = Written
    BY <1>2, <1>10 DEF Written
<1>12. TurnsAreTold'
    <2>1. known' \in [Objects -> SUBSET Id]
        BY <1>2, <1>4 DEF Written
    <2>2. \A q \in Requests : turn'[q] # "done" => \A p \in Objects : q \notin known'[p]
        BY <1>1, <1>6, <1>7 DEF TurnsAreTold, Written
    <2> QED
        BY <1>1, <1>2, <1>6, <2>1, <2>2 DEF TurnsAreTold
<1>13. MemoryIsRemembered'
    BY <1>2, <1>7, <1>8 DEF MemoryIsRemembered, C!Remembers
<1>14. LoadsAreSound'
    <2>1. \A q \in Requests \ {r} : Loads(q) => uses[q] # o
        BY <1>8 DEF LoadsAreSound
    <2>2. C!Newest(batch'[r], told, Written)
        <3>1. C!Newest(durable, told, Written)
            BY DEF RowsAreRemembered, C!Remembers
        <3> QED
            BY <1>3, <1>4, <1>6, <3>1, RecentIsNewest
    <2>3. ASSUME NEW q \in Requests \ {r}
          PROVE  /\ turn'[q] \in {"prepare", "answering"} => memory'[uses'[q]].hydrated
                 /\ Loads(q)' => memory'[uses'[q]].loading
                 /\ turn'[q] \in {"load", "waiting"} => known'[uses'[q]] = {}
                 /\ turn'[q] \in {"new", "hydrate", "load", "waiting"} => batch'[q] = <<>>
                 /\ turn'[q] = "install" => C!Newest(batch'[q], told', known'[uses'[q]])
        <3>1. Loads(q) => known'[uses[q]] = known[uses[q]]
            BY <1>3, <1>7, <2>1
        <3> QED
            BY <1>2, <1>6, <3>1 DEF LoadsAreSound, Loads
    <2>4. \A q, p \in Requests : Loads(q)' /\ Loads(p)' /\ uses'[q] = uses'[p] => q = p
        BY <1>2, <1>6 DEF LoadsAreSound
    <2>5. /\ turn'[r] = "install" /\ memory'[uses'[r]].loading
          /\ C!Newest(batch'[r], told', known'[uses'[r]])
        BY <1>2, <1>6, <1>7, <1>8, <2>2
    <2> QED
        BY <2>3, <2>4, <2>5 DEF LoadsAreSound
<1>15. QueueIsSound'
    <2>1. ASSUME NEW k \in DOMAIN queue', IsLoad(k)'
          PROVE  turn'[queue'[k].reader] = "waiting"
        <3>1. IsLoad(k + 1) /\ k + 1 # 1 /\ k + 1 \in DOMAIN queue
            BY <1>5, <1>9, <2>1
        <3>2. queue[k + 1].reader # r /\ queue[k + 1].reader \in Requests
            BY <1>1, <1>2, <1>5, <3>1, QueuedJobs DEF QueueIsSound, IsLoad
        <3> QED
            BY <1>5, <1>6, <2>1, <3>1, <3>2 DEF QueueIsSound
    <2>2. ASSUME NEW k \in DOMAIN queue', NEW n \in DOMAIN queue',
                 IsLoad(k)', IsLoad(n)', queue'[k].reader = queue'[n].reader
          PROVE  k = n
        <3>1. k + 1 = n + 1
            BY <1>5, <1>9, <2>2 DEF QueueIsSound
        <3> QED
            BY <1>5, <3>1
    <2>3. \A k \in DOMAIN queue' : queue'[k].kind = "write" =>
             queue'[k].record.id \in accepted' /\ \E i \in DOMAIN told' : WritesTurn(k, i)'
        BY <1>2, <1>5, <1>9 DEF QueueIsSound
    <2>4. ASSUME NEW k \in DOMAIN queue', NEW n \in DOMAIN queue',
                 NEW i \in DOMAIN told, NEW j \in DOMAIN told,
                 k < n, WritesTurn(k, i)', WritesTurn(n, j)'
          PROVE  i < j
        <3>1. k + 1 < n + 1
            BY <1>5, <2>4
        <3> QED
            BY <1>5, <1>9, <2>4, <3>1 DEF QueueIsSound
    <2>5. \A k \in DOMAIN queue', i, j \in DOMAIN told :
             told[i].id \in Written' /\ WritesTurn(k, j)' => i < j
        BY <1>5, <1>9, <1>11 DEF QueueIsSound
    <2> QED
        BY <1>2, <2>1, <2>2, <2>3, <2>4, <2>5 DEF QueueIsSound
<1>16. RowsAreRemembered' /\ ReplaysAreMarked'
    BY <1>2, <1>11 DEF RowsAreRemembered, C!Remembers, ReplaysAreMarked
<1> QED
    BY <1>12, <1>13, <1>14, <1>15, <1>16

\* Persisting one record queues it at the end, or does nothing.
LEMMA PersistedOne ==
    ASSUME ContinuationInv, NEW x \in Turn
    PROVE  \/ C!Persisted(queue, <<x>>) = queue
           \/ C!Persisted(queue, <<x>>) = Append(queue, C!Write(x))
<1> DEFINE free == QueueSize - Len(queue)
           room == IF ~enabled \/ broken THEN 0 ELSE C!Min({Len(<<x>>), free})
           writes == [i \in 1..room |-> C!Write(<<x>>[i])]
<1>1. queue \in Seq(Job) /\ free \in Nat /\ Len(<<x>>) = 1
    BY ContinuationFacts DEF ContinuationInv, ContinuationTypes
<1>2. C!Persisted(queue, <<x>>) = queue \o writes
    BY DEF C!Persisted
<1> HIDE DEF free
<1>3. room = 0 \/ room = 1
    <2>1. \E m \in {1, free} : \A n \in {1, free} : m <= n
        BY <1>1
    <2>2. C!Min({1, free}) \in {1, free} /\ C!Min({1, free}) <= 1
        BY <2>1 DEF C!Min
    <2> QED
        BY <1>1, <2>2
<1> HIDE DEF room
<1>4. CASE room = 0
    <2>1. writes = <<>>
        BY <1>4
    <2>2. queue \o <<>> = queue
        BY <1>1
    <2> QED
        BY <1>2, <2>1, <2>2
<1>5. CASE room = 1
    <2>1. writes = <<C!Write(x)>>
        BY <1>5
    <2>2. C!Write(x) \in Job
        BY DEF Job
    <2> HIDE DEF writes
    <2>3. \A job \in Job : queue \o <<job>> = Append(queue, job)
        BY <1>1
    <2> QED
        BY <1>2, <2>1, <2>2, <2>3
<1> QED
    BY <1>3, <1>4, <1>5

\* A turn is told: its object, which is hydrated, remembers it as the newest, and
\* it is the last to be written, if it is.
LEMMA RememberedSave ==
    ASSUME ContinuationInv, RememberedInv, NEW r \in Requests, NEW content \in Contents,
           C!Save(r, content)
    PROVE  RememberedInv'
<1> USE DEF RememberedInv
<1> PICK o \in Objects : o = uses[r]
    BY DEF ContinuationInv, ContinuationTypes
<1>1. PICK x \in Turn : x = C!Captured(r, content)
    BY DEF Turn
<1> DEFINE saved == memory[o].saved
           last == Len(told) + 1
<1>2. x.id = r /\ r \in Id
    BY <1>1 DEF C!Captured, Id
<1>3. /\ turn[r] = "answering" /\ memory[o].hydrated /\ ~memory[o].loading
      /\ memory \in [Objects -> Memory] /\ turn \in [Requests -> TurnSteps]
      /\ uses \in [Requests -> Objects] /\ batch \in [Requests -> Seq(Turn)]
      /\ durable \in Seq(Turn) /\ queue \in Seq(Job)
    BY DEF C!Save, LoadsAreSound, ContinuationInv, ContinuationTypes, MemoryIsSound
<1>4. /\ memory' = [memory EXCEPT ![o] =
            [memory[o] EXCEPT !.saved = C!Recent(Append(@, x))]]
      /\ queue' = C!Persisted(queue, <<x>>)
      /\ accepted' = accepted \cup C!Submitted(queue')
      /\ told' = Append(told, x)
      /\ known' = [known EXCEPT ![o] = @ \cup {r}]
      /\ turn' = [turn EXCEPT ![r] = "done"]
      /\ UNCHANGED <<uses, batch, replayed, durable>>
    BY <1>1, <1>3 DEF C!Save
<1>5. /\ told \in Seq(Turn) /\ Len(told) \in Nat /\ DOMAIN told = 1..Len(told)
      /\ known \in [Objects -> SUBSET Id] /\ accepted \subseteq Id
    BY DEF TurnsAreTold
<1>6. /\ told' \in Seq(Turn) /\ DOMAIN told' = 1..last /\ told'[last] = x
      /\ \A i \in DOMAIN told : told'[i] = told[i] /\ i \in DOMAIN told' /\ i < last
      /\ \A i \in DOMAIN told' : i \in DOMAIN told \/ i = last
      /\ last \in DOMAIN told'
    BY <1>4, <1>5
<1>7. /\ \A i \in DOMAIN told : told[i].id # r
      /\ r \notin accepted /\ \A p \in Objects : r \notin known[p]
    BY <1>3 DEF TurnsAreTold
<1>8. /\ \A i, j \in DOMAIN told' : told'[i].id = told'[j].id => i = j
      /\ \A i \in DOMAIN told' : told'[i].id = r <=> i = last
    BY <1>2, <1>6, <1>7 DEF TurnsAreTold
<1>9. /\ \A q \in Requests \ {r} : turn'[q] = turn[q] /\ (Loads(q)' <=> Loads(q))
      /\ turn'[r] = "done" /\ ~Loads(r) /\ ~Loads(r)'
    BY <1>3, <1>4 DEF Loads
<1>10. /\ known'[o] = known[o] \cup {r} /\ \A p \in Objects \ {o} : known'[p] = known[p]
       /\ known' \in [Objects -> SUBSET Id]
    BY <1>2, <1>4, <1>5
<1>11. /\ \A p \in Objects \ {o} : memory'[p] = memory[p]
       /\ memory'[o].saved = C!Recent(Append(saved, x))
       /\ memory'[o].hydrated = memory[o].hydrated
       /\ memory'[o].loading = memory[o].loading
       /\ memory'[o].pending = memory[o].pending
    BY <1>3, <1>4 DEF Memory
<1>12. saved \in Seq(Turn)
    BY <1>3 DEF Memory
<1> HIDE DEF saved, last
<1>13. /\ Len(queue) \in Nat /\ DOMAIN queue = 1..Len(queue)
       /\ \A k \in DOMAIN queue : k \in DOMAIN queue' /\ queue'[k] = queue[k] /\ k <= Len(queue)
       /\ \A k \in DOMAIN queue' : k \notin DOMAIN queue =>
             k = Len(queue) + 1 /\ queue'[k].kind = "write" /\ queue'[k].record = x
    <2>1. CASE queue' = queue
        BY <1>3, <2>1
    <2>2. CASE queue' = Append(queue, C!Write(x))
        <3>1. C!Write(x).kind = "write" /\ C!Write(x).record = x
            BY DEF C!Write
        <3>2. ASSUME NEW job, queue' = Append(queue, job)
              PROVE  /\ Len(queue) \in Nat /\ DOMAIN queue = 1..Len(queue)
                     /\ \A k \in DOMAIN queue :
                           k \in DOMAIN queue' /\ queue'[k] = queue[k] /\ k <= Len(queue)
                     /\ \A k \in DOMAIN queue' : k \notin DOMAIN queue =>
                           k = Len(queue) + 1 /\ queue'[k] = job
            BY <1>3, <3>2
        <3> QED
            BY <2>2, <3>1, <3>2
    <2> QED
        BY <1>4, <2>1, <2>2, PersistedOne
<1>14. \A id : id # r => (id \in C!Submitted(queue') <=> id \in C!Submitted(queue))
    BY <1>2, <1>13, SubmittedAre
<1>15. r \notin C!Submitted(queue)
    BY <1>7, SubmittedAre DEF QueueIsSound
<1>16. \A id \in C!Submitted(queue) : id \in accepted
    BY SubmittedAre DEF QueueIsSound
<1>17. Written' = Written /\ r \notin Written /\ \A id \in accepted : id \in accepted'
    BY <1>4, <1>7, <1>14, <1>15, <1>16 DEF Written
<1>18. \A id \in accepted' : id \in accepted \/ id = r
    BY <1>4, <1>14, <1>16
<1>19. \A records \in Seq(Turn) : \A ids :
          C!Newest(records, told, ids) /\ r \notin ids => C!Newest(records, told', ids)
    BY <1>2, <1>4, <1>5, NewestOfMore
<1>20. TurnsAreTold'
    BY <1>2, <1>5, <1>6, <1>7, <1>8, <1>9, <1>10, <1>18 DEF TurnsAreTold
<1>21. C!Remembers(memory[o].saved, known[o])'
    <2>1. C!Newest(saved, told, known[o])
        BY <1>3 DEF MemoryIsRemembered, C!Remembers, saved
    <2>2. C!Newest(saved, told', known[o])
        BY <1>7, <1>12, <1>19, <2>1
    <2>3. \A i \in DOMAIN told' : told'[i].id \in known[o] => i < last
        BY <1>2, <1>6, <1>7
    <2>4. C!Newest(Append(saved, told'[last]), told', known[o] \cup {told'[last].id})
        BY <1>6, <1>8, <1>12, <2>2, <2>3, NewestAppended
    <2>5. C!Newest(Append(saved, x), told', known'[o]) /\ Append(saved, x) \in Seq(Turn)
        <3>1. Append(saved, x) \in Seq(Turn)
            BY <1>12
        <3>2. known'[o] = known[o] \cup {told'[last].id} /\ told'[last] = x
            BY <1>2, <1>6, <1>10
        <3> QED
            BY <2>4, <3>1, <3>2
    <2>6. /\ Len(memory'[o].saved) <= Limit
          /\ C!Newest(memory'[o].saved, told', known'[o])
        BY <1>6, <1>11, <2>5, RecentIsNewest
    <2> QED
        BY <2>6 DEF C!Remembers
<1>22. MemoryIsRemembered'
    <2>1. ASSUME NEW p \in Objects \ {o}
          PROVE  /\ memory'[p].hydrated => C!Remembers(memory[p].saved, known[p])'
                 /\ ~memory'[p].hydrated => memory'[p].saved = <<>>
                 /\ ~memory'[p].hydrated /\ ~memory'[p].loading => known'[p] = {}
                 /\ memory'[p].pending \in {None, <<>>}
        <3>1. memory[p].saved \in Seq(Turn)
            BY <1>3 DEF Memory
        <3>2. memory[p].hydrated => C!Newest(memory[p].saved, told', known[p])
            BY <1>7, <1>19, <3>1 DEF MemoryIsRemembered, C!Remembers
        <3> QED
            BY <1>10, <1>11, <3>2 DEF MemoryIsRemembered, C!Remembers
    <2> QED
        BY <1>3, <1>11, <1>21, <2>1 DEF MemoryIsRemembered
<1>23. LoadsAreSound'
    <2>1. \A q \in Requests : Loads(q) => uses[q] # o
        BY <1>3 DEF LoadsAreSound
    <2>2. \A p \in Objects : /\ memory'[p].hydrated = memory[p].hydrated
                             /\ memory'[p].loading = memory[p].loading
        BY <1>11
    <2>3. ASSUME NEW q \in Requests \ {r}
          PROVE  /\ turn'[q] \in {"prepare", "answering"} => memory'[uses'[q]].hydrated
                 /\ Loads(q)' => memory'[uses'[q]].loading
                 /\ turn'[q] \in {"load", "waiting"} => known'[uses'[q]] = {}
                 /\ turn'[q] \in {"new", "hydrate", "load", "waiting"} => batch'[q] = <<>>
                 /\ turn'[q] = "install" => C!Newest(batch'[q], told', known'[uses'[q]])
        <3>1. Loads(q) => known'[uses[q]] = known[uses[q]]
            BY <1>3, <1>10, <2>1
        <3>2. /\ turn[q] = "install" => Loads(q) /\ C!Newest(batch[q], told, known[uses[q]])
              /\ turn[q] \in {"load", "waiting"} => Loads(q)
            BY DEF LoadsAreSound, Loads
        <3>3. turn[q] = "install" => C!Newest(batch[q], told', known[uses[q]])
            BY <1>3, <1>7, <1>19, <3>2
        <3> QED
            BY <1>3, <1>4, <1>9, <2>2, <3>1, <3>2, <3>3 DEF LoadsAreSound
    <2>4. \A q, p \in Requests : Loads(q)' /\ Loads(p)' /\ uses'[q] = uses'[p] => q = p
        BY <1>4, <1>9 DEF LoadsAreSound
    <2> QED
        BY <1>9, <2>3, <2>4 DEF LoadsAreSound
<1>24. QueueIsSound'
    <2>1. \A k \in DOMAIN queue : IsLoad(k)' <=> IsLoad(k)
        BY <1>13 DEF IsLoad
    <2>2. \A k \in DOMAIN queue' : k \notin DOMAIN queue => ~IsLoad(k)'
        BY <1>13 DEF IsLoad
    <2>3. \A k \in DOMAIN queue, i \in DOMAIN told' :
             WritesTurn(k, i)' <=> i \in DOMAIN told /\ WritesTurn(k, i)
        <3> TAKE k \in DOMAIN queue, i \in DOMAIN told'
        <3>1. queue[k].kind = "write" => queue[k].record.id # r
            BY <1>7 DEF QueueIsSound
        <3>2. CASE i \in DOMAIN told
            BY <1>6, <1>13, <3>2 DEF WritesTurn
        <3>3. CASE i \notin DOMAIN told
            BY <1>2, <1>6, <1>13, <3>1, <3>3 DEF WritesTurn
        <3> QED
            BY <3>2, <3>3
    <2>4. \A k \in DOMAIN queue', i \in DOMAIN told' :
             k \notin DOMAIN queue => (WritesTurn(k, i)' <=> i = last)
        BY <1>2, <1>6, <1>8, <1>13 DEF WritesTurn
    <2>5. \A k \in DOMAIN queue' : IsLoad(k)' => turn'[queue'[k].reader] = "waiting"
        <3>1. \A k \in DOMAIN queue : IsLoad(k) =>
                 queue[k].reader # r /\ queue[k].reader \in Requests
            BY <1>3, QueuedJobs DEF QueueIsSound, IsLoad
        <3> QED
            BY <1>9, <1>13, <2>1, <2>2, <3>1 DEF QueueIsSound
    <2>6. \A k, n \in DOMAIN queue' :
             IsLoad(k)' /\ IsLoad(n)' /\ queue'[k].reader = queue'[n].reader => k = n
        BY <1>13, <2>1, <2>2 DEF QueueIsSound
    <2>7. \A k \in DOMAIN queue' : queue'[k].kind = "write" =>
             queue'[k].record.id \in accepted' /\ \E i \in DOMAIN told' : WritesTurn(k, i)'
        <3> TAKE k \in DOMAIN queue'
        <3>1. CASE k \in DOMAIN queue
            BY <1>6, <1>13, <1>17, <2>3, <3>1 DEF QueueIsSound
        <3>2. CASE k \notin DOMAIN queue
            <4>1. queue'[k].kind = "write" /\ queue'[k].record.id = r
                BY <1>2, <1>13, <3>2
            <4>2. r \in accepted'
                BY <1>4, <4>1, SubmittedAre
            <4> QED
                BY <1>6, <2>4, <3>2, <4>1, <4>2
        <3> QED
            BY <3>1, <3>2
    <2>8. ASSUME NEW k \in DOMAIN queue', NEW n \in DOMAIN queue',
                 NEW i \in DOMAIN told', NEW j \in DOMAIN told',
                 k < n, WritesTurn(k, i)', WritesTurn(n, j)'
          PROVE  i < j
        <3>1. k \in DOMAIN queue
            BY <1>13, <2>8
        <3>2. i \in DOMAIN told /\ WritesTurn(k, i)
            BY <2>3, <2>8, <3>1
        <3>3. CASE n \in DOMAIN queue
            BY <2>3, <2>8, <3>1, <3>2, <3>3 DEF QueueIsSound
        <3>4. CASE n \notin DOMAIN queue
            BY <1>6, <2>4, <2>8, <3>2, <3>4
        <3> QED
            BY <3>3, <3>4
    <2>9. ASSUME NEW k \in DOMAIN queue', NEW i \in DOMAIN told', NEW j \in DOMAIN told',
                 told'[i].id \in Written', WritesTurn(k, j)'
          PROVE  i < j
        <3>1. i \in DOMAIN told /\ told[i].id \in Written
            BY <1>6, <1>8, <1>17, <2>9
        <3>2. CASE k \in DOMAIN queue
            BY <2>3, <2>9, <3>1, <3>2 DEF QueueIsSound
        <3>3. CASE k \notin DOMAIN queue
            BY <1>6, <2>4, <2>9, <3>1, <3>3
        <3> QED
            BY <3>2, <3>3
    <2> QED
        BY <2>5, <2>6, <2>7, <2>8, <2>9 DEF QueueIsSound
<1>25. RowsAreRemembered'
    <2>1. C!Newest(durable, told', Written)
        BY <1>3, <1>17, <1>19 DEF RowsAreRemembered, C!Remembers
    <2> QED
        BY <1>4, <1>17, <2>1 DEF RowsAreRemembered, C!Remembers
<1>26. ReplaysAreMarked'
    BY <1>4 DEF ReplaysAreMarked
<1> QED
    BY <1>20, <1>22, <1>23, <1>24, <1>25, <1>26

\* Nothing is told but the rows of an earlier process.
LEMMA RememberedInit ==
    ASSUME C!Init
    PROVE  RememberedInv
<1>1. /\ memory = [o \in Objects |-> C!Fresh] /\ turn = [r \in Requests |-> "new"]
      /\ batch = [r \in Requests |-> <<>>] /\ replayed = [r \in Requests |-> None]
      /\ queue = <<>> /\ durable = Earlier /\ told = Earlier
      /\ accepted = C!Ids(Earlier) /\ known = [o \in Objects |-> {}]
    BY DEF C!Init
<1>2. Earlier \in Seq(Turn) /\ Len(Earlier) <= Limit
    BY ContinuationFacts
<1>3. /\ \A i, j \in DOMAIN Earlier : Earlier[i].id = Earlier[j].id => i = j
      /\ \A i \in DOMAIN Earlier : Earlier[i].id \notin Requests
    BY ContinuationAssumption
<1>4. \A id : id \in C!Ids(Earlier) <=> \E i \in DOMAIN Earlier : Earlier[i].id = id
    BY DEF C!Ids, C!ToSet
<1>5. \A i \in DOMAIN Earlier : Earlier[i] \in Turn /\ Earlier[i].id \in Id
    BY <1>2 DEF Id, Turn
<1>6. TurnsAreTold
    BY <1>1, <1>2, <1>3, <1>4, <1>5 DEF TurnsAreTold
<1>7. MemoryIsRemembered
    BY <1>1 DEF MemoryIsRemembered, C!Fresh
<1>8. LoadsAreSound
    BY <1>1 DEF LoadsAreSound, Loads
<1>9. QueueIsSound
    BY <1>1 DEF QueueIsSound
<1>10. RowsAreRemembered
    <2>1. Written = C!Ids(Earlier)
        BY <1>1, SubmittedAre DEF Written
    <2>2. C!Newest(Earlier, Earlier, C!Ids(Earlier))
        BY <1>2, <1>4, NewestOfAll
    <2> QED
        BY <1>1, <1>2, <2>1, <2>2 DEF RowsAreRemembered, C!Remembers
<1>11. ReplaysAreMarked
    BY <1>1 DEF ReplaysAreMarked
<1> QED
    BY <1>6, <1>7, <1>8, <1>9, <1>10, <1>11 DEF RememberedInv

\* A step of the conversation.
LEMMA RememberedStep ==
    ASSUME ContinuationInv, RememberedInv, C!Next \/ UNCHANGED continuationVars
    PROVE  RememberedInv'
<1>1. CASE UNCHANGED continuationVars
    BY <1>1, RememberedIdle DEF continuationVars
<1>2. CASE C!Next
    <2>1. CASE C!Recreate
        BY <2>1, RememberedIdle DEF C!Recreate
    <2>2. CASE \E r \in Requests : C!Begin(r) \/ C!Hydrate(r) \/ C!SubmitLoad(r)
        BY <2>2, RememberedBegin, RememberedHydrate, RememberedSubmit
    <2>3. CASE \E r \in Requests : C!Install(r) \/ C!Abandon(r)
        BY <2>3, RememberedInstall, RememberedAbandon
    <2>4. CASE \E r \in Requests : \E messages \in Histories : C!Prepare(r, messages)
        BY <2>4, RememberedPrepare
    <2>5. CASE \E r \in Requests : \E content \in Contents : C!Save(r, content)
        BY <2>5, RememberedSave
    <2>6. CASE C!RunWrite \/ C!RunLoad \/ C!RunFails \/ C!PruneSession
        BY <2>6, RememberedWrite, RememberedLoad, RememberedFails, RememberedPrune
    <2> QED
        BY <1>2, <2>1, <2>2, <2>3, <2>4, <2>5, <2>6 DEF C!Next
<1> QED
    BY <1>1, <1>2

-----------------------------------------------------------------------------
\* Whatever requests of a conversation do at the same time, whenever the store
\* drops the session, and however full or broken the recorder is: an adapter that
\* is hydrated remembers the newest turns of those its object was given, each
\* once and in the order they were saved, and the rows on disk are the newest of
\* those that were written; no request reads or saves through an object that is
\* not hydrated; and every message of a replayed history is given the mark of the
\* record it repeats, the newest messages those of the newest records.
THEOREM TurnsAreRemembered == Spec => []RemembersTurns
<1> DEFINE Inv == part = "continuations" => RememberedInv
<1>1. Init => Inv
    BY RememberedInit DEF Init
<1>2. PartInv /\ Inv /\ [Next \/ Done]_vars => Inv'
    BY PartStep, RememberedStep DEF PartInv
<1>3. Inv => RemembersTurns
    BY DEF RemembersTurns, C!RemembersTurns, RememberedInv, MemoryIsRemembered,
           LoadsAreSound, RowsAreRemembered, ReplaysAreMarked, Written
<1> HIDE DEF Inv
<1> QED
    BY <1>1, <1>2, <1>3, PartsAreSound, PTL DEF Spec

=============================================================================
