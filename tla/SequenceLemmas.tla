--------------------------- MODULE SequenceLemmas ---------------------------
(***************************************************************************)
(* What RemoveAt of SequencesExt returns, for the proofs about requests    *)
(* and trace loads in flight.                                              *)
(***************************************************************************)
EXTENDS Integers, Sequences, SequencesExt, TLAPS

\* A sequence without its i-th element is a sequence of the same elements, one
\* shorter, and the later ones move down (the requests and loads in flight).
LEMMA RemoveAtProperties ==
    ASSUME NEW S, NEW s \in Seq(S), NEW i \in 1..Len(s)
    PROVE  /\ RemoveAt(s, i) \in Seq(S)
           /\ Len(RemoveAt(s, i)) = Len(s) - 1
           /\ \A j \in 1..(Len(s) - 1) :
                RemoveAt(s, i)[j] = IF j < i THEN s[j] ELSE s[j + 1]
  <1> DEFINE before == SubSeq(s, 1, i - 1)
             after == SubSeq(s, i + 1, Len(s))
  <1>5. RemoveAt(s, i) = before \o after
    BY DEF RemoveAt
  <1>1. /\ before \in Seq(S) /\ Len(before) = i - 1
        /\ \A j \in 1..(i - 1) : before[j] = s[j]
    OBVIOUS
  <1>2. /\ after \in Seq(S) /\ Len(after) = Len(s) - i
        /\ \A j \in 1..(Len(s) - i) : after[j] = s[i + j]
    OBVIOUS
  <1> HIDE DEF before, after
  <1>3. /\ before \o after \in Seq(S)
        /\ Len(before \o after) = Len(s) - 1
    BY <1>1, <1>2
  <1>4. ASSUME NEW j \in 1..(Len(s) - 1)
        PROVE  (before \o after)[j] = IF j < i THEN s[j] ELSE s[j + 1]
    <2>1. CASE j < i
      BY <2>1, <1>1, <1>2
    <2>2. CASE ~(j < i)
      <3>1. (before \o after)[j] = after[j - (i - 1)]
        BY <2>2, <1>1, <1>2
      <3>2. j - (i - 1) \in 1..(Len(s) - i)
        BY <2>2
      <3> QED
        BY <2>2, <3>1, <3>2, <1>2
    <2> QED
      BY <2>1, <2>2
  <1> QED
    BY <1>3, <1>4, <1>5

\* What remains was there, and all that was there but the i-th remains.
LEMMA RemoveAtKeeps ==
    ASSUME NEW S, NEW s \in Seq(S), NEW i \in DOMAIN s
    PROVE  /\ RemoveAt(s, i) \in Seq(S)
           /\ \A j \in DOMAIN RemoveAt(s, i) :
                \E k \in DOMAIN s \ {i} : RemoveAt(s, i)[j] = s[k]
           /\ \A k \in DOMAIN s \ {i} :
                \E j \in DOMAIN RemoveAt(s, i) : RemoveAt(s, i)[j] = s[k]
  <1> DEFINE r == RemoveAt(s, i)
  <1>1. i \in 1..Len(s)
    OBVIOUS
  <1>2. /\ r \in Seq(S)
        /\ Len(r) = Len(s) - 1
        /\ \A j \in 1..(Len(s) - 1) : r[j] = IF j < i THEN s[j] ELSE s[j + 1]
    BY <1>1, RemoveAtProperties
  <1> HIDE DEF r
  <1>3. DOMAIN s = 1..Len(s) /\ DOMAIN r = 1..(Len(s) - 1)
    BY <1>2
  <1>4. ASSUME NEW j \in DOMAIN r
        PROVE  \E k \in DOMAIN s \ {i} : r[j] = s[k]
    <2>1. CASE j < i
      BY <2>1, <1>2, <1>3
    <2>2. CASE ~(j < i)
      <3>1. r[j] = s[j + 1] /\ j + 1 \in DOMAIN s \ {i}
        BY <2>2, <1>2, <1>3
      <3> QED
        BY <3>1
    <2> QED
      BY <2>1, <2>2, <1>3
  <1>5. ASSUME NEW k \in DOMAIN s \ {i}
        PROVE  \E j \in DOMAIN r : r[j] = s[k]
    <2>1. CASE k < i
      BY <2>1, <1>2, <1>3, <1>1
    <2>2. CASE ~(k < i)
      <3>1. k - 1 \in DOMAIN r /\ r[k - 1] = s[k]
        BY <2>2, <1>2, <1>3, <1>1
      <3> QED
        BY <3>1
    <2> QED
      BY <2>1, <2>2, <1>3
  <1> QED
    BY <1>2, <1>4, <1>5 DEF r
=============================================================================
