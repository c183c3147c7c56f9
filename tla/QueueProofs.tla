---------------------------- MODULE QueueProofs ----------------------------
(* Facts about the channels of the hub, which Sync and Presence model as   *)
(* sequences: a send appends, a receive takes the head.                    *)
EXTENDS SequenceTheorems, TLAPS

(* A queue takes a message at its end and gives one up at its front.       *)
LEMMA QueueTypes ==
  ASSUME NEW T, NEW q \in Seq(T)
  PROVE  /\ Len(q) \in Nat
         /\ \A j \in 1..Len(q) : q[j] \in T
         /\ \A m \in T : /\ Append(q, m) \in Seq(T)
                         /\ Len(Append(q, m)) = Len(q) + 1
                         /\ Append(q, m)[Len(q) + 1] = m
                         /\ \A j \in 1..Len(q) : Append(q, m)[j] = q[j]
         /\ q # <<>> => /\ Len(q) >= 1
                        /\ Head(q) \in T /\ Head(q) = q[1]
                        /\ Tail(q) \in Seq(T)
                        /\ Len(Tail(q)) = Len(q) - 1
                        /\ \A j \in 1..Len(q) - 1 : Tail(q)[j] = q[j + 1]
<1>1. Len(q) \in Nat /\ \A j \in 1..Len(q) : q[j] \in T
  BY LenProperties
<1>2. ASSUME NEW m \in T
      PROVE  /\ Append(q, m) \in Seq(T)
             /\ Len(Append(q, m)) = Len(q) + 1
             /\ Append(q, m)[Len(q) + 1] = m
             /\ \A j \in 1..Len(q) : Append(q, m)[j] = q[j]
  BY AppendProperties
<1>3. ASSUME q # <<>>
      PROVE  /\ Len(q) >= 1
             /\ Head(q) \in T /\ Head(q) = q[1]
             /\ Tail(q) \in Seq(T)
             /\ Len(Tail(q)) = Len(q) - 1
             /\ \A j \in 1..Len(q) - 1 : Tail(q)[j] = q[j + 1]
  <2>1. Len(q) >= 1
    BY <1>3, EmptySeq, LenProperties
  <2> QED BY <1>3, <2>1, HeadTailProperties
<1> QED BY <1>1, <1>2, <1>3

(* What a queue holds after a message at its end.                          *)
LEMMA AppendRange ==
  ASSUME NEW T, NEW q \in Seq(T), NEW m \in T
  PROVE  Range(Append(q, m)) = Range(q) \cup {m}
<1> DEFINE r == Append(q, m)
<1>1. /\ Len(q) \in Nat /\ Len(r) = Len(q) + 1 /\ r[Len(q) + 1] = m
      /\ \A j \in 1..Len(q) : r[j] = q[j]
      /\ r \in Seq(T)
  BY QueueTypes
<1>2. Len(q) + 1 \in 1..Len(r) /\ \A j \in 1..Len(q) : j \in 1..Len(r)
  BY <1>1
<1>3. \A j \in 1..Len(r) : j = Len(q) + 1 \/ j \in 1..Len(q)
  BY <1>1
<1> HIDE DEF r
<1>4. Range(q) = {q[j] : j \in 1..Len(q)} /\ Range(r) = {r[j] : j \in 1..Len(r)}
  BY <1>1, RangeEquality
<1>5. Range(r) = Range(q) \cup {m}
  BY <1>1, <1>2, <1>3, <1>4
<1> QED BY <1>5 DEF r

(* What a queue holds once its front is taken.                             *)
LEMMA TailRange ==
  ASSUME NEW T, NEW q \in Seq(T), q # << >>
  PROVE  Range(q) = Range(Tail(q)) \cup {Head(q)}
<1> DEFINE r == Tail(q)
<1>1. /\ Len(q) \in Nat /\ Len(q) >= 1 /\ Len(r) = Len(q) - 1
      /\ Head(q) = q[1] /\ r \in Seq(T)
      /\ \A j \in 1..Len(q) - 1 : r[j] = q[j + 1]
  BY QueueTypes
<1>2. \A j \in 1..Len(q) : j = 1 \/ (j - 1 \in 1..Len(r) /\ r[j - 1] = q[j])
  <2> SUFFICES ASSUME NEW j \in 1..Len(q), j # 1
               PROVE  j - 1 \in 1..Len(r) /\ r[j - 1] = q[j]
    OBVIOUS
  <2>1. j - 1 \in 1..Len(q) - 1 /\ (j - 1) + 1 = j
    BY <1>1
  <2> QED BY <1>1, <2>1
<1>3. \A j \in 1..Len(r) : j + 1 \in 1..Len(q) /\ r[j] = q[j + 1]
  BY <1>1
<1>4. 1 \in 1..Len(q)
  BY <1>1
<1> HIDE DEF r
<1>5. Range(q) = {q[j] : j \in 1..Len(q)} /\ Range(r) = {r[j] : j \in 1..Len(r)}
  BY <1>1, RangeEquality
<1>6. Range(q) = Range(r) \cup {Head(q)}
  BY <1>1, <1>2, <1>3, <1>4, <1>5
<1> QED BY <1>6 DEF r
============================================================================
