---------------------------- MODULE SequenceFacts ----------------------------
(***************************************************************************)
(* Facts about the sequence operators the modules use as queues (Append,   *)
(* Tail) and as stacks (Append, SubSeq), in the form the proofs cite: type,*)
(* length and elements of the result r; and the one form of induction used.*)
(***************************************************************************)
EXTENDS Integers, Sequences, SequenceTheorems, WellFoundedInduction, TLAPS

(* A set of natural numbers has a least one.                               *)
LEMMA LeastOf ==
  ASSUME NEW T, T \subseteq Nat, T # {}
  PROVE  \E x \in T : \A y \in T : x <= y
<1>1. PICK R : R = {ss \in Nat \X Nat : ss[1] < ss[2]}
  OBVIOUS
<1>2. IsWellFoundedOn(R, Nat)
  BY <1>1, NatLessThanWellFounded DEF OpToRel
<1>3. PICK x \in T : \A y \in T : <<y, x>> \notin R
  BY <1>2, WFMin
<1>4. \A y \in T : ~(y < x)
  BY <1>1, <1>3
<1> QED
  BY <1>3, <1>4

(* A sequence without its last element: a stack after a frame returned.    *)
LEMMA FrontFacts ==
  ASSUME NEW S, NEW s \in Seq(S), s # <<>>, NEW r, r = SubSeq(s, 1, Len(s) - 1)
  PROVE  /\ r \in Seq(S)
         /\ Len(r) = Len(s) - 1
         /\ \A i \in 1..Len(r) : r[i] = s[i]
         /\ Len(s) \in 1..Len(s)
         /\ s[Len(s)] \in S
<1>1. Len(s) \in Nat \ {0}
  BY EmptySeq
<1>2. \A i \in 1..Len(s) : s[i] \in S
  BY ElementOfSeq
<1>3. PICK n \in Nat : n = Len(s) - 1
  BY <1>1
<1>4. \A i \in 1..n : s[i] \in S
  BY <1>1, <1>2, <1>3
<1>5. /\ r \in Seq(S)
      /\ Len(r) = IF 1 <= n THEN n - 1 + 1 ELSE 0
      /\ \A i \in 1..(n - 1 + 1) : r[i] = s[1 + i - 1]
  BY <1>3, <1>4, SubSeqProperties
<1>6. Len(r) = n
  BY <1>3, <1>5
<1>7. \A i \in 1..n : r[i] = s[i]
  <2> TAKE i \in 1..n
  <2> QED
    BY <1>3, <1>5
<1> QED
  BY <1>1, <1>2, <1>3, <1>5, <1>6, <1>7

(* A sequence with an element appended.                                    *)
LEMMA AppendFacts ==
  ASSUME NEW S, NEW s \in Seq(S), NEW x \in S, NEW r, r = Append(s, x)
  PROVE  /\ r \in Seq(S)
         /\ Len(s) \in Nat
         /\ Len(r) = Len(s) + 1
         /\ \A i \in 1..Len(s) : r[i] = s[i]
         /\ r[Len(s) + 1] = x
  OBVIOUS

(* A sequence without its first element: a queue after a dequeue.          *)
LEMMA TailFacts ==
  ASSUME NEW S, NEW s \in Seq(S), s # <<>>, NEW r, r = Tail(s)
  PROVE  /\ r \in Seq(S)
         /\ Len(r) = Len(s) - 1
         /\ Len(s) \in Nat \ {0}
         /\ \A i \in 1..Len(r) : r[i] = s[i + 1]
         /\ Head(s) = s[1]
         /\ Head(s) \in S
  BY HeadTailProperties, EmptySeq

(* What a sequence holds, and what one sequence after another is.          *)
Members(s) == {s[k] : k \in DOMAIN s}

Joined(r, d, c, m, n) ==
  /\ DOMAIN r = 1..(m + n) /\ DOMAIN d = 1..m /\ DOMAIN c = 1..n
  /\ \A k \in 1..m : r[k] = d[k]
  /\ \A k \in (m + 1)..(m + n) : k - m \in 1..n /\ r[k] = c[k - m]
  /\ Members(r) = Members(d) \cup Members(c)

(* A sequence followed by another.                                         *)
LEMMA ConcatFacts ==
  ASSUME NEW S, NEW d \in Seq(S), NEW c \in Seq(S), NEW r, r = d \o c,
         NEW m \in Nat, m = Len(d), NEW n \in Nat, n = Len(c)
  PROVE  r \in Seq(S) /\ Joined(r, d, c, m, n)
<1>1. m \in Nat /\ n \in Nat
  OBVIOUS
<1>2. r \in Seq(S) /\ Len(r) = m + n
  BY ConcatProperties
<1>3. DOMAIN r = 1..(m + n) /\ DOMAIN d = 1..m /\ DOMAIN c = 1..n
  BY <1>1, <1>2
<1>4. \A i \in 1..(m + n) : r[i] = IF i <= m THEN d[i] ELSE c[i - m]
  BY ConcatProperties
<1>5. \A k \in 1..m : r[k] = d[k]
  BY <1>1, <1>4
<1>6. \A k \in (m + 1)..(m + n) : k - m \in 1..n /\ r[k] = c[k - m]
  BY <1>1, <1>4
<1>7. ASSUME NEW k \in DOMAIN r PROVE r[k] \in Members(d) \cup Members(c)
  <2>1. k \in 1..m \/ k \in (m + 1)..(m + n)
    BY <1>1, <1>3
  <2>2. CASE k \in 1..m
    BY <1>3, <1>5, <2>2 DEF Members
  <2>3. CASE k \in (m + 1)..(m + n)
    BY <1>3, <1>6, <2>3 DEF Members
  <2> QED
    BY <2>1, <2>2, <2>3
<1>8. ASSUME NEW k \in DOMAIN d PROVE d[k] \in Members(r)
  <2>1. k \in DOMAIN r /\ r[k] = d[k]
    BY <1>1, <1>3, <1>5
  <2> QED
    BY <2>1 DEF Members
<1>9. ASSUME NEW k \in DOMAIN c PROVE c[k] \in Members(r)
  <2>1. PICK i : i = k + m
    OBVIOUS
  <2>2. i \in (m + 1)..(m + n) /\ i - m = k /\ i \in DOMAIN r
    BY <1>1, <1>3, <2>1
  <2>3. r[i] = c[k]
    BY <1>6, <2>2
  <2> QED
    BY <2>2, <2>3 DEF Members
<1>10. Members(r) = Members(d) \cup Members(c)
  <2>1. \A x \in Members(r) : x \in Members(d) \cup Members(c)
    BY <1>7 DEF Members
  <2>2. \A x \in Members(d) : x \in Members(r)
    BY <1>8 DEF Members
  <2>3. \A x \in Members(c) : x \in Members(r)
    BY <1>9 DEF Members
  <2> QED
    BY <2>1, <2>2, <2>3
<1> QED
  BY <1>2, <1>3, <1>5, <1>6, <1>10 DEF Joined
=============================================================================
