---------------------------- MODULE QueueLemmas ----------------------------
(***************************************************************************)
(* Facts about a Go channel or a slice, modelled as a sequence, that the   *)
(* proofs of several components cite: what is in it after a value is taken *)
(* from its head, put at its end, or selected, and two queues of which the *)
(* second takes from the first.  NumberInduction and LoopExists stand for  *)
(* induction over the turns of a loop: they speak of a set of numbers and  *)
(* of functions, since no prover here takes an operator as a parameter.    *)
(***************************************************************************)
EXTENDS Slices, Integers, Sequences, SequencesExt, SequenceTheorems, WellFoundedInduction, TLAPS

In(q, x)    == \E i \in 1..Len(q) : q[i] = x
Distinct(q) == \A i, j \in 1..Len(q) : q[i] = q[j] => i = j

(* What is in the queue after its head is taken.                           *)
LEMMA TakeIn ==
  ASSUME NEW S, NEW q \in Seq(S), q # <<>>
  PROVE  /\ Head(q) \in S /\ Tail(q) \in Seq(S) /\ Len(Tail(q)) = Len(q) - 1
         /\ In(q, Head(q))
         /\ \A x : In(q, x) <=> x = Head(q) \/ In(Tail(q), x)
<1>1. /\ Head(q) \in S /\ Tail(q) \in Seq(S) /\ Len(Tail(q)) = Len(q) - 1
      /\ \A i \in 1..Len(Tail(q)) : Tail(q)[i] = q[i + 1]
      /\ Len(q) \in Nat \ {0} /\ Head(q) = q[1]
  BY HeadTailProperties, EmptySeq
<1>2. In(q, Head(q))
  BY <1>1 DEF In
<1>3. ASSUME NEW x, In(q, x), x # Head(q) PROVE In(Tail(q), x)
  <2>1. PICK i \in 1..Len(q) : q[i] = x
    BY <1>3 DEF In
  <2>2. i - 1 \in 1..Len(Tail(q)) /\ Tail(q)[i - 1] = x
    BY <1>1, <1>3, <2>1
  <2>3. QED
    BY <2>2 DEF In
<1>4. ASSUME NEW x, In(Tail(q), x) PROVE In(q, x)
  <2>1. PICK i \in 1..Len(Tail(q)) : Tail(q)[i] = x
    BY <1>4 DEF In
  <2>2. i + 1 \in 1..Len(q) /\ q[i + 1] = x
    BY <1>1, <2>1
  <2>3. QED
    BY <2>2 DEF In
<1>5. QED
  BY <1>1, <1>2, <1>3, <1>4

(* A queue without duplicates stays so, and no longer holds its head.      *)
LEMMA TakeDistinct ==
  ASSUME NEW S, NEW q \in Seq(S), q # <<>>, Distinct(q)
  PROVE  Distinct(Tail(q)) /\ ~In(Tail(q), Head(q))
<1>1. /\ Len(Tail(q)) = Len(q) - 1 /\ Len(q) \in Nat \ {0} /\ Head(q) = q[1]
      /\ \A i \in 1..Len(Tail(q)) : Tail(q)[i] = q[i + 1]
  BY HeadTailProperties, EmptySeq
<1>2. ~In(Tail(q), Head(q))
  <2> SUFFICES ASSUME NEW i \in 1..Len(Tail(q)), Tail(q)[i] = Head(q) PROVE FALSE
    BY DEF In
  <2>1. q[i + 1] = q[1] /\ i + 1 \in 1..Len(q) /\ 1 \in 1..Len(q)
    BY <1>1
  <2>2. QED
    BY <2>1 DEF Distinct
<1>3. Distinct(Tail(q))
  <2> SUFFICES ASSUME NEW i \in 1..Len(Tail(q)), NEW j \in 1..Len(Tail(q)),
                      Tail(q)[i] = Tail(q)[j]
               PROVE  i = j
    BY DEF Distinct
  <2>1. q[i + 1] = q[j + 1] /\ i + 1 \in 1..Len(q) /\ j + 1 \in 1..Len(q)
    BY <1>1
  <2>2. QED
    BY <2>1, <1>1 DEF Distinct
<1>4. QED
  BY <1>2, <1>3

(* What is in the queue after a value is put at its end.                   *)
LEMMA PutIn ==
  ASSUME NEW S, NEW q \in Seq(S), NEW e \in S
  PROVE  /\ Append(q, e) \in Seq(S) /\ Len(Append(q, e)) = Len(q) + 1
         /\ \A x : In(Append(q, e), x) <=> x = e \/ In(q, x)
<1>1. /\ Append(q, e) \in Seq(S) /\ Len(Append(q, e)) = Len(q) + 1 /\ Len(q) \in Nat
      /\ \A i \in 1..Len(q) : Append(q, e)[i] = q[i]
      /\ Append(q, e)[Len(q) + 1] = e
  BY AppendProperties, LenProperties
<1>2. \A i \in 1..Len(Append(q, e)) : i \in 1..Len(q) \/ i = Len(q) + 1
  BY <1>1
<1>3. 1..Len(q) \subseteq 1..Len(Append(q, e)) /\ Len(q) + 1 \in 1..Len(Append(q, e))
  BY <1>1
<1>4. QED
  BY <1>1, <1>2, <1>3 DEF In

LEMMA PutDistinct ==
  ASSUME NEW S, NEW q \in Seq(S), NEW e \in S, Distinct(q), ~In(q, e)
  PROVE  Distinct(Append(q, e))
<1>1. /\ Len(Append(q, e)) = Len(q) + 1 /\ Len(q) \in Nat
      /\ \A i \in 1..Len(q) : Append(q, e)[i] = q[i]
      /\ Append(q, e)[Len(q) + 1] = e
  BY AppendProperties, LenProperties
<1>2. \A i \in 1..Len(Append(q, e)) : i \in 1..Len(q) \/ i = Len(q) + 1
  BY <1>1
<1>3. \A i \in 1..Len(q) : q[i] # e
  BY DEF In
<1>4. QED
  BY <1>1, <1>2, <1>3 DEF Distinct
-----------------------------------------------------------------------------
(* A set of numbers that is not empty has a least one.                     *)
LEMMA LeastNumber ==
  ASSUME NEW T, T \subseteq Nat, T # {}
  PROVE  \E x \in T : \A y \in T : x <= y
<1> DEFINE R == {ss \in Nat \X Nat : ss[1] < ss[2]}
<1>1. IsWellFoundedOn(R, Nat)
  BY NatLessThanWellFounded DEF OpToRel
<1>2. \A x, y \in Nat : y < x => <<y, x>> \in R
  OBVIOUS
<1> HIDE DEF R
<1>3. PICK x \in T : \A y \in T : ~ (<<y, x>> \in R)
  BY <1>1, WFMin
<1>4. \A y \in T : ~ (y < x)
  BY <1>2, <1>3
<1>5. \A y \in T : x <= y
  BY <1>4
<1>6. QED
  BY <1>5

(* A set that holds 0, and with every number the next one, holds them all: *)
(* induction, for a set in place of a predicate.                           *)
LEMMA NumberInduction ==
  ASSUME NEW S, 0 \in S, \A n \in Nat : n \in S => n + 1 \in S
  PROVE  \A n \in Nat : n \in S
<1> DEFINE T == Nat \ S
<1> SUFFICES ASSUME T # {} PROVE FALSE
  OBVIOUS
<1>1. PICK x \in T : \A y \in T : x <= y
  BY LeastNumber
<1>2. x \in Nat /\ x # 0 /\ x \notin S
  BY <1>1
<1>3. x - 1 \in Nat /\ x - 1 \notin T
  BY <1>1, <1>2
<1>4. x - 1 \in S /\ (x - 1) + 1 = x
  BY <1>2, <1>3
<1>5. QED
  BY <1>2, <1>3, <1>4

LoopsBy(f, V, v, n, step) ==
  f \in [0..n -> V] /\ f[0] = v /\ \A i \in 1..n : f[i] = step[<<i, f[i - 1]>>]

(* A loop that computes a value from the number of its round and the value *)
(* before it has a value for each round.                                   *)
LEMMA LoopExists ==
  ASSUME NEW V, NEW v \in V, NEW n \in Nat, NEW step \in [(1..n) \X V -> V]
  PROVE  \E f : LoopsBy(f, V, v, n, step)
<1> DEFINE Ok(k) ==
      \E f \in [0..k -> V] : f[0] = v /\ \A i \in 1..k : f[i] = step[<<i, f[i - 1]>>]
<1> DEFINE S == {k \in Nat : k <= n => Ok(k)}
<1>1. 0 \in S
  <2> DEFINE g == [i \in 0..0 |-> v]
  <2>1. g \in [0..0 -> V] /\ g[0] = v /\ \A i \in 1..0 : g[i] = step[<<i, g[i - 1]>>]
    OBVIOUS
  <2>2. Ok(0)
    BY <2>1
  <2>3. QED
    BY <2>2
<1>2. ASSUME NEW k \in Nat, k \in S PROVE k + 1 \in S
  <2> SUFFICES ASSUME k + 1 <= n PROVE Ok(k + 1)
    OBVIOUS
  <2>1. PICK f \in [0..k -> V] : f[0] = v /\ \A i \in 1..k : f[i] = step[<<i, f[i - 1]>>]
    BY <1>2
  <2> DEFINE g == [i \in 0..(k + 1) |-> IF i <= k THEN f[i] ELSE step[<<i, f[k]>>]]
  <2>2. f[k] \in V /\ k + 1 \in 1..n
    OBVIOUS
  <2>3. step[<<k + 1, f[k]>>] \in V
    BY <2>2
  <2>4. \A i \in 0..(k + 1) : g[i] \in V
    <3> TAKE i \in 0..(k + 1)
    <3>1. CASE i <= k
      BY <3>1
    <3>2. CASE i = k + 1
      BY <3>2, <2>3
    <3>3. QED
      BY <3>1, <3>2
  <2>5. g \in [0..(k + 1) -> V]
    BY <2>4
  <2>6. g[0] = v
    BY <2>1
  <2>7. ASSUME NEW i \in 1..(k + 1) PROVE g[i] = step[<<i, g[i - 1]>>]
    <3>1. CASE i <= k
      BY <3>1, <2>1
    <3>2. CASE i = k + 1
      BY <3>2
    <3>3. QED
      BY <3>1, <3>2
  <2>8. QED
    BY <2>5, <2>6, <2>7
<1> HIDE DEF S
<1>3. n \in S
  BY <1>1, <1>2, NumberInduction
<1>4. QED
  BY <1>3 DEF S, LoopsBy
-----------------------------------------------------------------------------
KeepsBy(f, S, q, K) ==
  /\ f \in [0..Len(q) -> Seq(S)]
  /\ f[0] = <<>>
  /\ \A i \in 1..Len(q) :
       f[i] = IF q[i] \in K THEN Append(f[i - 1], q[i]) ELSE f[i - 1]
  /\ Keep(q, K) = f[Len(q)]

(* Keep of module Slices: its loop has a value for each round...           *)
LEMMA KeepLoop ==
  ASSUME NEW S, NEW q \in Seq(S), NEW K
  PROVE  \E f : KeepsBy(f, S, q, K)
<1> DEFINE n == Len(q)
           V == Seq(S)
           step == [x \in (1..n) \X V |->
                      IF q[x[1]] \in K THEN Append(x[2], q[x[1]]) ELSE x[2]]
           Loop(f) == f = [i \in 0..n |->
                             IF i = 0 THEN <<>>
                             ELSE IF q[i] \in K THEN Append(f[i - 1], q[i]) ELSE f[i - 1]]
<1>1. n \in Nat /\ \A i \in 1..n : q[i] \in S
  BY ElementOfSeq, LenProperties
<1>2. \A i \in 1..n, v \in V : Append(v, q[i]) \in V
  BY <1>1, AppendProperties
<1>3. step \in [(1..n) \X V -> V]
  BY <1>2
<1>4. <<>> \in V
  OBVIOUS
<1>5. PICK f : LoopsBy(f, V, <<>>, n, step)
  <2> HIDE DEF step, V
  <2>1. QED
    BY <1>1, <1>3, <1>4, LoopExists
<1>6. \A i \in 1..n : f[i] = IF q[i] \in K THEN Append(f[i - 1], q[i]) ELSE f[i - 1]
  <2> TAKE i \in 1..n
  <2>1. i - 1 \in 0..n /\ f[i - 1] \in V
    BY <1>1, <1>5 DEF LoopsBy
  <2>2. <<i, f[i - 1]>> \in (1..n) \X V
    BY <2>1
  <2>3. QED
    BY <1>5, <2>2 DEF LoopsBy
<1>7. Loop(f)
  <2>1. \A i \in 0..n : f[i] = IF i = 0 THEN <<>>
             ELSE IF q[i] \in K THEN Append(f[i - 1], q[i]) ELSE f[i - 1]
    <3> TAKE i \in 0..n
    <3>1. CASE i = 0
      BY <3>1, <1>5 DEF LoopsBy
    <3>2. CASE i \in 1..n
      BY <3>2, <1>6
    <3>3. QED
      BY <1>1, <3>1, <3>2
  <2>2. f \in [0..n -> V]
    BY <1>5 DEF LoopsBy
  <2>3. QED
    BY <2>1, <2>2
<1> DEFINE g == CHOOSE h : Loop(h)
<1>8. Loop(g)
  <2> HIDE DEF Loop
  <2>1. QED
    BY <1>7
<1>9. Keep(q, K) = g[n]
  BY DEF Keep
<1> HIDE DEF g
<1>10. /\ g[0] = <<>>
       /\ \A i \in 1..n : g[i] = IF q[i] \in K THEN Append(g[i - 1], q[i]) ELSE g[i - 1]
  <2>1. \A i \in 0..n :
          g[i] = IF i = 0 THEN <<>>
                 ELSE IF q[i] \in K THEN Append(g[i - 1], q[i]) ELSE g[i - 1]
    BY <1>8 DEF Loop
  <2>2. g[0] = <<>>
    BY <1>1, <2>1
  <2>3. ASSUME NEW i \in 1..n
        PROVE  g[i] = IF q[i] \in K THEN Append(g[i - 1], q[i]) ELSE g[i - 1]
    BY <1>1, <2>1
  <2>4. QED
    BY <2>2, <2>3
<1> DEFINE Typed == {i \in Nat : i <= n => g[i] \in V}
<1>11. 0 \in Typed
  BY <1>4, <1>10
<1>12. ASSUME NEW i \in Nat, i \in Typed PROVE i + 1 \in Typed
  <2> SUFFICES ASSUME i + 1 <= n PROVE g[i + 1] \in V
    OBVIOUS
  <2>1. g[i] \in V /\ i + 1 \in 1..n /\ (i + 1) - 1 = i
    BY <1>1, <1>12
  <2>2. QED
    BY <2>1, <1>2, <1>10
<1>13. \A i \in 0..n : g[i] \in V
  <2> HIDE DEF Typed
  <2>1. \A i \in Nat : i \in Typed
    BY <1>11, <1>12, NumberInduction
  <2>2. QED
    BY <1>1, <2>1 DEF Typed
<1>14. g \in [0..n -> V]
  BY <1>8, <1>13
<1>15. QED
  BY <1>9, <1>10, <1>14 DEF KeepsBy

(* ...so that it keeps what is in K...                                     *)
LEMMA KeepIn ==
  ASSUME NEW S, NEW q \in Seq(S), NEW K
  PROVE  /\ Keep(q, K) \in Seq(S)
         /\ Len(Keep(q, K)) <= Len(q)
         /\ \A x : In(Keep(q, K), x) <=> In(q, x) /\ x \in K
<1> DEFINE n == Len(q)
<1>1. PICK f : KeepsBy(f, S, q, K)
  BY KeepLoop
<1> USE DEF KeepsBy
<1>2. n \in Nat /\ \A i \in 1..n : q[i] \in S
  BY ElementOfSeq, LenProperties
<1> DEFINE Good(i) == /\ Len(f[i]) <= i
                      /\ \A x : In(f[i], x) <=> x \in K /\ \E j \in 1..i : q[j] = x
           G == {i \in Nat : i <= n => Good(i)}
<1>3. 0 \in G
  BY <1>1 DEF In
<1>4. ASSUME NEW i \in Nat, i \in G PROVE i + 1 \in G
  <2> SUFFICES ASSUME i + 1 <= n PROVE Good(i + 1)
    OBVIOUS
  <2>1. i + 1 \in 1..n /\ (i + 1) - 1 = i /\ i \in 0..n /\ f[i] \in Seq(S) /\ q[i + 1] \in S
    <3>1. i + 1 \in 1..n /\ (i + 1) - 1 = i /\ i \in 0..n
      BY <1>2
    <3>2. f[i] \in Seq(S)
      BY <1>1, <3>1
    <3>3. QED
      BY <1>2, <3>1, <3>2
  <2>2. f[i + 1] = IF q[i + 1] \in K THEN Append(f[i], q[i + 1]) ELSE f[i]
    BY <1>1, <2>1
  <2>3. Good(i)
    BY <1>4, <2>1
  <2>4. \A x : (\E j \in 1..(i + 1) : q[j] = x) <=> x = q[i + 1] \/ \E j \in 1..i : q[j] = x
    BY <2>1
  <2>5. CASE q[i + 1] \in K
    <3>1. /\ Len(f[i + 1]) = Len(f[i]) + 1 /\ Len(f[i]) \in Nat
          /\ \A x : In(f[i + 1], x) <=> x = q[i + 1] \/ In(f[i], x)
      BY <2>1, <2>2, <2>5, PutIn, LenProperties
    <3>2. QED
      BY <2>3, <2>4, <2>5, <3>1
  <2>6. CASE q[i + 1] \notin K
    <3>1. f[i + 1] = f[i] /\ Len(f[i]) \in Nat
      BY <2>1, <2>2, <2>6, LenProperties
    <3>2. QED
      BY <2>3, <2>4, <2>6, <3>1
  <2>7. QED
    BY <2>5, <2>6
<1>5. Good(n)
  <2> HIDE DEF G
  <2>1. n \in G
    BY <1>2, <1>3, <1>4, NumberInduction
  <2>2. QED
    BY <1>2, <2>1 DEF G
<1>6. f[n] \in Seq(S)
  BY <1>1, <1>2
<1>7. QED
  BY <1>1, <1>5, <1>6 DEF In

(* ...and a value put at the end is kept, or not, after the others.        *)
LEMMA KeepPut ==
  ASSUME NEW S, NEW q \in Seq(S), NEW e \in S, NEW K
  PROVE  /\ e \in K => Keep(Append(q, e), K) = Append(Keep(q, K), e)
         /\ e \notin K => Keep(Append(q, e), K) = Keep(q, K)
<1> DEFINE n == Len(q)
           p == Append(q, e)
<1>1. /\ p \in Seq(S) /\ Len(p) = n + 1 /\ n \in Nat
      /\ \A i \in 1..n : p[i] = q[i]
      /\ p[n + 1] = e
  BY AppendProperties, LenProperties
<1> HIDE DEF p
<1>2. PICK f : KeepsBy(f, S, q, K)
  BY KeepLoop
<1>3. PICK g : KeepsBy(g, S, p, K)
  BY <1>1, KeepLoop
<1> USE DEF KeepsBy
<1> DEFINE G == {i \in Nat : i <= n => f[i] = g[i]}
<1>4. 0 \in G
  BY <1>2, <1>3
<1>5. ASSUME NEW i \in Nat, i \in G PROVE i + 1 \in G
  <2> SUFFICES ASSUME i + 1 <= n PROVE f[i + 1] = g[i + 1]
    OBVIOUS
  <2>1. i + 1 \in 1..n /\ i + 1 \in 1..Len(p) /\ (i + 1) - 1 = i /\ f[i] = g[i]
    BY <1>1, <1>5
  <2>2. QED
    BY ZenonT(30), <1>1, <1>2, <1>3, <2>1
<1>6. f[n] = g[n]
  <2> HIDE DEF G
  <2>1. n \in G
    BY <1>1, <1>4, <1>5, NumberInduction
  <2>2. QED
    BY <1>1, <2>1 DEF G
<1>7. n + 1 \in 1..Len(p) /\ (n + 1) - 1 = n
  BY <1>1
<1>8. QED
  BY <1>1, <1>2, <1>3, <1>6, <1>7 DEF p
-----------------------------------------------------------------------------
(* A queue is its head and the rest.                                       *)
LEMMA HeadApart ==
  ASSUME NEW S, NEW q \in Seq(S), q # <<>>
  PROVE  <<Head(q)>> \o Tail(q) = q
<1>1. PICK x \in S, t \in Seq(S) : x = Head(q) /\ t = Tail(q)
  BY HeadTailProperties
<1>2. /\ Len(t) = Len(q) - 1 /\ x = q[1] /\ Len(q) \in Nat \ {0}
      /\ \A i \in 1..Len(t) : t[i] = q[i + 1]
  BY <1>1, HeadTailProperties, EmptySeq
<1>0. <<x>> \in Seq(S) /\ Len(<<x>>) = 1 /\ <<x>>[1] = x
  OBVIOUS
<1>3. PICK h \in Seq(S) : h = <<x>> /\ Len(h) = 1 /\ h[1] = x
  BY <1>0
<1>4. PICK j : j = h \o t
  OBVIOUS
<1>5. /\ j \in Seq(S) /\ Len(j) = Len(h) + Len(t)
      /\ \A i \in 1..Len(h) + Len(t) : j[i] = IF i <= Len(h) THEN h[i] ELSE t[i - Len(h)]
  BY <1>4, ConcatProperties
<1>6. Len(j) = Len(q) /\ \A i \in 1..Len(j) : j[i] = q[i]
  BY <1>2, <1>3, <1>5
<1>7. j = q
  BY <1>5, <1>6, SeqEqual
<1>8. QED
  BY <1>1, <1>3, <1>4, <1>7

(* Two queues in a row: their first is taken from the first, and what is   *)
(* put at their end is put in the second.                                  *)
LEMMA JoinTake ==
  ASSUME NEW S, NEW q \in Seq(S), NEW t \in Seq(S), q # <<>>
  PROVE  q \o t # <<>> /\ Head(q \o t) = Head(q) /\ Tail(q \o t) = Tail(q) \o t
<1>1. PICK u \in Seq(S) : u = Tail(q) /\ Len(u) = Len(q) - 1
  BY HeadTailProperties
<1>2. PICK j \in Seq(S) : j = q \o t
  BY ConcatProperties
<1>3. /\ Len(j) = Len(q) + Len(t) /\ Len(q) \in Nat \ {0} /\ Len(t) \in Nat
      /\ \A i \in 1..Len(q) + Len(t) : j[i] = IF i <= Len(q) THEN q[i] ELSE t[i - Len(q)]
  BY <1>2, ConcatProperties, EmptySeq, LenProperties
<1>4. j # <<>>
  BY <1>3, EmptySeq
<1>5. Head(j) = Head(q)
  BY <1>3, <1>4
<1>6. PICK k \in Seq(S) : k = u \o t
  BY ConcatProperties
<1>7. /\ Len(k) = Len(u) + Len(t)
      /\ \A i \in 1..Len(u) + Len(t) : k[i] = IF i <= Len(u) THEN u[i] ELSE t[i - Len(u)]
  BY <1>6, ConcatProperties
<1>8. PICK l \in Seq(S) : l = Tail(j)
  BY <1>4, HeadTailProperties
<1>9. Len(l) = Len(j) - 1 /\ \A i \in 1..Len(l) : l[i] = j[i + 1]
  BY <1>4, <1>8, HeadTailProperties
<1>10. \A i \in 1..Len(u) : u[i] = q[i + 1]
  BY <1>1, HeadTailProperties
<1>11. Len(l) = Len(k) /\ \A i \in 1..Len(l) : l[i] = k[i]
  BY SMTT(30), <1>1, <1>3, <1>7, <1>9, <1>10
<1>12. l = k
  BY <1>11, SeqEqual
<1>13. QED
  BY <1>1, <1>2, <1>4, <1>5, <1>6, <1>8, <1>12

LEMMA JoinPut ==
  ASSUME NEW S, NEW q \in Seq(S), NEW t \in Seq(S), NEW e \in S
  PROVE  q \o Append(t, e) = Append(q \o t, e)
<1>0. <<e>> \in Seq(S)
  OBVIOUS
<1>1. PICK o \in Seq(S) : o = <<e>>
  BY <1>0
<1>2. Append(t, e) = t \o o
  BY <1>1, AppendIsConcat
<1>3. q \o t \in Seq(S) /\ q \o (t \o o) = (q \o t) \o o
  BY ConcatProperties, ConcatAssociative
<1>4. Append(q \o t, e) = (q \o t) \o o
  BY <1>1, <1>3, AppendIsConcat
<1>5. QED
  BY <1>2, <1>3, <1>4
-----------------------------------------------------------------------------
(* Lists that are joined by the FlattenSeq of the community modules        *)
Lists(V) == Seq(Seq(V))

FlattensBy(f, w, V) ==
  /\ f \in [1..Len(w) -> Seq(V)]
  /\ \A i \in 1..Len(w) : f[i] = IF i = 1 THEN w[i] ELSE f[i - 1] \o w[i]
  /\ FlattenSeq(w) = f[Len(w)]

(* FlattenSeq of the library: its loop has a value for each round...       *)
LEMMA FlattenLoop ==
  ASSUME NEW V, NEW w \in Lists(V), w # <<>>
  PROVE  \E f : FlattensBy(f, w, V)
<1> DEFINE W == Seq(V)
           Loop(h, n) == h = [i \in 1..n |-> IF i = 1 THEN w[i] ELSE h[i - 1] \o w[i]]
<1>1. PICK n \in Nat \ {0} : n = Len(w)
  BY EmptySeq DEF Lists
<1>2. \A i \in 1..n : w[i] \in W
  BY <1>1, ElementOfSeq DEF Lists
<1>3. \A x, y \in W : x \o y \in W
  BY ConcatProperties
<1> DEFINE step == [x \in (1..n) \X W |-> x[2] \o w[x[1]]]
<1>4. step \in [(1..n) \X W -> W]
  BY <1>2, <1>3
<1>5. <<>> \in W
  OBVIOUS
<1>6. PICK f : LoopsBy(f, W, <<>>, n, step)
  <2> HIDE DEF step, W
  <2> QED
    BY <1>4, <1>5, LoopExists
<1>7. f \in [0..n -> W] /\ f[0] = <<>>
  BY <1>6 DEF LoopsBy
<1>8. ASSUME NEW i \in 1..n PROVE f[i] = f[i - 1] \o w[i]
  <2>1. i - 1 \in 0..n /\ f[i - 1] \in W
    BY <1>7
  <2>2. <<i, f[i - 1]>> \in (1..n) \X W
    BY <2>1
  <2>3. f[i] = step[<<i, f[i - 1]>>]
    BY <1>6 DEF LoopsBy
  <2> QED
    BY <2>2, <2>3
<1>9. f[1] = w[1]
  <2>1. 1 \in 1..n /\ 1 - 1 = 0
    BY <1>1
  <2>2. f[1] = <<>> \o w[1]
    BY <1>7, <1>8, <2>1
  <2> QED
    BY <1>2, <2>1, <2>2, ConcatEmptySeq
<1>10. PICK h : h = [i \in 1..n |-> f[i]]
  OBVIOUS
<1>11. \A i \in 1..n : h[i] = IF i = 1 THEN w[i] ELSE h[i - 1] \o w[i]
  <2> TAKE i \in 1..n
  <2>1. CASE i = 1
    BY <1>9, <1>10, <2>1
  <2>2. CASE i # 1
    <3>1. i - 1 \in 1..n
      BY <2>2
    <3> QED
      BY <1>8, <1>10, <2>2, <3>1
  <2> QED
    BY <2>1, <2>2
<1>12. Loop(h, n)
  BY <1>10, <1>11
<1> DEFINE g == CHOOSE k : Loop(k, n)
<1>13. Loop(g, n)
  <2> HIDE DEF Loop
  <2> QED
    BY <1>12
<1>14. FlattenSeq(w) = g[n]
  BY <1>1 DEF FlattenSeq
<1> HIDE DEF g
<1>15. DOMAIN g = 1..n /\ \A i \in 1..n : g[i] = IF i = 1 THEN w[i] ELSE g[i - 1] \o w[i]
  BY <1>13
<1> DEFINE Same == {i \in Nat : i + 1 <= n => g[i + 1] = f[i + 1]}
<1>16. 0 \in Same
  <2>1. 1 \in 1..n /\ 0 + 1 = 1
    BY <1>1
  <2>2. g[1] = w[1]
    BY <1>15, <2>1
  <2>3. g[0 + 1] = f[0 + 1]
    BY <1>9, <2>1, <2>2
  <2> QED
    BY <2>3
<1>17. ASSUME NEW i \in Nat, i \in Same PROVE i + 1 \in Same
  <2> SUFFICES ASSUME (i + 1) + 1 <= n PROVE g[(i + 1) + 1] = f[(i + 1) + 1]
    OBVIOUS
  <2>1. PICK k \in 1..n : k = (i + 1) + 1 /\ k # 1 /\ k - 1 = i + 1
    BY <1>1
  <2>2. g[k] = g[k - 1] \o w[k]
    BY <1>15, <2>1
  <2>3. g[k - 1] = f[k - 1]
    BY <1>1, <1>17, <2>1
  <2>4. f[k] = f[k - 1] \o w[k]
    BY <1>8
  <2> QED
    BY <2>1, <2>2, <2>3, <2>4
<1>18. ASSUME NEW i \in 1..n PROVE g[i] \in W
  <2> HIDE DEF Same
  <2>1. i - 1 \in Nat /\ (i - 1) + 1 = i /\ i <= n
    BY <1>1
  <2>2. i - 1 \in Same
    BY <1>16, <1>17, <2>1, NumberInduction
  <2>3. g[i] = f[i]
    BY <2>1, <2>2 DEF Same
  <2> QED
    BY <1>7, <2>3
<1>19. g \in [1..n -> W]
  BY <1>13, <1>15, <1>18
<1> QED
  BY <1>1, <1>14, <1>15, <1>19 DEF FlattensBy

(* ...so that it joins lists to a list of the same things...              *)
LEMMA FlattenType ==
  /\ FlattenSeq(<<>>) = <<>>
  /\ \A V : \A w \in Lists(V) : FlattenSeq(w) \in Seq(V)
<1>1. FlattenSeq(<<>>) = <<>>
  BY EmptySeq DEF FlattenSeq
<1>2. ASSUME NEW V, NEW w \in Lists(V) PROVE FlattenSeq(w) \in Seq(V)
  <2>1. CASE w = <<>>
    <3>1. FlattenSeq(w) = <<>>
      BY <1>1, <2>1
    <3> QED
      BY <3>1, EmptySeq
  <2>2. CASE w # <<>>
    <3>1. PICK f : FlattensBy(f, w, V)
      BY <2>2, FlattenLoop
    <3>2. Len(w) \in Nat \ {0}
      BY <2>2, EmptySeq DEF Lists
    <3> QED
      BY <3>1, <3>2 DEF FlattensBy
  <2> QED
    BY <2>1, <2>2
<1> QED
  BY <1>1, <1>2

(* ...a list at the end comes last...                                      *)
LEMMA FlattenPut ==
  ASSUME NEW V, NEW w \in Lists(V), NEW p \in Seq(V)
  PROVE  FlattenSeq(Append(w, p)) = FlattenSeq(w) \o p
<1>1. PICK v : v = Append(w, p)
  OBVIOUS
<1>2. PICK n \in Nat : n = Len(w)
  BY LenProperties DEF Lists
<1>3. /\ v \in Lists(V) /\ v # <<>> /\ Len(v) = n + 1 /\ v[n + 1] = p
      /\ \A i \in 1..n : v[i] = w[i]
  BY <1>1, <1>2, AppendProperties DEF Lists
<1>4. PICK g : FlattensBy(g, v, V)
  BY <1>3, FlattenLoop
<1>5. /\ FlattenSeq(v) = g[n + 1]
      /\ \A i \in 1..(n + 1) : g[i] = IF i = 1 THEN v[i] ELSE g[i - 1] \o v[i]
  BY <1>3, <1>4 DEF FlattensBy
<1>6. CASE n = 0
  <2>1. w = <<>>
    BY <1>2, <1>6, EmptySeq DEF Lists
  <2>2. g[n + 1] = p
    BY <1>3, <1>5, <1>6
  <2> QED
    BY <1>1, <1>5, <2>1, <2>2, FlattenType, ConcatEmptySeq
<1>7. CASE n # 0
  <2>0. w # <<>>
    BY <1>2, <1>7, EmptySeq
  <2>1. PICK f : FlattensBy(f, w, V)
    BY <2>0, FlattenLoop
  <2>2. /\ FlattenSeq(w) = f[n]
        /\ \A i \in 1..n : f[i] = IF i = 1 THEN w[i] ELSE f[i - 1] \o w[i]
    BY <1>2, <2>1 DEF FlattensBy
  <2> DEFINE Same == {i \in Nat : i + 1 <= n => g[i + 1] = f[i + 1]}
  <2>3. 0 \in Same
    <3>1. 1 \in 1..n /\ 1 \in 1..(n + 1) /\ 0 + 1 = 1
      BY <1>7
    <3>2. g[1] = v[1] /\ f[1] = w[1] /\ v[1] = w[1]
      BY <1>3, <1>5, <2>2, <3>1
    <3>3. g[0 + 1] = f[0 + 1]
      BY <3>1, <3>2
    <3> QED
      BY <3>3
  <2>4. ASSUME NEW i \in Nat, i \in Same PROVE i + 1 \in Same
    <3> SUFFICES ASSUME (i + 1) + 1 <= n PROVE g[(i + 1) + 1] = f[(i + 1) + 1]
      OBVIOUS
    <3>1. PICK k \in 1..n : k = (i + 1) + 1 /\ k # 1 /\ k - 1 = i + 1 /\ k \in 1..(n + 1)
      OBVIOUS
    <3>2. g[k] = g[k - 1] \o v[k] /\ f[k] = f[k - 1] \o w[k] /\ v[k] = w[k]
      BY <1>3, <1>5, <2>2, <3>1
    <3>3. g[k - 1] = f[k - 1]
      BY <2>4, <3>1
    <3> QED
      BY <3>1, <3>2, <3>3
  <2>5. g[n] = f[n]
    <3> HIDE DEF Same
    <3>1. n - 1 \in Nat /\ (n - 1) + 1 = n
      BY <1>7
    <3>2. n - 1 \in Same
      BY <2>3, <2>4, <3>1, NumberInduction
    <3> QED
      BY <3>1, <3>2 DEF Same
  <2>6. n + 1 \in 1..(n + 1) /\ n + 1 # 1 /\ (n + 1) - 1 = n
    BY <1>7
  <2>7. g[n + 1] = g[n] \o p
    BY <1>3, <1>5, <2>6
  <2> QED
    BY <1>1, <1>5, <2>2, <2>5, <2>7
<1> QED
  BY <1>6, <1>7

(* ...and so do lists after lists.                                         *)
LEMMA FlattenJoin ==
  ASSUME NEW V, NEW w \in Lists(V), NEW x \in Lists(V)
  PROVE  w \o x \in Lists(V) /\ FlattenSeq(w \o x) = FlattenSeq(w) \o FlattenSeq(x)
<1> DEFINE Joins(y) == FlattenSeq(w \o y) = FlattenSeq(w) \o FlattenSeq(y)
           S == {n \in Nat : \A y \in Lists(V) : Len(y) = n => Joins(y)}
<1>1. 0 \in S
  <2> SUFFICES ASSUME NEW y \in Lists(V), Len(y) = 0 PROVE Joins(y)
    OBVIOUS
  <2>1. y = <<>>
    BY EmptySeq DEF Lists
  <2>2. w \o <<>> = w /\ FlattenSeq(w) \o <<>> = FlattenSeq(w)
    BY FlattenType, ConcatEmptySeq DEF Lists
  <2> QED
    BY <2>1, <2>2, FlattenType
<1>2. ASSUME NEW n \in Nat, n \in S PROVE n + 1 \in S
  <2> SUFFICES ASSUME NEW y \in Lists(V), Len(y) = n + 1 PROVE Joins(y)
    OBVIOUS
  <2>0. y # <<>>
    BY EmptySeq
  <2>1. PICK s \in Lists(V), e \in Seq(V) : y = Append(s, e)
    BY <2>0, SequenceEmptyOrAppend DEF Lists
  <2>2. Len(s) = n
    <3>1. Len(y) = Len(s) + 1 /\ Len(s) \in Nat
      BY <2>1, AppendProperties, LenProperties DEF Lists
    <3> QED
      BY <3>1
  <2>3. Joins(s)
    BY <1>2, <2>2
  <2>4. w \o y = Append(w \o s, e) /\ w \o s \in Lists(V)
    BY SMTT(20), <2>1, JoinPut, ConcatProperties DEF Lists
  <2>5. FlattenSeq(w \o y) = FlattenSeq(w \o s) \o e
    BY <2>4, FlattenPut
  <2>6. FlattenSeq(y) = FlattenSeq(s) \o e
    BY <2>1, FlattenPut
  <2>7. (FlattenSeq(w) \o FlattenSeq(s)) \o e = FlattenSeq(w) \o (FlattenSeq(s) \o e)
    <3>1. PICK a, b \in Seq(V) : a = FlattenSeq(w) /\ b = FlattenSeq(s)
      BY FlattenType
    <3>2. (a \o b) \o e = a \o (b \o e)
      BY SMTT(20), ConcatAssociative
    <3> QED
      BY <3>1, <3>2
  <2> QED
    BY <2>3, <2>5, <2>6, <2>7
<1>3. Len(x) \in S
  <2> HIDE DEF S
  <2>1. Len(x) \in Nat
    BY LenProperties DEF Lists
  <2> QED
    BY <1>1, <1>2, <2>1, NumberInduction
<1> QED
  BY <1>3, ConcatProperties DEF Lists

(* A queue is its head and the rest.                                       *)
LEMMA FirstApart ==
  ASSUME NEW S, NEW q \in Seq(S), q # <<>>
  PROVE  \E p \in S, t \in Seq(S) :
           /\ p = Head(q) /\ p = q[1] /\ t = Tail(q) /\ Len(q) = Len(t) + 1
           /\ \A i \in 1..Len(t) : t[i] = q[i + 1]
           /\ <<p>> \in Seq(S) /\ <<p>> \o t = q /\ Append(<<>>, p) = <<p>>
<1>1. /\ Head(q) \in S /\ Tail(q) \in Seq(S) /\ Head(q) = q[1]
      /\ Len(q) = Len(Tail(q)) + 1 /\ \A i \in 1..Len(Tail(q)) : Tail(q)[i] = q[i + 1]
  BY HeadTailProperties, EmptySeq
<1>2. <<Head(q)>> \in Seq(S) /\ Append(<<>>, Head(q)) = <<Head(q)>>
  BY <1>1
<1> QED
  BY <1>1, <1>2, HeadApart

(* The first list comes first, then what is made of the others.            *)
FirstOf(w, p, t) ==
  /\ p = w[1] /\ t = Tail(w) /\ Len(w) = Len(t) + 1
  /\ \A i \in 1..Len(t) : t[i] = w[i + 1]
  /\ FlattenSeq(w) = p \o FlattenSeq(t)

LEMMA FlattenFirst ==
  ASSUME NEW V, NEW w \in Lists(V), w # <<>>
  PROVE  \E p \in Seq(V), t \in Lists(V) : FirstOf(w, p, t)
<1>1. PICK p \in Seq(V), t \in Lists(V) :
        /\ p = w[1] /\ t = Tail(w) /\ Len(w) = Len(t) + 1
        /\ \A i \in 1..Len(t) : t[i] = w[i + 1]
        /\ <<p>> \in Lists(V) /\ <<p>> \o t = w /\ Append(<<>>, p) = <<p>>
  BY FirstApart DEF Lists
<1>2. <<>> \in Lists(V)
  BY EmptySeq DEF Lists
<1>3. FlattenSeq(<<p>>) = <<>> \o p
  BY <1>1, <1>2, FlattenPut, FlattenType
<1>4. FlattenSeq(<<p>>) = p
  BY <1>3, ConcatEmptySeq
<1>5. FlattenSeq(w) = p \o FlattenSeq(t)
  <2>1. PICK o \in Lists(V) : o = <<p>>
    BY <1>1
  <2>2. FlattenSeq(o \o t) = FlattenSeq(o) \o FlattenSeq(t)
    BY FlattenJoin
  <2> QED
    BY <1>1, <1>4, <2>1, <2>2
<1> QED
  BY <1>1, <1>5 DEF FirstOf
=============================================================================
