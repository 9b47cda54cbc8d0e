---- MODULE SeqFacts ----
(***************************************************************************)
(* Facts about numbers and sequences that the proofs of several components *)
(* need, each stated once: induction over the natural numbers (as a fact   *)
(* about sets), increasing sequences of numbers, which queues and logs of  *)
(* numbered things are, recursion, what Selected selects and Joined joins, *)
(* and how many elements of a sequence are in a set.                       *)
(***************************************************************************)
EXTENDS Selection, Integers, Sequences, FiniteSets, SequenceTheorems, FiniteSetTheorems, FunctionTheorems,
        WellFoundedInduction, TLAPS

LEMMA LeastNat ==
  ASSUME NEW T \in SUBSET Nat, T # {}
  PROVE  \E m \in T : \A k \in T : m <= k
<1> DEFINE R == OpToRel(<, Nat)
<1>1. IsWellFoundedOn(R, Nat)
  BY NatLessThanWellFounded
<1>2. \A x, y \in Nat : <<x, y>> \in R <=> x < y
  BY DEF OpToRel
<1> HIDE DEF R
<1>3. PICK m \in T : \A k \in T : ~(<<k, m>> \in R)
  BY <1>1, WFMin
<1>4. \A k \in T : ~(k < m)
  BY <1>2, <1>3
<1>5. \A k \in T : k \in Nat /\ m \in Nat
  OBVIOUS
<1>6. \A k \in T : m <= k
  BY <1>4, <1>5
<1> QED
  BY <1>6

(* Induction: a set with 0 and the successor of each of its numbers has all.    *)
LEMMA NatInd ==
  ASSUME NEW G, 0 \in G, \A n \in Nat : n \in G => n + 1 \in G
  PROVE  Nat \subseteq G
<1> SUFFICES ASSUME Nat \ G # {} PROVE FALSE
  OBVIOUS
<1>1. PICK m \in Nat \ G : \A k \in Nat \ G : m <= k
  <2> DEFINE T == Nat \ G
  <2>1. T \in SUBSET Nat /\ T # {}
    OBVIOUS
  <2> HIDE DEF T
  <2>2. \E m \in T : \A k \in T : m <= k
    BY <2>1, LeastNat
  <2> QED
    BY <2>2 DEF T
<1>2. m # 0 /\ m - 1 \in Nat
  BY <1>1
<1>3. m - 1 \in G
  BY <1>1, <1>2
<1> QED
  BY <1>1, <1>2, <1>3

LEMMA FunIsSeq ==
  ASSUME NEW S, NEW n \in Nat, NEW f \in [1..n -> S]
  PROVE  f \in Seq(S) /\ Len(f) = n /\ DOMAIN f = 1..n
OBVIOUS

Increasing(s) == \A i, j \in DOMAIN s : i < j => s[i] < s[j]
AllAbove(m, s) == \A i \in DOMAIN s : m < s[i]

(* What Head and Tail do to an increasing sequence. *)
LEMMA IncreasingTail ==
  ASSUME NEW s \in Seq(Nat), s # <<>>, Increasing(s)
  PROVE  /\ Head(s) \in Nat /\ Tail(s) \in Seq(Nat) /\ Len(Tail(s)) = Len(s) - 1
         /\ Increasing(Tail(s)) /\ AllAbove(Head(s), Tail(s))
         /\ \A m \in Int : AllAbove(m, s) => m < Head(s) /\ AllAbove(m, Tail(s))
         /\ Tail(s) # <<>> => Tail(s)[Len(Tail(s))] = s[Len(s)]
         /\ Tail(s) = <<>> => Head(s) = s[Len(s)]
         /\ \A i \in DOMAIN Tail(s) : \E j \in DOMAIN s : Tail(s)[i] = s[j]
<1>1. /\ Tail(s) \in Seq(Nat) /\ Len(Tail(s)) = Len(s) - 1 /\ Len(s) \in Nat \ {0}
      /\ DOMAIN Tail(s) = 1..Len(s) - 1 /\ DOMAIN s = 1..Len(s)
      /\ \A i \in 1..Len(s) - 1 : Tail(s)[i] = s[i + 1] /\ i + 1 \in 1..Len(s)
  BY HeadTailProperties
<1>2. Head(s) = s[1] /\ \A i \in 1..Len(s) : s[i] \in Nat
  OBVIOUS
<1>3. Increasing(Tail(s))
  BY <1>1 DEF Increasing
<1>4. AllAbove(Head(s), Tail(s))
  BY <1>1, <1>2 DEF Increasing, AllAbove
<1>5. \A m \in Int : AllAbove(m, s) => m < Head(s) /\ AllAbove(m, Tail(s))
  BY <1>1, <1>2 DEF AllAbove
<1>6. Tail(s) # <<>> => Tail(s)[Len(Tail(s))] = s[Len(s)]
  BY <1>1
<1>7. ASSUME Tail(s) = <<>> PROVE Head(s) = s[Len(s)]
  <2>1. Len(<<>>) = 0
    BY EmptySeq
  <2>2. Len(s) - 1 = 0 /\ Len(s) \in Nat
    BY <1>1, <1>7, <2>1
  <2>3. Len(s) = 1
    BY <2>2
  <2> QED
    BY <1>2, <2>3
<1>8. \A i \in DOMAIN Tail(s) : \E j \in DOMAIN s : Tail(s)[i] = s[j]
  BY <1>1
<1> QED
  BY <1>1, <1>2, <1>3, <1>4, <1>5, <1>6, <1>7, <1>8

(* A number above all others keeps the sequence increasing at its end. *)
LEMMA IncreasingAppend ==
  ASSUME NEW s \in Seq(Nat), Increasing(s), NEW n \in Nat, \A i \in DOMAIN s : s[i] < n
  PROVE  /\ Append(s, n) \in Seq(Nat) /\ Append(s, n) # <<>> /\ Len(Append(s, n)) = Len(s) + 1
         /\ Increasing(Append(s, n)) /\ Append(s, n)[Len(Append(s, n))] = n
         /\ \A i \in DOMAIN Append(s, n) : Append(s, n)[i] <= n
         /\ \A m \in Int : AllAbove(m, s) /\ m < n => AllAbove(m, Append(s, n))
         /\ \A i \in DOMAIN Append(s, n) : Append(s, n)[i] = n \/ \E j \in DOMAIN s : Append(s, n)[i] = s[j]
<1> DEFINE t == Append(s, n)
<1>a. /\ t \in Seq(Nat) /\ t # <<>> /\ Len(t) = Len(s) + 1
      /\ \A i \in 1..Len(s) : t[i] = s[i]
      /\ t[Len(s) + 1] = n
  BY AppendProperties
<1>b. DOMAIN t = 1..Len(t) /\ DOMAIN s = 1..Len(s) /\ Len(s) \in Nat /\ \A i \in 1..Len(s) : s[i] \in Nat
  BY <1>a, LenProperties
<1>1. /\ Append(s, n) \in Seq(Nat) /\ Append(s, n) # <<>>
      /\ DOMAIN Append(s, n) = 1..Len(s) + 1 /\ Len(Append(s, n)) = Len(s) + 1
      /\ DOMAIN s = 1..Len(s) /\ Len(s) \in Nat
      /\ \A i \in 1..Len(s) : Append(s, n)[i] = s[i] /\ s[i] \in Nat
      /\ Append(s, n)[Len(s) + 1] = n
  BY <1>a, <1>b
<1>2. \A i \in 1..Len(s) + 1 : i = Len(s) + 1 \/ i \in 1..Len(s)
  BY <1>1
<1>3. Increasing(Append(s, n))
  BY <1>1, <1>2 DEF Increasing
<1>4. \A m \in Int : AllAbove(m, s) /\ m < n => AllAbove(m, Append(s, n))
  BY <1>1, <1>2 DEF AllAbove
<1> QED
  BY <1>1, <1>2, <1>3, <1>4

(* Recursion: a function by steps from a first value, each from the one before. *)
StepsFrom(f, first, step, m, D) ==
  /\ f \in [0..m -> D] /\ f[0] = first
  /\ \A n \in 1..m : f[n] = step[n][f[n - 1]]

LEMMA RecursionExists ==
  ASSUME NEW D, NEW first \in D, NEW N \in Nat, NEW step \in [1..N -> [D -> D]]
  PROVE  \E f : StepsFrom(f, first, step, N, D)
<1> DEFINE G == {m \in Nat : m <= N => \E f : StepsFrom(f, first, step, m, D)}
<1>1. 0 \in G
  <2> DEFINE z == [n \in 0..0 |-> first]
  <2>1. z \in [0..0 -> D] /\ z[0] = first
    OBVIOUS
  <2> HIDE DEF z
  <2>2. StepsFrom(z, first, step, 0, D)
    BY <2>1 DEF StepsFrom
  <2> QED
    BY <2>2
<1>2. ASSUME NEW m \in Nat, m \in G PROVE m + 1 \in G
  <2>0. SUFFICES ASSUME m + 1 <= N PROVE \E f : StepsFrom(f, first, step, m + 1, D)
    BY DEF G
  <2>a. m <= N
    BY <2>0
  <2>1. PICK f : StepsFrom(f, first, step, m, D)
    BY <1>2, <2>a DEF G
  <2>2. f \in [0..m -> D] /\ f[0] = first /\ \A n \in 1..m : f[n] = step[n][f[n - 1]]
    BY <2>1 DEF StepsFrom
  <2>3. m + 1 \in 1..N /\ f[m] \in D
    BY <2>0, <2>2
  <2>4. PICK v \in D : v = step[m + 1][f[m]]
    BY <2>3
  <2> DEFINE g == [n \in 0..m + 1 |-> IF n = m + 1 THEN v ELSE f[n]]
  <2>5. g \in [0..m + 1 -> D] /\ g[m + 1] = v /\ \A n \in 0..m : g[n] = f[n]
    <3>1. \A n \in 0..m + 1 : n = m + 1 \/ (n \in 0..m /\ n # m + 1)
      OBVIOUS
    <3>2. \A n \in 0..m : n \in 0..m + 1 /\ n # m + 1
      OBVIOUS
    <3> QED
      BY <2>2, <3>1, <3>2
  <2> HIDE DEF g
  <2>6. \A n \in 1..m : g[n] = f[n] /\ g[n - 1] = f[n - 1]
    BY <2>5
  <2>7. g[0] = first /\ g[m] = f[m]
    BY <2>2, <2>5
  <2>8. \A n \in 1..m + 1 : n = m + 1 \/ n \in 1..m
    OBVIOUS
  <2>9. (m + 1) - 1 = m
    OBVIOUS
  <2>10. ASSUME NEW n \in 1..m + 1 PROVE g[n] = step[n][g[n - 1]]
    <3>1. CASE n = m + 1
      BY <2>4, <2>5, <2>7, <2>9, <3>1
    <3>2. CASE n \in 1..m
      BY <2>2, <2>6, <3>2
    <3> QED
      BY <2>8, <3>1, <3>2
  <2>11. StepsFrom(g, first, step, m + 1, D)
    BY <2>5, <2>7, <2>10 DEF StepsFrom
  <2> QED
    BY <2>11
<1> HIDE DEF G
<1>3. N \in G
  BY <1>1, <1>2, NatInd
<1> QED
  BY <1>3 DEF G

(* The steps by which Selected goes through a sequence. *)
LEMMA SelectedIs ==
  ASSUME NEW T, NEW s \in Seq(T), NEW S
  PROVE  \E f : /\ f \in [0..Len(s) -> Seq(T)] /\ f[0] = <<>> /\ f[Len(s)] = Selected(s, S)
                /\ \A n \in 1..Len(s) : f[n] = IF s[n] \in S THEN Append(f[n - 1], s[n]) ELSE f[n - 1]
<1> DEFINE Q == Seq(T)
           next(n, t) == IF s[n] \in S THEN Append(t, s[n]) ELSE t
           step == [n \in 1..Len(s) |-> [t \in Q |-> next(n, t)]]
           P(f) == f = [n \in 0..Len(s) |-> IF n = 0 THEN <<>>
                                            ELSE IF s[n] \in S THEN Append(f[n - 1], s[n]) ELSE f[n - 1]]
<1>1. Len(s) \in Nat /\ \A n \in 1..Len(s) : s[n] \in T
  OBVIOUS
<1>2. \A n \in 1..Len(s), t \in Q : next(n, t) \in Q
  BY <1>1, AppendProperties
<1>q. <<>> \in Q
  BY EmptySeq
<1> HIDE DEF Q, next
<1>3. step \in [1..Len(s) -> [Q -> Q]]
  BY <1>2
<1>4. \A n \in 1..Len(s), t \in Q : step[n][t] = next(n, t)
  OBVIOUS
<1> HIDE DEF step
<1>5. \E f : StepsFrom(f, <<>>, step, Len(s), Q)
  BY <1>1, <1>3, <1>q, RecursionExists
<1>6. ASSUME NEW f, StepsFrom(f, <<>>, step, Len(s), Q) PROVE P(f)
  <2>1. f \in [0..Len(s) -> Q] /\ f[0] = <<>> /\ \A n \in 1..Len(s) : f[n] = step[n][f[n - 1]]
    BY <1>6 DEF StepsFrom
  <2>2. \A n \in 1..Len(s) : n # 0 /\ f[n - 1] \in Q
    BY <1>1, <2>1
  <2>3. \A n \in 1..Len(s) : f[n] = next(n, f[n - 1])
    BY <1>4, <2>1, <2>2
  <2>4. \A n \in 0..Len(s) : n = 0 \/ n \in 1..Len(s)
    BY <1>1
  <2>5. \A n \in 0..Len(s) : f[n] = IF n = 0 THEN <<>>
                                    ELSE IF s[n] \in S THEN Append(f[n - 1], s[n]) ELSE f[n - 1]
    BY <2>1, <2>2, <2>3, <2>4 DEF next
  <2>6. f = [n \in 0..Len(s) |-> f[n]]
    BY <2>1
  <2> QED
    BY <2>5, <2>6
<1>7. PICK up : up = CHOOSE f : P(f)
  OBVIOUS
<1>8. P(up)
  <2>1. \E f : P(f)
    BY <1>5, <1>6
  <2> HIDE DEF P
  <2> QED
    BY <1>7, <2>1
<1>9. Selected(s, S) = up[Len(s)]
  BY <1>7 DEF Selected
<1>10. /\ up[0] = <<>>
       /\ \A n \in 1..Len(s) : up[n] = IF s[n] \in S THEN Append(up[n - 1], s[n]) ELSE up[n - 1]
  <2>1. \A n \in 0..Len(s) : up[n] = IF n = 0 THEN <<>>
                                     ELSE IF s[n] \in S THEN Append(up[n - 1], s[n]) ELSE up[n - 1]
    BY <1>8
  <2>2. \A n \in 1..Len(s) : n \in 0..Len(s) /\ n # 0
    BY <1>1
  <2>3. 0 \in 0..Len(s)
    BY <1>1
  <2> QED
    BY <2>1, <2>2, <2>3
<1>11. \A n \in 0..Len(s) : up[n] \in Q
  <2> DEFINE G == {n \in Nat : n <= Len(s) => up[n] \in Q}
  <2>1. 0 \in G
    BY <1>q, <1>10
  <2>2. ASSUME NEW n \in Nat, n \in G PROVE n + 1 \in G
    <3>1. SUFFICES ASSUME n + 1 <= Len(s) PROVE up[n + 1] \in Q
      OBVIOUS
    <3>2. n <= Len(s) /\ n + 1 \in 1..Len(s) /\ (n + 1) - 1 = n
      BY <1>1, <3>1
    <3>3. up[n] \in Q
      BY <2>2, <3>2
    <3>4. up[n + 1] = next(n + 1, up[n])
      BY <1>10, <3>2 DEF next
    <3> QED
      BY <1>2, <3>2, <3>3, <3>4
  <2> HIDE DEF G
  <2>3. Nat \subseteq G
    BY <2>1, <2>2, NatInd
  <2> QED
    BY <1>1, <2>3 DEF G
<1>12. up \in [0..Len(s) -> Q]
  BY <1>8, <1>11
<1> QED
  BY <1>9, <1>10, <1>12 DEF Q

(* What is selected: elements of the sequence, those in the set and no others,  *)
(* in their order.                                                              *)
LEMMA SelectedFacts ==
  ASSUME NEW T, NEW s \in Seq(T), NEW S
  PROVE  /\ Selected(s, S) \in Seq(T)
         /\ \E at \in [DOMAIN Selected(s, S) -> DOMAIN s] :
              /\ \A i \in DOMAIN Selected(s, S) : Selected(s, S)[i] = s[at[i]] /\ s[at[i]] \in S
              /\ \A i, j \in DOMAIN Selected(s, S) : i < j => at[i] < at[j]
              /\ \A k \in DOMAIN s : s[k] \in S => \E i \in DOMAIN Selected(s, S) : at[i] = k
<1>0. Len(s) \in Nat /\ DOMAIN s = 1..Len(s) /\ \A n \in 1..Len(s) : s[n] \in T
  OBVIOUS
<1>1. PICK up : /\ up \in [0..Len(s) -> Seq(T)] /\ up[0] = <<>> /\ up[Len(s)] = Selected(s, S)
                /\ \A n \in 1..Len(s) : up[n] = IF s[n] \in S THEN Append(up[n - 1], s[n]) ELSE up[n - 1]
  BY SelectedIs
<1> DEFINE Embeds(at, n) ==
             /\ at \in [DOMAIN up[n] -> 1..n]
             /\ \A i \in DOMAIN up[n] : up[n][i] = s[at[i]] /\ s[at[i]] \in S
             /\ \A i, j \in DOMAIN up[n] : i < j => at[i] < at[j]
             /\ \A k \in 1..n : s[k] \in S => \E i \in DOMAIN up[n] : at[i] = k
           G == {n \in Nat : n <= Len(s) => \E at : Embeds(at, n)}
<1>2. 0 \in G
  <2>1. DOMAIN up[0] = {} /\ 1..0 = {}
    BY <1>1
  <2> DEFINE z == [i \in DOMAIN up[0] |-> 0]
  <2>2. z \in [DOMAIN up[0] -> 1..0]
    BY <2>1
  <2>3. Embeds(z, 0)
    BY <2>1, <2>2
  <2> HIDE DEF Embeds
  <2> QED
    BY <2>3
<1>3. ASSUME NEW n \in Nat, n \in G PROVE n + 1 \in G
  <2>1. SUFFICES ASSUME n + 1 <= Len(s) PROVE \E at : Embeds(at, n + 1)
    OBVIOUS
  <2>2. n <= Len(s) /\ n \in 0..Len(s) /\ n + 1 \in 1..Len(s) /\ (n + 1) - 1 = n
    BY <1>0, <2>1
  <2>3. PICK at : Embeds(at, n)
    <3> HIDE DEF Embeds
    <3> QED
      BY <1>3, <2>2
  <2>4. up[n] \in Seq(T) /\ s[n + 1] \in T
    BY <1>0, <1>1, <2>2
  <2>5. up[n + 1] = IF s[n + 1] \in S THEN Append(up[n], s[n + 1]) ELSE up[n]
    BY <1>1, <2>2
  <2>6. \A k \in 1..n + 1 : k = n + 1 \/ k \in 1..n
    OBVIOUS
  <2>7. at \in [DOMAIN up[n] -> 1..n + 1] /\ \A i \in DOMAIN up[n] : at[i] \in 1..n /\ at[i] < n + 1
    BY <2>3
  <2>8. CASE s[n + 1] \notin S
    <3>1. up[n + 1] = up[n]
      BY <2>5, <2>8
    <3>2. Embeds(at, n + 1)
      BY <2>3, <2>6, <2>7, <2>8, <3>1
    <3> HIDE DEF Embeds
    <3> QED
      BY <3>2
  <2>9. CASE s[n + 1] \in S
    <3>1. PICK m \in Nat : m = Len(up[n])
      BY <2>4
    <3>2. DOMAIN up[n] = 1..m
      BY <2>4, <3>1
    <3>3. up[n + 1] = Append(up[n], s[n + 1])
      BY <2>5, <2>9
    <3>4. /\ DOMAIN up[n + 1] = 1..m + 1 /\ up[n + 1][m + 1] = s[n + 1]
          /\ \A i \in 1..m : up[n + 1][i] = up[n][i]
      BY <2>4, <3>1, <3>3, AppendProperties
    <3> DEFINE to == [i \in 1..m + 1 |-> IF i = m + 1 THEN n + 1 ELSE at[i]]
    <3>5. \A i \in 1..m + 1 : i = m + 1 \/ (i \in 1..m /\ i # m + 1)
      OBVIOUS
    <3>6. \A i \in 1..m : i \in 1..m + 1 /\ i # m + 1
      OBVIOUS
    <3>7. to \in [1..m + 1 -> 1..n + 1] /\ to[m + 1] = n + 1 /\ \A i \in 1..m : to[i] = at[i]
      BY <2>7, <3>2, <3>5, <3>6
    <3> HIDE DEF to
    <3>8. \A i \in 1..m + 1 : up[n + 1][i] = s[to[i]] /\ s[to[i]] \in S
      BY <2>3, <2>9, <3>2, <3>4, <3>5, <3>7
    <3>9. ASSUME NEW i \in 1..m + 1, NEW j \in 1..m + 1, i < j PROVE to[i] < to[j]
      <4>1. i \in 1..m
        BY <3>9
      <4>2. to[i] = at[i] /\ at[i] \in 1..n /\ at[i] < n + 1
        BY <2>7, <3>2, <3>7, <4>1
      <4>3. CASE j = m + 1
        BY <3>7, <4>2, <4>3
      <4>4. CASE j \in 1..m
        <5>1. at[i] < at[j]
          BY <2>3, <3>2, <3>9, <4>1, <4>4
        <5> QED
          BY <3>7, <4>2, <4>4, <5>1
      <4> QED
        BY <3>5, <4>3, <4>4
    <3>10. \A k \in 1..n + 1 : s[k] \in S => \E i \in 1..m + 1 : to[i] = k
      BY <2>3, <2>6, <3>2, <3>6, <3>7
    <3>11. Embeds(to, n + 1)
      BY <3>4, <3>7, <3>8, <3>9, <3>10
    <3> HIDE DEF Embeds
    <3> QED
      BY <3>11
  <2> QED
    BY <2>8, <2>9
<1> HIDE DEF G
<1>4. Nat \subseteq G
  BY <1>2, <1>3, NatInd
<1>5. PICK at : Embeds(at, Len(s))
  <2> HIDE DEF Embeds
  <2> QED
    BY <1>0, <1>4 DEF G
<1>6. Selected(s, S) \in Seq(T)
  BY <1>0, <1>1
<1> QED
  BY <1>0, <1>1, <1>5, <1>6

(* The steps by which Joined goes through the sequences. *)
LEMMA JoinedIs ==
  ASSUME NEW T, NEW ss \in Seq(Seq(T))
  PROVE  \E f : /\ f \in [0..Len(ss) -> Seq(T)] /\ f[0] = <<>> /\ f[Len(ss)] = Joined(ss)
                /\ \A n \in 1..Len(ss) : f[n] = f[n - 1] \o ss[n]
<1> DEFINE Q == Seq(T)
           next(n, t) == t \o ss[n]
           step == [n \in 1..Len(ss) |-> [t \in Q |-> next(n, t)]]
           P(f) == f = [n \in 0..Len(ss) |-> IF n = 0 THEN <<>> ELSE f[n - 1] \o ss[n]]
<1>1. Len(ss) \in Nat /\ \A n \in 1..Len(ss) : ss[n] \in Q
  OBVIOUS
<1>2. \A n \in 1..Len(ss), t \in Q : next(n, t) \in Q
  BY <1>1, ConcatProperties
<1>q. <<>> \in Q
  BY EmptySeq
<1> HIDE DEF Q, next
<1>3. step \in [1..Len(ss) -> [Q -> Q]]
  BY <1>2
<1>4. \A n \in 1..Len(ss), t \in Q : step[n][t] = next(n, t)
  OBVIOUS
<1> HIDE DEF step
<1>5. \E f : StepsFrom(f, <<>>, step, Len(ss), Q)
  BY <1>1, <1>3, <1>q, RecursionExists
<1>6. ASSUME NEW f, StepsFrom(f, <<>>, step, Len(ss), Q) PROVE P(f)
  <2>1. f \in [0..Len(ss) -> Q] /\ f[0] = <<>> /\ \A n \in 1..Len(ss) : f[n] = step[n][f[n - 1]]
    BY <1>6 DEF StepsFrom
  <2>2. \A n \in 1..Len(ss) : n # 0 /\ f[n - 1] \in Q
    BY <1>1, <2>1
  <2>3. \A n \in 1..Len(ss) : f[n] = next(n, f[n - 1])
    BY <1>4, <2>1, <2>2
  <2>4. \A n \in 0..Len(ss) : n = 0 \/ n \in 1..Len(ss)
    BY <1>1
  <2>5. \A n \in 0..Len(ss) : f[n] = IF n = 0 THEN <<>> ELSE f[n - 1] \o ss[n]
    BY <2>1, <2>2, <2>3, <2>4 DEF next
  <2>6. f = [n \in 0..Len(ss) |-> f[n]]
    BY <2>1
  <2> QED
    BY <2>5, <2>6
<1>7. PICK up : up = CHOOSE f : P(f)
  OBVIOUS
<1>8. P(up)
  <2>1. \E f : P(f)
    BY <1>5, <1>6
  <2> HIDE DEF P
  <2> QED
    BY <1>7, <2>1
<1>9. Joined(ss) = up[Len(ss)]
  BY <1>7 DEF Joined
<1>10. up[0] = <<>> /\ \A n \in 1..Len(ss) : up[n] = up[n - 1] \o ss[n]
  <2>1. \A n \in 0..Len(ss) : up[n] = IF n = 0 THEN <<>> ELSE up[n - 1] \o ss[n]
    BY <1>8
  <2>2. \A n \in 1..Len(ss) : n \in 0..Len(ss) /\ n # 0
    BY <1>1
  <2>3. 0 \in 0..Len(ss)
    BY <1>1
  <2> QED
    BY <2>1, <2>2, <2>3
<1>11. \A n \in 0..Len(ss) : up[n] \in Q
  <2> DEFINE G == {n \in Nat : n <= Len(ss) => up[n] \in Q}
  <2>1. 0 \in G
    BY <1>q, <1>10
  <2>2. ASSUME NEW n \in Nat, n \in G PROVE n + 1 \in G
    <3>1. SUFFICES ASSUME n + 1 <= Len(ss) PROVE up[n + 1] \in Q
      OBVIOUS
    <3>2. n <= Len(ss) /\ n + 1 \in 1..Len(ss) /\ (n + 1) - 1 = n
      BY <1>1, <3>1
    <3>3. up[n] \in Q
      BY <2>2, <3>2
    <3>4. up[n + 1] = next(n + 1, up[n])
      BY <1>10, <3>2 DEF next
    <3> QED
      BY <1>2, <3>2, <3>3, <3>4
  <2> HIDE DEF G
  <2>3. Nat \subseteq G
    BY <2>1, <2>2, NatInd
  <2> QED
    BY <1>1, <2>3 DEF G
<1>12. up \in [0..Len(ss) -> Q]
  BY <1>8, <1>11
<1> QED
  BY <1>9, <1>10, <1>12 DEF Q

(* What is joined: each element of each sequence, once. The i-th element of out  *)
(* is that in col[i] of the sequence row[i].                                    *)
JoinedBy(out, ss, row, col) ==
  /\ row \in [DOMAIN out -> Nat] /\ col \in [DOMAIN out -> Nat]
  /\ \A i \in DOMAIN out : row[i] \in DOMAIN ss /\ col[i] \in DOMAIN ss[row[i]] /\ out[i] = ss[row[i]][col[i]]
  /\ \A i, j \in DOMAIN out : row[i] = row[j] /\ col[i] = col[j] => i = j
  /\ \A k \in DOMAIN ss : \A m \in DOMAIN ss[k] : \E i \in DOMAIN out : row[i] = k /\ col[i] = m

LEMMA JoinedFacts ==
  ASSUME NEW T, NEW ss \in Seq(Seq(T))
  PROVE  Joined(ss) \in Seq(T) /\ \E row, col : JoinedBy(Joined(ss), ss, row, col)
<1>0. /\ Len(ss) \in Nat /\ DOMAIN ss = 1..Len(ss)
      /\ \A n \in 1..Len(ss) : ss[n] \in Seq(T) /\ Len(ss[n]) \in Nat /\ DOMAIN ss[n] = 1..Len(ss[n])
  OBVIOUS
<1>1. PICK up : /\ up \in [0..Len(ss) -> Seq(T)] /\ up[0] = <<>> /\ up[Len(ss)] = Joined(ss)
                /\ \A n \in 1..Len(ss) : up[n] = up[n - 1] \o ss[n]
  BY JoinedIs
<1> DEFINE Types(row, col, n) == row \in [DOMAIN up[n] -> Nat] /\ col \in [DOMAIN up[n] -> Nat]
           From(row, col, n) ==
             \A i \in DOMAIN up[n] :
               row[i] \in 1..n /\ col[i] \in DOMAIN ss[row[i]] /\ up[n][i] = ss[row[i]][col[i]]
           Once(row, col, n) == \A i, j \in DOMAIN up[n] : row[i] = row[j] /\ col[i] = col[j] => i = j
           All(row, col, n) == \A k \in 1..n : \A m \in DOMAIN ss[k] : \E i \in DOMAIN up[n] : row[i] = k /\ col[i] = m
           Embeds(row, col, n) == Types(row, col, n) /\ From(row, col, n) /\ Once(row, col, n) /\ All(row, col, n)
           G == {n \in Nat : n <= Len(ss) => \E row, col : Embeds(row, col, n)}
<1>2. 0 \in G
  <2>1. DOMAIN up[0] = {} /\ 1..0 = {}
    BY <1>1
  <2> DEFINE z == [i \in DOMAIN up[0] |-> 0]
  <2>2. z \in [DOMAIN up[0] -> Nat]
    BY <2>1
  <2>3. Embeds(z, z, 0)
    BY <2>1, <2>2
  <2> HIDE DEF Embeds
  <2> QED
    BY <2>3
<1>3. ASSUME NEW n \in Nat, n \in G PROVE n + 1 \in G
  <2> HIDE DEF Embeds
  <2>1. SUFFICES ASSUME n + 1 <= Len(ss) PROVE \E row, col : Embeds(row, col, n + 1)
    BY DEF G
  <2>2. n <= Len(ss) /\ n \in 0..Len(ss) /\ n + 1 \in 1..Len(ss) /\ (n + 1) - 1 = n
    BY <1>0, <2>1
  <2>3. PICK row, col : Embeds(row, col, n)
    BY <1>3, <2>2
  <2>4. up[n] \in Seq(T) /\ ss[n + 1] \in Seq(T)
    BY <1>0, <1>1, <2>2
  <2>5. PICK a, b \in Nat : a = Len(up[n]) /\ b = Len(ss[n + 1])
    BY <2>4
  <2>6. DOMAIN up[n] = 1..a /\ DOMAIN ss[n + 1] = 1..b
    BY <2>4, <2>5
  <2>e. /\ row \in [1..a -> Nat] /\ col \in [1..a -> Nat]
        /\ \A i \in 1..a : row[i] \in 1..n /\ col[i] \in DOMAIN ss[row[i]] /\ up[n][i] = ss[row[i]][col[i]]
        /\ \A i, j \in 1..a : row[i] = row[j] /\ col[i] = col[j] => i = j
        /\ \A k \in 1..n : \A m \in DOMAIN ss[k] : \E i \in 1..a : row[i] = k /\ col[i] = m
    <3>1. Types(row, col, n) /\ From(row, col, n) /\ Once(row, col, n) /\ All(row, col, n)
      BY <2>3 DEF Embeds
    <3>2. row \in [1..a -> Nat] /\ col \in [1..a -> Nat]
      BY <2>6, <3>1
    <3>3. \A i \in 1..a : row[i] \in 1..n /\ col[i] \in DOMAIN ss[row[i]] /\ up[n][i] = ss[row[i]][col[i]]
      BY <2>6, <3>1
    <3>4. \A i, j \in 1..a : row[i] = row[j] /\ col[i] = col[j] => i = j
      BY <2>6, <3>1
    <3>5. \A k \in 1..n : \A m \in DOMAIN ss[k] : \E i \in 1..a : row[i] = k /\ col[i] = m
      BY <2>6, <3>1
    <3> QED
      BY <3>2, <3>3, <3>4, <3>5
  <2>7. up[n + 1] = up[n] \o ss[n + 1]
    BY <1>1, <2>2
  <2>8. /\ DOMAIN up[n + 1] = 1..a + b
        /\ \A i \in 1..a : up[n + 1][i] = up[n][i]
        /\ \A i \in 1..b : up[n + 1][a + i] = ss[n + 1][i]
    <3>1. PICK s, t \in Seq(T) : s = up[n] /\ t = ss[n + 1]
      BY <2>4
    <3>2. Len(s) = a /\ Len(t) = b
      BY <2>5, <3>1
    <3>3. /\ s \o t \in Seq(T) /\ Len(s \o t) = a + b
          /\ \A i \in 1..a + b : (s \o t)[i] = IF i <= a THEN s[i] ELSE t[i - a]
      BY <3>2, ConcatProperties
    <3>4. \A i \in 1..b : a + i \in 1..a + b /\ ~(a + i <= a) /\ (a + i) - a = i
      OBVIOUS
    <3>5. \A i \in 1..a : i \in 1..a + b /\ i <= a
      OBVIOUS
    <3>6. DOMAIN (s \o t) = 1..a + b
      BY <3>3
    <3> QED
      BY <2>7, <3>1, <3>3, <3>4, <3>5, <3>6
  <2> DEFINE r == [i \in 1..a + b |-> IF i <= a THEN row[i] ELSE n + 1]
             c == [i \in 1..a + b |-> IF i <= a THEN col[i] ELSE i - a]
  <2>9. \A i \in 1..a + b : (i \in 1..a /\ i <= a) \/ (i - a \in 1..b /\ ~(i <= a) /\ a + (i - a) = i)
    OBVIOUS
  <2>10. \A i \in 1..a : i \in 1..a + b /\ i <= a /\ row[i] \in 1..n /\ row[i] # n + 1 /\ col[i] \in Nat
    BY <2>e
  <2>11. /\ r \in [1..a + b -> Nat] /\ c \in [1..a + b -> Nat]
         /\ \A i \in 1..a : r[i] = row[i] /\ c[i] = col[i]
         /\ \A i \in 1..a + b : i - a \in 1..b => r[i] = n + 1 /\ c[i] = i - a
    BY <2>9, <2>10
  <2> HIDE DEF r, c
  <2>12. \A i \in 1..a + b : r[i] \in 1..n + 1 /\ c[i] \in DOMAIN ss[r[i]] /\ up[n + 1][i] = ss[r[i]][c[i]]
    <3> TAKE i \in 1..a + b
    <3>1. CASE i \in 1..a
      <4>1. r[i] = row[i] /\ c[i] = col[i] /\ row[i] \in 1..n + 1
        BY <2>e, <2>11, <3>1
      <4>2. up[n + 1][i] = up[n][i]
        BY <2>8, <3>1
      <4> QED
        BY <2>e, <3>1, <4>1, <4>2
    <3>2. CASE i - a \in 1..b
      <4>1. i - a \in DOMAIN ss[n + 1] /\ a + (i - a) = i
        BY <2>6, <3>2
      <4>2. up[n + 1][i] = ss[n + 1][i - a]
        BY <2>8, <3>2, <4>1
      <4> QED
        BY <2>9, <2>11, <3>2, <4>1, <4>2
    <3> QED
      BY <2>9, <3>1, <3>2
  <2>13. ASSUME NEW i \in 1..a + b, NEW j \in 1..a + b, r[i] = r[j], c[i] = c[j] PROVE i = j
    <3>1. CASE i \in 1..a /\ j \in 1..a
      BY <2>e, <2>11, <2>13, <3>1
    <3>2. CASE i - a \in 1..b /\ j - a \in 1..b
      BY <2>11, <2>13, <3>2
    <3>3. CASE i \in 1..a /\ j - a \in 1..b
      BY <2>10, <2>11, <2>13, <3>3
    <3>4. CASE i - a \in 1..b /\ j \in 1..a
      BY <2>10, <2>11, <2>13, <3>4
    <3> QED
      BY <2>9, <3>1, <3>2, <3>3, <3>4
  <2>14. ASSUME NEW k \in 1..n + 1, NEW m \in DOMAIN ss[k] PROVE \E i \in 1..a + b : r[i] = k /\ c[i] = m
    <3>1. CASE k = n + 1
      <4>1. m \in 1..b
        BY <2>6, <2>14, <3>1
      <4>2. a + m \in 1..a + b /\ (a + m) - a = m
        BY <4>1
      <4> QED
        BY <2>11, <3>1, <4>1, <4>2
    <3>2. CASE k \in 1..n
      BY <2>e, <2>10, <2>11, <2>14, <3>2
    <3>3. k = n + 1 \/ k \in 1..n
      OBVIOUS
    <3> QED
      BY <3>1, <3>2, <3>3
  <2>15. Embeds(r, c, n + 1)
    <3>1. DOMAIN up[n + 1] = 1..a + b
      BY <2>8
    <3>2. Types(r, c, n + 1)
      BY <2>11, <3>1
    <3>3. From(r, c, n + 1)
      BY <2>12, <3>1
    <3>4. Once(r, c, n + 1)
      BY <2>13, <3>1
    <3>5. All(r, c, n + 1)
      <4> SUFFICES ASSUME NEW k \in 1..n + 1, NEW m \in DOMAIN ss[k]
                   PROVE  \E i \in DOMAIN up[n + 1] : r[i] = k /\ c[i] = m
        OBVIOUS
      <4>1. PICK i \in 1..a + b : r[i] = k /\ c[i] = m
        BY <2>14
      <4> QED
        BY <3>1, <4>1
    <3> QED
      BY <3>2, <3>3, <3>4, <3>5 DEF Embeds
  <2> QED
    BY <2>15
<1> HIDE DEF G
<1>4. Nat \subseteq G
  BY <1>2, <1>3, NatInd
<1>5. PICK row, col : Embeds(row, col, Len(ss))
  <2> HIDE DEF Embeds
  <2> QED
    BY <1>0, <1>4 DEF G
<1>6. Joined(ss) \in Seq(T)
  BY <1>0, <1>1
<1>7. up[Len(ss)] = Joined(ss)
  BY <1>1
<1>8. /\ Types(row, col, Len(ss)) /\ From(row, col, Len(ss))
      /\ Once(row, col, Len(ss)) /\ All(row, col, Len(ss))
  BY <1>5
<1>9. /\ row \in [DOMAIN Joined(ss) -> Nat] /\ col \in [DOMAIN Joined(ss) -> Nat]
      /\ \A i \in DOMAIN Joined(ss) :
           row[i] \in DOMAIN ss /\ col[i] \in DOMAIN ss[row[i]] /\ Joined(ss)[i] = ss[row[i]][col[i]]
  BY <1>0, <1>7, <1>8
<1>10. /\ \A i, j \in DOMAIN Joined(ss) : row[i] = row[j] /\ col[i] = col[j] => i = j
       /\ \A k \in DOMAIN ss : \A m \in DOMAIN ss[k] : \E i \in DOMAIN Joined(ss) : row[i] = k /\ col[i] = m
  BY <1>0, <1>7, <1>8
<1> HIDE DEF Types, From, Once, All, Embeds
<1>11. JoinedBy(Joined(ss), ss, row, col)
  BY <1>9, <1>10, Zenon DEF JoinedBy
<1> QED
  BY <1>6, <1>11

(* How many elements of a sequence are in a set. *)
CountIn(s, S) == Cardinality({i \in DOMAIN s : s[i] \in S})

LEMMA CountType ==
  ASSUME NEW T, NEW s \in Seq(T), NEW S
  PROVE  /\ IsFiniteSet({i \in DOMAIN s : s[i] \in S})
         /\ CountIn(s, S) \in Nat /\ CountIn(s, S) <= Len(s)
         /\ (CountIn(s, S) = 0 <=> \A i \in DOMAIN s : s[i] \notin S)
<1>1. Len(s) \in Nat /\ DOMAIN s = 1..Len(s)
  OBVIOUS
<1>2. IsFiniteSet(1..Len(s)) /\ Cardinality(1..Len(s)) = Len(s)
  BY <1>1, FS_Interval
<1>3. {i \in DOMAIN s : s[i] \in S} \in SUBSET (1..Len(s))
  BY <1>1
<1>4. IsFiniteSet({i \in DOMAIN s : s[i] \in S})
  BY <1>2, <1>3, FS_Subset
<1>5. Cardinality({i \in DOMAIN s : s[i] \in S}) <= Len(s)
  BY <1>2, <1>3, FS_Subset
<1>6. Cardinality({i \in DOMAIN s : s[i] \in S}) \in Nat
  BY <1>4, FS_CardinalityType
<1>7. Cardinality({i \in DOMAIN s : s[i] \in S}) = 0 <=> {i \in DOMAIN s : s[i] \in S} = {}
  BY <1>4, FS_EmptySet
<1> QED
  BY <1>4, <1>5, <1>6, <1>7 DEF CountIn

LEMMA CountConcat ==
  ASSUME NEW T, NEW s \in Seq(T), NEW t \in Seq(T), NEW S
  PROVE  CountIn(s \o t, S) = CountIn(s, S) + CountIn(t, S)
<1> DEFINE a == Len(s)
           b == Len(t)
           A == {i \in DOMAIN s : s[i] \in S}
           B == {i \in DOMAIN t : t[i] \in S}
           C == {i \in a + 1..a + b : t[i - a] \in S}
<1>1. a \in Nat /\ b \in Nat /\ DOMAIN s = 1..a /\ DOMAIN t = 1..b
  OBVIOUS
<1>2. /\ s \o t \in Seq(T) /\ Len(s \o t) = a + b
      /\ \A i \in 1..a + b : (s \o t)[i] = IF i <= a THEN s[i] ELSE t[i - a]
  BY ConcatProperties
<1>3. DOMAIN (s \o t) = 1..a + b
  BY <1>2
<1> HIDE DEF a, b
<1>4. {i \in DOMAIN (s \o t) : (s \o t)[i] \in S} = A \cup C
  <2>1. \A i \in 1..a + b : (i \in 1..a /\ i <= a /\ i \notin a + 1..a + b) \/ (i \in a + 1..a + b /\ ~(i <= a) /\ i \notin 1..a)
    BY <1>1
  <2>2. \A i \in 1..a : i \in 1..a + b
    BY <1>1
  <2>3. \A i \in a + 1..a + b : i \in 1..a + b
    BY <1>1
  <2> QED
    BY <1>1, <1>2, <1>3, <2>1, <2>2, <2>3
<1>5. IsFiniteSet(A) /\ IsFiniteSet(B) /\ Cardinality(A) \in Nat /\ Cardinality(B) \in Nat
  BY CountType DEF CountIn
<1>6. IsFiniteSet(C) /\ Cardinality(C) = Cardinality(B)
  <2> DEFINE f == [i \in B |-> i + a]
  <2>1. f \in [B -> C]
    BY <1>1
  <2>2. \A i, j \in B : f[i] = f[j] => i = j
    BY <1>1
  <2>3. \A k \in C : \E i \in B : f[i] = k
    <3> TAKE k \in C
    <3>1. k - a \in B /\ (k - a) + a = k
      BY <1>1
    <3> QED
      BY <3>1
  <2> HIDE DEF f, B, C
  <2>4. f \in Bijection(B, C)
    BY <2>1, <2>2, <2>3, Fun_IsBij
  <2>5. ExistsBijection(B, C)
    BY <2>4, Fun_ExistsBij
  <2> QED
    BY <1>5, <2>5, FS_Bijection
<1>7. A \cap C = {}
  BY <1>1
<1>8. Cardinality(A \cup C) = Cardinality(A) + Cardinality(C) - Cardinality(A \cap C)
  <2> HIDE DEF A, C
  <2> QED
    BY <1>5, <1>6, FS_Union
<1>9. Cardinality({}) = 0
  BY FS_EmptySet
<1>10. CountIn(s \o t, S) = Cardinality(A \cup C)
  BY <1>4 DEF CountIn
<1>11. CountIn(s, S) = Cardinality(A) /\ CountIn(t, S) = Cardinality(B)
  BY DEF CountIn
<1>12. Cardinality(A \cup C) = Cardinality(A) + Cardinality(B) - 0
  BY <1>6, <1>7, <1>8, <1>9
<1> HIDE DEF A, B, C
<1> QED
  BY <1>5, <1>10, <1>11, <1>12

LEMMA CountAppend ==
  ASSUME NEW T, NEW s \in Seq(T), NEW e \in T, NEW S
  PROVE  CountIn(Append(s, e), S) = CountIn(s, S) + (IF e \in S THEN 1 ELSE 0)
<1>1. Append(s, e) = s \o <<e>>
  BY AppendIsConcat
<1>a. <<e>> \in Seq(T)
  OBVIOUS
<1>b. PICK u \in Seq(T) : u = <<e>>
  BY <1>a
<1>c. CountIn(s \o u, S) = CountIn(s, S) + CountIn(u, S)
  BY CountConcat
<1>2. CountIn(Append(s, e), S) = CountIn(s, S) + CountIn(<<e>>, S)
  BY <1>1, <1>b, <1>c
<1>3. DOMAIN <<e>> = {1} /\ <<e>>[1] = e
  OBVIOUS
<1>4. {i \in DOMAIN <<e>> : <<e>>[i] \in S} = IF e \in S THEN {1} ELSE {}
  BY <1>3
<1>5. Cardinality({1}) = 1 /\ Cardinality({}) = 0
  BY FS_Singleton, FS_EmptySet
<1>6. CountIn(<<e>>, S) = IF e \in S THEN 1 ELSE 0
  BY <1>4, <1>5 DEF CountIn
<1> QED
  BY <1>2, <1>6

LEMMA SelectedCount ==
  ASSUME NEW T, NEW s \in Seq(T), NEW S
  PROVE  /\ Selected(s, S) \in Seq(T) /\ Len(Selected(s, S)) = CountIn(s, S)
         /\ \A i \in DOMAIN Selected(s, S) : Selected(s, S)[i] \in S
<1> DEFINE u == Selected(s, S)
           A == {i \in DOMAIN s : s[i] \in S}
<1>1. PICK at \in [DOMAIN u -> DOMAIN s] :
              /\ \A i \in DOMAIN u : u[i] = s[at[i]] /\ s[at[i]] \in S
              /\ \A i, j \in DOMAIN u : i < j => at[i] < at[j]
              /\ \A k \in DOMAIN s : s[k] \in S => \E i \in DOMAIN u : at[i] = k
  BY SelectedFacts
<1>2. u \in Seq(T)
  BY SelectedFacts
<1> HIDE DEF u
<1>3. Len(u) \in Nat /\ DOMAIN u = 1..Len(u) /\ DOMAIN s \subseteq Nat
  BY <1>2
<1>4. at \in [1..Len(u) -> A]
  BY <1>1, <1>3
<1>5. \A i, j \in 1..Len(u) : at[i] = at[j] => i = j
  <2> SUFFICES ASSUME NEW i \in 1..Len(u), NEW j \in 1..Len(u), at[i] = at[j], i # j PROVE FALSE
    OBVIOUS
  <2>1. at[i] \in Nat
    BY <1>1, <1>3
  <2>2. i < j \/ j < i
    OBVIOUS
  <2> QED
    BY <1>1, <1>3, <2>1, <2>2
<1>6. \A k \in A : \E i \in 1..Len(u) : at[i] = k
  BY <1>1, <1>3
<1> HIDE DEF A
<1>7. at \in Bijection(1..Len(u), A)
  BY <1>4, <1>5, <1>6, Fun_IsBij
<1>8. ExistsBijection(1..Len(u), A)
  BY <1>7, Fun_ExistsBij
<1>9. Cardinality(A) = Len(u)
  BY <1>3, <1>8, FS_CountingElements
<1> QED
  BY <1>1, <1>2, <1>9 DEF CountIn, A, u

(* A selection has no more of them than the sequence it is made from. *)
LEMMA SelectedWithin ==
  ASSUME NEW T, NEW s \in Seq(T), NEW S, NEW P
  PROVE  CountIn(Selected(s, S), P) \in Nat /\ CountIn(Selected(s, S), P) <= CountIn(s, P)
<1> DEFINE u == Selected(s, S)
           A == {k \in DOMAIN s : s[k] \in P}
           B == {i \in DOMAIN u : u[i] \in P}
<1>1. PICK at \in [DOMAIN u -> DOMAIN s] :
              /\ \A i \in DOMAIN u : u[i] = s[at[i]] /\ s[at[i]] \in S
              /\ \A i, j \in DOMAIN u : i < j => at[i] < at[j]
              /\ \A k \in DOMAIN s : s[k] \in S => \E i \in DOMAIN u : at[i] = k
  BY SelectedFacts
<1>2. u \in Seq(T)
  BY SelectedFacts
<1> HIDE DEF u
<1>3. Len(u) \in Nat /\ DOMAIN u = 1..Len(u) /\ DOMAIN s \subseteq Nat
  BY <1>2
<1>4. PICK g : g = [i \in B |-> at[i]]
  OBVIOUS
<1>5. g \in [B -> A]
  BY <1>1, <1>4
<1>6. \A i, j \in B : g[i] = g[j] => i = j
  <2> SUFFICES ASSUME NEW i \in B, NEW j \in B, g[i] = g[j], i # j PROVE FALSE
    OBVIOUS
  <2>1. i \in 1..Len(u) /\ j \in 1..Len(u) /\ at[i] = at[j] /\ at[i] \in Nat
    BY <1>1, <1>3, <1>4
  <2>2. i < j \/ j < i
    BY <2>1
  <2> QED
    BY <1>1, <1>3, <2>1, <2>2
<1>7. IsFiniteSet(A) /\ CountIn(s, P) = Cardinality(A) /\ CountIn(u, P) = Cardinality(B) /\ CountIn(u, P) \in Nat
  BY <1>2, CountType DEF CountIn
<1> HIDE DEF A, B
<1>8. g \in Injection(B, A)
  BY <1>5, <1>6, Fun_IsInj
<1>9. Cardinality(B) <= Cardinality(A)
  BY <1>7, <1>8, FS_Injection
<1> QED
  BY <1>7, <1>9 DEF u
====
