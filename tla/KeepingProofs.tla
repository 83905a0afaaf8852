------------------------------ MODULE KeepingProofs ------------------------------
(*****************************************************************************)
(* Induction over the natural numbers, stated for sets, and what it says of  *)
(* a filtered sequence.  The library's induction theorems take an operator,  *)
(* which the provers cannot instantiate; its theorem on minimal elements     *)
(* takes a set.                                                              *)
(*****************************************************************************)
EXTENDS Keeping, SequencesExt, WellFoundedInduction, SequenceTheorems, TLAPS

\* A set of natural numbers that is not empty has a least element.
LEMMA LeastElement ==
  ASSUME NEW T, T \subseteq Nat, T # {}
  PROVE  \E x \in T : \A y \in T : x <= y
<1> DEFINE Less == {p \in Nat \X Nat : p[1] < p[2]}
<1>1. \E x \in T : \A y \in T : ~ (<<y, x>> \in OpToRel(<, Nat))
  BY NatLessThanWellFounded, WFMin
<1>2. OpToRel(<, Nat) = Less
  BY DEF OpToRel
<1>3. PICK x \in T : \A y \in T : ~ (<<y, x>> \in Less)
  BY <1>1, <1>2
<1>4. ASSUME NEW y \in T
      PROVE  x <= y
  <2>1. <<y, x>> \in Nat \X Nat
    OBVIOUS
  <2>2. ~ (<<y, x>>[1] < <<y, x>>[2])
    BY <1>3, <2>1
  <2>3. QED
    BY <2>2
<1>5. QED
  BY <1>4

\* A set with zero and with the successor of each of its members has every natural
\* number.
LEMMA NatSetInduction ==
  ASSUME NEW T, 0 \in T, \A n \in T : n + 1 \in T
  PROVE  Nat \subseteq T
<1>1. SUFFICES ASSUME Nat \ T # {}
               PROVE  FALSE
  OBVIOUS
<1>2. PICK x \in Nat \ T : \A y \in Nat \ T : x <= y
  BY <1>1, LeastElement
<1>3. x # 0 /\ x - 1 \in Nat /\ x - 1 \notin Nat \ T
  BY <1>2
<1>4. x - 1 \in T /\ (x - 1) + 1 = x
  BY <1>2, <1>3
<1>5. QED
  BY <1>2, <1>4

-----------------------------------------------------------------------------
\* The recursion of Kept, as an equation for the function it defines.
KeptStep(s, T, f, m) ==
  IF m = 0 THEN <<>>
  ELSE IF s[m] \in T THEN Append(f[m - 1], s[m])
  ELSE f[m - 1]

\* The recursion defines a function, up to any length.
LEMMA KeptExists ==
  ASSUME NEW s, NEW T, NEW k \in Nat
  PROVE  \E f : f = [m \in 0..k |-> KeptStep(s, T, f, m)]
<1> DEFINE Solved == {n \in Nat : \E f : f = [m \in 0..n |-> KeptStep(s, T, f, m)]}
<1>1. 0 \in Solved
  <2>1. [m \in 0..0 |-> <<>>] = [m \in 0..0 |-> KeptStep(s, T, [i \in 0..0 |-> <<>>], m)]
    BY DEF KeptStep
  <2>2. QED
    BY <2>1
<1>2. ASSUME NEW n \in Solved
      PROVE  n + 1 \in Solved
  <2>1. n \in Nat
    OBVIOUS
  <2>2. PICK f : f = [m \in 0..n |-> KeptStep(s, T, f, m)]
    OBVIOUS
  <2> DEFINE g == [m \in 0..(n + 1) |-> KeptStep(s, T, f, m)]
  <2>3. \A m \in 0..n : g[m] = f[m]
    BY <2>1, <2>2
  <2>4. g = [m \in 0..(n + 1) |-> KeptStep(s, T, f, m)]
    OBVIOUS
  <2> HIDE DEF g
  <2>5. ASSUME NEW m \in 0..(n + 1)
        PROVE  KeptStep(s, T, f, m) = KeptStep(s, T, g, m)
    <3>1. CASE m = 0
      BY <3>1 DEF KeptStep
    <3>2. CASE m # 0
      <4>1. m - 1 \in 0..n
        BY <2>1, <3>2
      <4>2. g[m - 1] = f[m - 1]
        BY <4>1, <2>3
      <4>3. QED
        BY <3>2, <4>2 DEF KeptStep
    <3>3. QED
      BY <3>1, <3>2
  <2>6. g = [m \in 0..(n + 1) |-> KeptStep(s, T, g, m)]
    BY <2>4, <2>5
  <2>7. QED
    BY <2>1, <2>6
<1> HIDE DEF Solved
<1>3. Nat \subseteq Solved
  BY <1>1, <1>2, NatSetInduction
<1>4. QED
  BY <1>3 DEF Solved

\* A filtered sequence holds the members of T among the entries, and it repeats none
\* unless the sequence did.
LEMMA KeptEntries ==
  ASSUME NEW S, NEW s \in Seq(S), NEW T
  PROVE  /\ Kept(s, T) \in Seq(S)
         /\ \A i \in 1..Len(Kept(s, T)) :
              Kept(s, T)[i] \in T /\ \E j \in 1..Len(s) : s[j] = Kept(s, T)[i]
         /\ \A j \in 1..Len(s) : s[j] \in T =>
              \E i \in 1..Len(Kept(s, T)) : Kept(s, T)[i] = s[j]
         /\ (\A i, j \in 1..Len(s) : s[i] = s[j] => i = j) =>
              \A i, j \in 1..Len(Kept(s, T)) : Kept(s, T)[i] = Kept(s, T)[j] => i = j
<1> DEFINE f == CHOOSE g : g = [m \in 0..Len(s) |-> KeptStep(s, T, g, m)]
           Good(n) == /\ f[n] \in Seq(S)
                      /\ \A i \in 1..Len(f[n]) :
                           f[n][i] \in T /\ \E j \in 1..n : s[j] = f[n][i]
                      /\ \A j \in 1..n : s[j] \in T => \E i \in 1..Len(f[n]) : f[n][i] = s[j]
                      /\ (\A i, j \in 1..Len(s) : s[i] = s[j] => i = j) =>
                           \A i, j \in 1..Len(f[n]) : f[n][i] = f[n][j] => i = j
           Done == {n \in Nat : n <= Len(s) => Good(n)}
<1>1. Len(s) \in Nat
  OBVIOUS
<1>2. f = [m \in 0..Len(s) |-> KeptStep(s, T, f, m)]
  BY <1>1, KeptExists
<1>3. Kept(s, T) = f[Len(s)]
  BY DEF Kept, KeptStep
<1> HIDE DEF f
<1>4. 0 \in Done
  <2>1. f[0] = <<>>
    BY <1>1, <1>2 DEF KeptStep
  <2>2. Len(f[0]) = 0 /\ f[0] \in Seq(S) /\ 1..0 = {}
    BY <2>1
  <2>3. Good(0)
    BY <2>2
  <2>4. QED
    BY <2>3
<1>5. ASSUME NEW n \in Done
      PROVE  n + 1 \in Done
  <2>1. SUFFICES ASSUME n + 1 <= Len(s)
                 PROVE  Good(n + 1)
    OBVIOUS
  <2>2. n \in Nat /\ n + 1 \in 0..Len(s) /\ n + 1 # 0 /\ (n + 1) - 1 = n
    BY <1>1, <2>1
  <2>3. Good(n)
    <3> HIDE DEF Good
    <3>1. n <= Len(s)
      BY <1>1, <2>1, <2>2
    <3> QED BY <3>1 DEF Done
  <2>4. f[n + 1] = IF s[n + 1] \in T THEN Append(f[n], s[n + 1]) ELSE f[n]
    <3>1. f[n + 1] = KeptStep(s, T, f, n + 1)
      BY <1>2, <2>2
    <3>2. QED
      BY <2>2, <3>1 DEF KeptStep
  <2>5. s[n + 1] \in S
    BY <2>2
  <2>6. CASE s[n + 1] \notin T
    <3>1. f[n + 1] = f[n]
      BY <2>4, <2>6
    <3>2. QED
      BY <2>2, <2>3, <2>6, <3>1
  <2>7. CASE s[n + 1] \in T
    <3> DEFINE old == f[n]
               new == f[n + 1]
    <3>1. new = Append(old, s[n + 1]) /\ old \in Seq(S)
      BY <2>3, <2>4, <2>7
    <3>2. /\ new \in Seq(S) /\ Len(new) = Len(old) + 1 /\ new[Len(old) + 1] = s[n + 1]
          /\ \A i \in 1..Len(old) : new[i] = old[i]
          /\ Len(old) \in Nat
      BY <2>5, <3>1
    <3>3. \A i \in 1..Len(old) : old[i] \in T /\ \E j \in 1..n : s[j] = old[i]
      BY <2>3
    <3>4. \A j \in 1..n : s[j] \in T => \E i \in 1..Len(old) : old[i] = s[j]
      BY <2>3
    <3>5. (\A i, j \in 1..Len(s) : s[i] = s[j] => i = j) =>
            \A i, j \in 1..Len(old) : old[i] = old[j] => i = j
      BY <2>3
    <3> HIDE DEF old, new
    <3>6. \A i \in 1..Len(new) : new[i] \in T /\ \E j \in 1..(n + 1) : s[j] = new[i]
      <4>1. TAKE i \in 1..Len(new)
      <4>2. CASE i \in 1..Len(old)
        <5>1. PICK j \in 1..n : s[j] = old[i]
          BY <3>3, <4>2
        <5>2. j \in 1..(n + 1)
          BY <2>2
        <5>3. QED
          BY <3>2, <3>3, <4>2, <5>1, <5>2
      <4>3. CASE i = Len(old) + 1
        BY <2>2, <2>7, <3>2, <4>3
      <4>4. QED
        BY <3>2, <4>2, <4>3
    <3>7. \A j \in 1..(n + 1) : s[j] \in T => \E i \in 1..Len(new) : new[i] = s[j]
      <4>1. TAKE j \in 1..(n + 1)
      <4>2. CASE j \in 1..n
        BY <3>2, <3>4, <4>2
      <4>3. CASE j = n + 1
        BY <3>2, <4>3
      <4>4. QED
        BY <2>2, <4>2, <4>3
    <3>8. ASSUME \A i, j \in 1..Len(s) : s[i] = s[j] => i = j,
                 NEW i \in 1..Len(new), NEW j \in 1..Len(new), new[i] = new[j]
          PROVE  i = j
      <4>1. \A k \in 1..Len(old) : new[k] # s[n + 1]
        <5>1. TAKE k \in 1..Len(old)
        <5>2. PICK h \in 1..n : s[h] = old[k]
          BY <3>3
        <5>3. h \in 1..Len(s) /\ n + 1 \in 1..Len(s) /\ h # n + 1
          BY <1>1, <2>2
        <5>4. QED
          BY <3>2, <3>8, <5>2, <5>3
      <4>2. \A k \in 1..Len(new) : k \in 1..Len(old) \/ k = Len(old) + 1
        BY <3>2
      <4>3. QED
        BY <3>2, <3>5, <3>8, <4>1, <4>2
    <3>9. QED
      BY <3>2, <3>6, <3>7, <3>8 DEF old, new
  <2>8. QED
    BY <2>6, <2>7
<1> HIDE DEF Done
<1>6. Nat \subseteq Done
  BY <1>4, <1>5, NatSetInduction
<1>7. Good(Len(s))
  <2> HIDE DEF Good
  <2> QED BY <1>1, <1>6 DEF Done
<1>8. QED
  BY <1>3, <1>7
-----------------------------------------------------------------------------
(* The same in terms of the set of entries, with the two ends of a queue. *)

\* Filtering keeps the entries that are members of T.
LEMMA KeptSet ==
  ASSUME NEW S, NEW s \in Seq(S), NEW T
  PROVE  /\ Kept(s, T) \in Seq(S)
         /\ ToSet(Kept(s, T)) = ToSet(s) \cap T
         /\ IsInjective(s) => IsInjective(Kept(s, T))
<1> DEFINE k == Kept(s, T)
<1>1. /\ k \in Seq(S)
      /\ \A i \in 1..Len(k) : k[i] \in T /\ \E j \in 1..Len(s) : s[j] = k[i]
      /\ \A j \in 1..Len(s) : s[j] \in T => \E i \in 1..Len(k) : k[i] = s[j]
      /\ (\A i, j \in 1..Len(s) : s[i] = s[j] => i = j) =>
           \A i, j \in 1..Len(k) : k[i] = k[j] => i = j
  BY KeptEntries
<1> HIDE DEF k
<1>2. DOMAIN k = 1..Len(k) /\ DOMAIN s = 1..Len(s)
  BY <1>1
<1>3. ToSet(k) = ToSet(s) \cap T
  <2>1. ASSUME NEW x \in ToSet(k)
        PROVE  x \in ToSet(s) \cap T
    <3>1. PICK i \in 1..Len(k) : x = k[i]
      BY <1>2 DEF ToSet
    <3>2. PICK j \in 1..Len(s) : s[j] = k[i]
      BY <1>1
    <3>3. k[i] \in T
      BY <1>1
    <3>4. x \in ToSet(s)
      BY <1>2, <3>1, <3>2 DEF ToSet
    <3>5. QED
      BY <3>1, <3>3, <3>4
  <2>2. ASSUME NEW x \in ToSet(s) \cap T
        PROVE  x \in ToSet(k)
    <3>1. PICK j \in 1..Len(s) : x = s[j]
      BY <1>2 DEF ToSet
    <3>2. PICK i \in 1..Len(k) : k[i] = s[j]
      BY <1>1, <3>1
    <3>3. QED
      BY <1>2, <3>1, <3>2 DEF ToSet
  <2>3. QED
    BY <2>1, <2>2
<1>4. IsInjective(s) => IsInjective(k)
  BY <1>1, <1>2 DEF IsInjective
<1>5. QED
  BY <1>1, <1>3, <1>4 DEF k

\* Taking the head of a queue without repetitions takes its entry away.
LEMMA TailSet ==
  ASSUME NEW S, NEW s \in Seq(S), s # <<>>
  PROVE  /\ Tail(s) \in Seq(S) /\ Head(s) \in S /\ Head(s) \in ToSet(s)
         /\ ToSet(s) \ {Head(s)} \subseteq ToSet(Tail(s))
         /\ ToSet(Tail(s)) \subseteq ToSet(s)
         /\ IsInjective(s) => IsInjective(Tail(s)) /\ Head(s) \notin ToSet(Tail(s))
<1>1. /\ Tail(s) \in Seq(S) /\ Head(s) = s[1] /\ Len(s) \in Nat /\ Len(s) # 0
      /\ Len(Tail(s)) = Len(s) - 1
      /\ \A i \in 1..Len(Tail(s)) : Tail(s)[i] = s[i + 1]
  OBVIOUS
<1>2. DOMAIN s = 1..Len(s) /\ DOMAIN Tail(s) = 1..Len(Tail(s)) /\ 1 \in 1..Len(s)
  BY <1>1
<1>3. Head(s) \in S /\ Head(s) \in ToSet(s)
  BY <1>1, <1>2 DEF ToSet
<1>4. ASSUME NEW x \in ToSet(s), x # Head(s)
      PROVE  x \in ToSet(Tail(s))
  <2>1. PICK i \in 1..Len(s) : x = s[i]
    BY <1>2 DEF ToSet
  <2>2. i - 1 \in 1..Len(Tail(s)) /\ (i - 1) + 1 = i
    BY <1>1, <1>4, <2>1
  <2>3. Tail(s)[i - 1] = x
    BY <1>1, <2>1, <2>2
  <2>4. QED
    BY <1>2, <2>2, <2>3 DEF ToSet
<1>5. \A i \in 1..Len(Tail(s)) : i + 1 \in 1..Len(s) /\ i + 1 # 1
  BY <1>1
<1>6. ToSet(Tail(s)) \subseteq ToSet(s)
  BY <1>1, <1>2, <1>5 DEF ToSet
<1>7. ASSUME IsInjective(s)
      PROVE  IsInjective(Tail(s)) /\ Head(s) \notin ToSet(Tail(s))
  <2>1. ASSUME NEW i \in 1..Len(Tail(s)), NEW j \in 1..Len(Tail(s)), Tail(s)[i] = Tail(s)[j]
        PROVE  i = j
    <3>1. s[i + 1] = s[j + 1] /\ i + 1 \in DOMAIN s /\ j + 1 \in DOMAIN s
      BY <1>1, <1>2, <1>5, <2>1
    <3>2. i + 1 = j + 1
      BY <1>7, <3>1 DEF IsInjective
    <3>3. QED
      BY <1>1, <3>2
  <2>2. IsInjective(Tail(s))
    BY <1>2, <2>1 DEF IsInjective
  <2>3. \A i \in 1..Len(Tail(s)) : Tail(s)[i] # s[1]
    BY <1>1, <1>2, <1>5, <1>7 DEF IsInjective
  <2>4. Head(s) \notin ToSet(Tail(s))
    BY <1>1, <1>2, <2>3 DEF ToSet
  <2>5. QED
    BY <2>2, <2>4
<1>8. QED
  BY <1>1, <1>3, <1>4, <1>6, <1>7

\* Putting an entry at the end of a queue adds it.
LEMMA AppendSet ==
  ASSUME NEW S, NEW s \in Seq(S), NEW x \in S
  PROVE  /\ Append(s, x) \in Seq(S)
         /\ ToSet(Append(s, x)) = ToSet(s) \cup {x}
         /\ IsInjective(s) /\ x \notin ToSet(s) => IsInjective(Append(s, x))
<1> DEFINE t == Append(s, x)
<1>1. /\ t \in Seq(S) /\ Len(s) \in Nat /\ Len(t) = Len(s) + 1
      /\ \A i \in 1..Len(s) : t[i] = s[i]
      /\ t[Len(s) + 1] = x
  OBVIOUS
<1> HIDE DEF t
<1>2. DOMAIN s = 1..Len(s) /\ DOMAIN t = 1..Len(t)
  BY <1>1
<1>3. /\ \A i \in 1..Len(t) : i \in 1..Len(s) \/ i = Len(s) + 1
      /\ \A i \in 1..Len(s) : i \in 1..Len(t)
      /\ Len(s) + 1 \in 1..Len(t)
  BY <1>1
<1>4. ToSet(t) = ToSet(s) \cup {x}
  BY <1>1, <1>2, <1>3 DEF ToSet
<1>5. ASSUME IsInjective(s), x \notin ToSet(s)
      PROVE  IsInjective(t)
  <2>1. \A i \in 1..Len(s) : s[i] # x
    BY <1>2, <1>5 DEF ToSet
  <2>2. QED
    BY <1>1, <1>2, <1>3, <1>5, <2>1 DEF IsInjective
<1>6. QED
  BY <1>1, <1>4, <1>5 DEF t

-----------------------------------------------------------------------------
(* The same by the last entry of the sequence. *)

\* What a filter keeps is the last value of the recursion.
LEMMA KeptSolved ==
  ASSUME NEW s, NEW T, Len(s) \in Nat
  PROVE  \E f : /\ f = [m \in 0..Len(s) |-> KeptStep(s, T, f, m)]
                /\ Kept(s, T) = f[Len(s)]
<1> DEFINE f == CHOOSE g : g = [m \in 0..Len(s) |-> KeptStep(s, T, g, m)]
<1>1. f = [m \in 0..Len(s) |-> KeptStep(s, T, f, m)]
  BY KeptExists
<1>2. Kept(s, T) = f[Len(s)]
  BY DEF Kept, KeptStep
<1> HIDE DEF f
<1>3. QED
  BY <1>1, <1>2

\* Of nothing, nothing is kept.
LEMMA KeptOfNothing == ASSUME NEW T PROVE Kept(<<>>, T) = <<>>
<1>1. Len(<<>>) = 0
  OBVIOUS
<1>2. PICK f : f = [m \in 0..Len(<<>>) |-> KeptStep(<<>>, T, f, m)] /\ Kept(<<>>, T) = f[Len(<<>>)]
  BY <1>1, KeptSolved
<1>3. f[0] = KeptStep(<<>>, T, f, 0)
  BY <1>1, <1>2
<1>4. QED
  BY <1>1, <1>2, <1>3 DEF KeptStep

\* An appended entry is kept when it is a member.
LEMMA KeptOfAppend ==
  ASSUME NEW S, NEW s \in Seq(S), NEW e \in S, NEW T
  PROVE  Kept(Append(s, e), T) = IF e \in T THEN Append(Kept(s, T), e) ELSE Kept(s, T)
<1> DEFINE p == Append(s, e)
<1>1. /\ Len(s) \in Nat /\ Len(p) = Len(s) + 1 /\ p[Len(s) + 1] = e
      /\ \A i \in 1..Len(s) : p[i] = s[i]
  OBVIOUS
<1> HIDE DEF p
<1>2. PICK f : f = [m \in 0..Len(s) |-> KeptStep(s, T, f, m)] /\ Kept(s, T) = f[Len(s)]
  BY <1>1, KeptSolved
<1>3. PICK g : g = [m \in 0..Len(p) |-> KeptStep(p, T, g, m)] /\ Kept(p, T) = g[Len(p)]
  <2>1. Len(p) \in Nat
    BY <1>1
  <2>2. QED
    BY <2>1, KeptSolved
<1> DEFINE Same == {n \in Nat : n <= Len(s) => f[n] = g[n]}
<1>4. 0 \in Same
  <2>1. 0 \in 0..Len(s) /\ 0 \in 0..Len(p)
    BY <1>1
  <2>2. f[0] = KeptStep(s, T, f, 0)
    BY <1>2, <2>1
  <2>3. g[0] = KeptStep(p, T, g, 0)
    BY <1>3, <2>1
  <2>4. QED
    BY <2>2, <2>3 DEF KeptStep
<1>5. ASSUME NEW n \in Same
      PROVE  n + 1 \in Same
  <2>1. SUFFICES ASSUME n + 1 <= Len(s)
                 PROVE  f[n + 1] = g[n + 1]
    OBVIOUS
  <2>2. n \in Nat /\ f[n] = g[n] /\ (n + 1) - 1 = n /\ n + 1 # 0
    BY <1>1, <2>1
  <2>3. n + 1 \in 0..Len(s) /\ n + 1 \in 0..Len(p) /\ n + 1 \in 1..Len(s)
    BY <1>1, <2>1, <2>2
  <2>4. f[n + 1] = KeptStep(s, T, f, n + 1)
    BY <1>2, <2>3
  <2>5. g[n + 1] = KeptStep(p, T, g, n + 1)
    BY <1>3, <2>3
  <2>6. p[n + 1] = s[n + 1]
    BY <1>1, <2>3
  <2>7. QED
    BY <2>2, <2>4, <2>5, <2>6 DEF KeptStep
<1> HIDE DEF Same
<1>6. Len(s) \in Same
  BY <1>1, <1>4, <1>5, NatSetInduction
<1>7. f[Len(s)] = g[Len(s)]
  BY <1>1, <1>6 DEF Same
<1>8. g[Len(s) + 1] = KeptStep(p, T, g, Len(s) + 1)
  <2>1. Len(s) + 1 \in 0..Len(p)
    BY <1>1
  <2>2. QED
    BY <1>3, <2>1
<1>9. (Len(s) + 1) - 1 = Len(s) /\ Len(s) + 1 # 0
  BY <1>1
<1>10. QED
  BY <1>1, <1>2, <1>3, <1>7, <1>8, <1>9 DEF KeptStep, p

\* A sequence with an entry is one that was appended to.
LEMMA LastApart ==
  ASSUME NEW S, NEW q \in Seq(S), NEW n \in Nat, Len(q) = n + 1
  PROVE  \E p \in Seq(S), e \in S : q = Append(p, e) /\ Len(p) = n
<1> DEFINE p == [i \in 1..n |-> q[i]]
<1>1. \A i \in 1..(n + 1) : q[i] \in S
  OBVIOUS
<1>2. p \in Seq(S) /\ Len(p) = n
  BY <1>1, IsASeq
<1>3. Append(p, q[n + 1]) = q
  BY <1>1, <1>2
<1>4. q[n + 1] \in S
  BY <1>1
<1>5. QED
  BY <1>2, <1>3, <1>4

\* Filtering keeps the order.
LEMMA KeptOrder ==
  ASSUME NEW S, NEW s \in Seq(S), NEW T
  PROVE  \A i, j \in 1..Len(Kept(s, T)) : i < j =>
           \E a, b \in 1..Len(s) : a < b /\ s[a] = Kept(s, T)[i] /\ s[b] = Kept(s, T)[j]
<1> DEFINE Ordered(p) ==
             \A i, j \in 1..Len(Kept(p, T)) : i < j =>
               \E a, b \in 1..Len(p) : a < b /\ p[a] = Kept(p, T)[i] /\ p[b] = Kept(p, T)[j]
           Done == {n \in Nat : \A p \in Seq(S) : Len(p) = n => Ordered(p)}
<1>1. 0 \in Done
  <2>1. ASSUME NEW p \in Seq(S), Len(p) = 0
        PROVE  Ordered(p)
    <3>1. p = <<>>
      BY <2>1
    <3>2. Len(Kept(p, T)) = 0
      BY <3>1, KeptOfNothing
    <3>3. QED
      BY <3>2
  <2> HIDE DEF Ordered
  <2>2. QED
    BY <2>1
<1>2. ASSUME NEW n \in Done
      PROVE  n + 1 \in Done
  <2>1. ASSUME NEW p \in Seq(S), Len(p) = n + 1
        PROVE  Ordered(p)
    <3>1. PICK r \in Seq(S), e \in S : p = Append(r, e) /\ Len(r) = n
      BY <2>1, LastApart
    <3>2. Ordered(r)
      <4> HIDE DEF Ordered
      <4> QED BY <3>1
    <3> DEFINE k == Kept(r, T)
               m == Kept(p, T)
    <3>3. /\ k \in Seq(S)
          /\ \A i \in 1..Len(k) : \E a \in 1..Len(r) : r[a] = k[i]
      BY KeptEntries
    <3>4. m = IF e \in T THEN Append(k, e) ELSE k
      BY <3>1, KeptOfAppend
    <3>5. /\ n \in Nat /\ Len(p) = n + 1 /\ p[n + 1] = e
          /\ \A a \in 1..n : p[a] = r[a]
      BY <3>1
    <3>6. \A i, j \in 1..Len(k) : i < j =>
            \E a, b \in 1..n : a < b /\ r[a] = k[i] /\ r[b] = k[j]
      BY <3>1, <3>2
    <3> HIDE DEF k, m
    <3>7. ASSUME NEW i \in 1..Len(m), NEW j \in 1..Len(m), i < j
          PROVE  \E a, b \in 1..Len(p) : a < b /\ p[a] = m[i] /\ p[b] = m[j]
      <4>1. CASE j \in 1..Len(k)
        <5>1. i \in 1..Len(k) /\ m[i] = k[i] /\ m[j] = k[j]
          BY <3>3, <3>4, <3>7, <4>1
        <5>2. PICK a \in 1..n, b \in 1..n : a < b /\ r[a] = k[i] /\ r[b] = k[j]
          BY <3>6, <3>7, <4>1, <5>1
        <5>3. a \in 1..Len(p) /\ b \in 1..Len(p)
          BY <3>5
        <5>4. QED
          BY <3>5, <5>1, <5>2, <5>3
      <4>2. CASE j \notin 1..Len(k)
        <5>1. m = Append(k, e)
          BY <3>4, <4>2, <3>7
        <5>2. Len(m) = Len(k) + 1 /\ m[Len(k) + 1] = e /\ \A h \in 1..Len(k) : m[h] = k[h]
          BY <3>3, <5>1
        <5>3. j = Len(k) + 1 /\ i \in 1..Len(k)
          <6>1. Len(k) \in Nat
            BY <3>3
          <6>2. QED
            BY <6>1, <3>7, <4>2, <5>2
        <5>4. PICK a \in 1..Len(r) : r[a] = k[i]
          BY <3>3, <5>3
        <5>5. a \in 1..Len(p) /\ n + 1 \in 1..Len(p) /\ a < n + 1 /\ p[a] = r[a]
          BY <3>1, <3>5
        <5>6. QED
          BY <3>5, <5>2, <5>3, <5>4, <5>5
      <4>3. QED
        BY <4>1, <4>2
    <3>8. QED
      BY <3>7 DEF m
  <2> HIDE DEF Ordered
  <2>2. QED
    BY <2>1
<1> HIDE DEF Done
<1>3. Len(s) \in Done
  BY <1>1, <1>2, NatSetInduction
<1>4. Ordered(s)
  <2> HIDE DEF Ordered
  <2> QED BY <1>3 DEF Done
<1>5. QED
  BY <1>4

\* Where all entries are members of T, nothing is filtered out.
LEMMA KeptWhole ==
  ASSUME NEW T, NEW s \in Seq(T)
  PROVE  Kept(s, T) = s
<1> DEFINE Done == {n \in Nat : \A p \in Seq(T) : Len(p) = n => Kept(p, T) = p}
<1>1. 0 \in Done
  <2>1. ASSUME NEW p \in Seq(T), Len(p) = 0
        PROVE  Kept(p, T) = p
    <3>1. p = <<>>
      BY <2>1
    <3>2. QED
      BY <3>1, KeptOfNothing
  <2>2. QED
    BY <2>1
<1>2. ASSUME NEW n \in Done
      PROVE  n + 1 \in Done
  <2>1. ASSUME NEW p \in Seq(T), Len(p) = n + 1
        PROVE  Kept(p, T) = p
    <3>1. PICK r \in Seq(T), e \in T : p = Append(r, e) /\ Len(r) = n
      BY <2>1, LastApart
    <3>2. Kept(r, T) = r
      BY <3>1
    <3>3. Kept(Append(r, e), T) = Append(Kept(r, T), e)
      BY KeptOfAppend
    <3>4. QED
      BY <3>1, <3>2, <3>3
  <2>2. QED
    BY <2>1
<1> HIDE DEF Done
<1>3. Len(s) \in Done
  BY <1>1, <1>2, NatSetInduction
<1>4. QED
  BY <1>3 DEF Done
=============================================================================
