------------------------------ MODULE ListLemmas ------------------------------
(***************************************************************************)
(* What the operations on a list add, remove and keep.                     *)
(***************************************************************************)
EXTENDS Lists, ListLinks, TLAPS, WellFoundedInduction

(* Induction over the natural numbers for a set: what is true of 0 and of  *)
(* n + 1 if it is of n is true of all.                                     *)
LEMMA NatSetInduction ==
  ASSUME NEW S, 0 \in S, \A n \in Nat : n \in S => n + 1 \in S
  PROVE  Nat \subseteq S
<1> DEFINE T == Nat \ S
           R == OpToRel(<, Nat)
<1> SUFFICES ASSUME T # {} PROVE FALSE
  OBVIOUS
<1>1. \A a, b \in Nat : a < b => <<a, b>> \in R
  BY DEF OpToRel
<1>2. IsWellFoundedOn(R, Nat)
  BY NatLessThanWellFounded
<1>3. T \subseteq Nat
  OBVIOUS
<1>4. PICK m \in T : \A k \in T : <<k, m>> \notin R
  <2> HIDE DEF R, T
  <2> QED
    BY <1>2, <1>3, WFMin
<1>5. m - 1 \in Nat /\ m = (m - 1) + 1 /\ m \in Nat /\ m - 1 < m
  <2>1. m # 0 /\ m \in Nat
    OBVIOUS
  <2> QED
    BY <2>1
<1>6. m - 1 \in T
  BY <1>5
<1>7. <<m - 1, m>> \in R
  <2> HIDE DEF R
  <2> QED
    BY <1>1, <1>5
<1> QED
  BY <1>4, <1>6, <1>7

(* A set of natural numbers has a least one.                               *)
LEMMA NatLeast ==
  ASSUME NEW S, S \subseteq Nat, S # {}
  PROVE  \E m \in S : \A k \in S : m <= k
<1> SUFFICES ASSUME \A m \in S : \E k \in S : ~(m <= k) PROVE FALSE
  OBVIOUS
<1> DEFINE T == {n \in Nat : \A k \in S : n <= k}
<1>1. 0 \in T
  OBVIOUS
<1>2. ASSUME NEW n \in Nat, n \in T
      PROVE  n + 1 \in T
  <2> SUFFICES ASSUME NEW k \in S PROVE n + 1 <= k
    OBVIOUS
  <2>1. n \notin S
    BY <1>2
  <2>2. n <= k /\ k \in Nat /\ k # n
    BY <1>2, <2>1
  <2> QED
    BY <2>2
<1>3. Nat \subseteq T
  <2> HIDE DEF T
  <2> QED
    BY <1>1, <1>2, NatSetInduction
<1>4. PICK k \in S : TRUE
  OBVIOUS
<1>5. k \in Nat /\ k + 1 \in T
  BY <1>3
<1> QED
  BY <1>5

(* The values f of a loop that starts with first and does m steps.         *)
Iterates(f, m, X, first, step) ==
  /\ f \in [0..m -> X]
  /\ f[0] = first
  /\ \A k \in 1..m : f[k] = step[f[k - 1]]

(* A loop has its values, however many steps it does.                      *)
LEMMA RecursionExists ==
  ASSUME NEW X, NEW first \in X, NEW step \in [X -> X], NEW m \in Nat
  PROVE  \E f : Iterates(f, m, X, first, step)
<1> USE DEF Iterates
<1> DEFINE Defined(f, n) == Iterates(f, n, X, first, step)
           S == {n \in Nat : \E f : Defined(f, n)}
<1>1. 0 \in S
  <2> DEFINE f == [k \in 0..0 |-> first]
  <2>1. Defined(f, 0)
    OBVIOUS
  <2> QED
    BY <2>1
<1>2. ASSUME NEW n \in Nat, n \in S
      PROVE  n + 1 \in S
  <2>1. PICK f : Defined(f, n)
    BY <1>2
  <2> DEFINE g == [k \in 0..(n + 1) |-> IF k = n + 1 THEN step[f[n]] ELSE f[k]]
  <2>2. n \in 0..n /\ f[n] \in X /\ step[f[n]] \in X
    BY <2>1
  <2>3. g \in [0..(n + 1) -> X]
    BY <2>1, <2>2
  <2>4. \A k \in 0..n : k \in 0..(n + 1) /\ k # n + 1 /\ g[k] = f[k]
    OBVIOUS
  <2>5. g[0] = first
    BY <2>1, <2>4
  <2>6. ASSUME NEW k \in 1..(n + 1)
        PROVE  g[k] = step[g[k - 1]]
    <3>1. k - 1 \in 0..n /\ g[k - 1] = f[k - 1]
      BY <2>4
    <3>2. CASE k = n + 1
      <4>1. g[k] = step[f[n]] /\ k - 1 = n
        BY <3>2
      <4> HIDE DEF g
      <4> QED
        BY <3>1, <3>2, <4>1
    <3>3. CASE k # n + 1
      <4>1. k \in 1..n /\ k \in 0..n
        BY <3>3
      <4>2. g[k] = f[k] /\ f[k] = step[f[k - 1]]
        BY <2>1, <2>4, <4>1
      <4> HIDE DEF g
      <4> QED
        BY <3>1, <4>2
    <3> QED
      BY <3>2, <3>3
  <2>7. Defined(g, n + 1)
    BY <2>3, <2>5, <2>6
  <2> HIDE DEF Defined, g
  <2> QED
    BY <2>7
<1>3. m \in S
  <2> HIDE DEF S
  <2> QED
    BY <1>1, <1>2, NatSetInduction
<1> QED
  BY <1>3

(* What a loop of n steps computes does not depend on how far it goes on.  *)
LEMMA IteratesAgree ==
  ASSUME NEW X, NEW first \in X, NEW step \in [X -> X],
         NEW m \in Nat, NEW n \in Nat, m <= n,
         NEW f, NEW g,
         Iterates(f, m, X, first, step), Iterates(g, n, X, first, step)
  PROVE  \A k \in 0..m : f[k] = g[k]
<1> USE DEF Iterates
<1> DEFINE S == {k \in Nat : k <= m => f[k] = g[k]}
<1>1. 0 \in S
  OBVIOUS
<1>2. ASSUME NEW k \in Nat, k \in S
      PROVE  k + 1 \in S
  <2> SUFFICES ASSUME k + 1 <= m PROVE f[k + 1] = g[k + 1]
    OBVIOUS
  <2>1. k + 1 \in 1..m /\ k + 1 \in 1..n /\ (k + 1) - 1 = k /\ k <= m
    OBVIOUS
  <2>2. f[k] = g[k]
    BY <1>2, <2>1
  <2> QED
    BY <2>1, <2>2
<1>3. Nat \subseteq S
  <2> HIDE DEF S
  <2> QED
    BY <1>1, <1>2, NatSetInduction
<1> QED
  BY <1>3

(* The values F of a loop that never ends.                                 *)
IteratesForever(F, X, first, step) ==
  /\ F \in [Nat -> X]
  /\ F[0] = first
  /\ \A n \in Nat : F[n + 1] = step[F[n]]

(* Such a loop has its values.                                             *)
LEMMA RecursionOverNat ==
  ASSUME NEW X, NEW first \in X, NEW step \in [X -> X]
  PROVE  \E F : IteratesForever(F, X, first, step)
<1> DEFINE Run(m) == CHOOSE f : Iterates(f, m, X, first, step)
           F == [n \in Nat |-> Run(n)[n]]
<1>1. \A m \in Nat : Iterates(Run(m), m, X, first, step)
  BY RecursionExists
<1> HIDE DEF Run
<1>2. ASSUME NEW n \in Nat
      PROVE  F[n] \in X /\ F[n + 1] = step[F[n]]
  <2>1. n + 1 \in Nat /\ n <= n + 1 /\ n \in 0..n /\ n \in 0..(n + 1)
        /\ n + 1 \in 1..(n + 1) /\ (n + 1) - 1 = n
    OBVIOUS
  <2>2. Iterates(Run(n), n, X, first, step)
        /\ Iterates(Run(n + 1), n + 1, X, first, step)
    BY <1>1, <2>1
  <2>3. Run(n)[n] = Run(n + 1)[n]
    BY <2>1, <2>2, IteratesAgree
  <2>4. Run(n)[n] \in X /\ Run(n + 1)[n + 1] = step[Run(n + 1)[n]]
    BY <2>1, <2>2 DEF Iterates
  <2> QED
    BY <2>1, <2>3, <2>4
<1>3. F[0] = first
  <2>1. Iterates(Run(0), 0, X, first, step)
    BY <1>1
  <2> QED
    BY <2>1 DEF Iterates
<1>4. F \in [Nat -> X]
  BY <1>2
<1> HIDE DEF F
<1> QED
  BY <1>2, <1>3, <1>4 DEF IteratesForever

(* push_front adds its argument and nothing else, and links it once when   *)
(* it was not in the list.                                                 *)
LEMMA PushFrontElements ==
  ASSUME NEW S, NEW s \in Seq(S), NEW e \in S
  PROVE  /\ <<e>> \o s \in Seq(S)
         /\ <<e>> \o s # <<>>
         /\ Elements(<<e>> \o s) = {e} \union Elements(s)
         /\ NoDuplicates(s) /\ e \notin Elements(s)
              => NoDuplicates(<<e>> \o s)
<1> DEFINE t == <<e>> \o s
<1>1. t \in Seq(S) /\ Len(t) = Len(s) + 1 /\ Len(s) \in Nat
  OBVIOUS
<1>2. t[1] = e /\ \A i \in 1..Len(s) : t[i + 1] = s[i]
  OBVIOUS
<1>3. \A i \in 1..Len(t) : i # 1 => i - 1 \in 1..Len(s) /\ t[i] = s[i - 1]
  BY <1>1, <1>2
<1>4. 1 \in 1..Len(t)
  BY <1>1
<1>5. \A i \in 1..Len(s) : i + 1 \in 1..Len(t)
  BY <1>1
<1> HIDE DEF t
<1>6. Elements(t) = {e} \union Elements(s)
  BY <1>2, <1>3, <1>4, <1>5 DEF Elements
<1>7. ASSUME NoDuplicates(s), e \notin Elements(s)
      PROVE  NoDuplicates(t)
  <2> SUFFICES ASSUME NEW i \in 1..Len(t), NEW j \in 1..Len(t), t[i] = t[j]
               PROVE  i = j
    BY DEF NoDuplicates
  <2>1. CASE i = 1 /\ j # 1
    BY <1>2, <1>3, <1>7, <2>1 DEF Elements
  <2>2. CASE i # 1 /\ j = 1
    BY <1>2, <1>3, <1>7, <2>2 DEF Elements
  <2>3. CASE i # 1 /\ j # 1
    <3>1. i - 1 = j - 1
      BY <1>3, <1>7, <2>3 DEF NoDuplicates
    <3> QED
      BY <3>1, <1>1
  <2> QED
    BY <2>1, <2>2, <2>3
<1>8. t # <<>>
  BY <1>1
<1> QED
  BY <1>1, <1>6, <1>7, <1>8 DEF t

(* pop_front removes the head and nothing else.                            *)
LEMMA PopFrontElements ==
  ASSUME NEW S, NEW s \in Seq(S), s # <<>>, NoDuplicates(s)
  PROVE  /\ Head(s) \in S
         /\ Head(s) \in Elements(s)
         /\ Tail(s) \in Seq(S)
         /\ Elements(Tail(s)) = Elements(s) \ {Head(s)}
         /\ NoDuplicates(Tail(s))
<1> DEFINE t == Tail(s)
<1>1. Len(s) \in Nat /\ Len(s) # 0 /\ t \in Seq(S) /\ Len(t) = Len(s) - 1
  OBVIOUS
<1>2. Head(s) = s[1] /\ 1 \in 1..Len(s) /\ Head(s) \in S
  BY <1>1
<1>3. \A i \in 1..Len(t) : i + 1 \in 1..Len(s) /\ t[i] = s[i + 1]
  BY <1>1
<1>4. \A i \in 1..Len(s) : i # 1 => i - 1 \in 1..Len(t) /\ s[i] = t[i - 1]
  BY <1>1, <1>3
<1> HIDE DEF t
<1>5. Elements(t) = Elements(s) \ {Head(s)}
  <2>1. ASSUME NEW x \in Elements(t)
        PROVE  x \in Elements(s) /\ x # s[1]
    <3> PICK i \in 1..Len(t) : x = t[i]
      BY <2>1 DEF Elements
    <3>1. i + 1 # 1 /\ x = s[i + 1] /\ i + 1 \in 1..Len(s)
      BY <1>1, <1>3
    <3> QED
      BY <3>1, <1>2 DEF Elements, NoDuplicates
  <2>2. ASSUME NEW x \in Elements(s), x # s[1]
        PROVE  x \in Elements(t)
    BY <1>4, <2>2 DEF Elements
  <2> QED
    BY <2>1, <2>2, <1>2
<1>6. NoDuplicates(t)
  <2> SUFFICES ASSUME NEW i \in 1..Len(t), NEW j \in 1..Len(t), t[i] = t[j]
               PROVE  i = j
    BY DEF NoDuplicates
  <2>1. i + 1 = j + 1
    BY <1>3 DEF NoDuplicates
  <2> QED
    BY <2>1, <1>1
<1> QED
  BY <1>1, <1>2, <1>5, <1>6 DEF t, Elements

(* What is linked in a list of operations is an operation.                 *)
LEMMA ElementsTyped ==
  ASSUME NEW S, NEW s \in Seq(S)
  PROVE  Elements(s) \subseteq S
BY DEF Elements

(* Nothing is linked in the empty list.                                    *)
LEMMA EmptyListElements == Elements(<<>>) = {} /\ NoDuplicates(<<>>)
BY DEF Elements, NoDuplicates

(* push_back adds its argument and nothing else.                           *)
LEMMA PushBackElements ==
  ASSUME NEW S, NEW s \in Seq(S), NEW e \in S
  PROVE  /\ Append(s, e) \in Seq(S)
         /\ Elements(Append(s, e)) = Elements(s) \union {e}
         /\ NoDuplicates(s) /\ e \notin Elements(s)
              => NoDuplicates(Append(s, e))
<1> DEFINE t == Append(s, e)
<1>1. t \in Seq(S) /\ Len(t) = Len(s) + 1 /\ Len(s) \in Nat
  OBVIOUS
<1>2. t[Len(t)] = e /\ Len(t) \in 1..Len(t)
  BY <1>1
<1>3. \A i \in 1..Len(t) : i # Len(t) => i \in 1..Len(s) /\ t[i] = s[i]
  BY <1>1
<1>4. \A i \in 1..Len(s) : i \in 1..Len(t) /\ i # Len(t) /\ t[i] = s[i]
  BY <1>1
<1> HIDE DEF t
<1>5. Elements(t) = Elements(s) \union {e}
  BY <1>2, <1>3, <1>4 DEF Elements
<1>6. ASSUME NoDuplicates(s), e \notin Elements(s)
      PROVE  NoDuplicates(t)
  BY <1>2, <1>3, <1>6 DEF NoDuplicates, Elements
<1> QED
  BY <1>1, <1>5, <1>6 DEF t

(* erase removes the node it is called on and nothing else.                *)
LEMMA WithoutElements ==
  ASSUME NEW S, NEW s \in Seq(S), NEW k \in 1..Len(s), NoDuplicates(s)
  PROVE  /\ Without(s, k) \in Seq(S)
         /\ Elements(Without(s, k)) = Elements(s) \ {s[k]}
         /\ NoDuplicates(Without(s, k))
         /\ Len(Without(s, k)) = Len(s) - 1
         /\ \A i \in 1..(Len(s) - 1) :
              Without(s, k)[i] = IF i < k THEN s[i] ELSE s[i + 1]
<1> DEFINE t == Without(s, k)
<1>1. Len(s) \in Nat /\ k \in Nat /\ 1 <= k /\ k <= Len(s)
  OBVIOUS
<1> DEFINE u == SubSeq(s, 1, k - 1)
           v == SubSeq(s, k + 1, Len(s))
<1>2. u \in Seq(S) /\ Len(u) = k - 1 /\ \A i \in 1..Len(u) : u[i] = s[i]
  BY <1>1
<1>3. v \in Seq(S) /\ Len(v) = Len(s) - k /\ \A i \in 1..Len(v) : v[i] = s[k + i]
  BY <1>1
<1>4. t = u \o v
  BY DEF Without
<1> HIDE DEF u, v, t
<1>5. t \in Seq(S) /\ Len(t) = Len(s) - 1
  BY <1>1, <1>2, <1>3, <1>4
<1>6. \A i \in 1..Len(t) :
        t[i] = IF i < k THEN s[i] ELSE s[i + 1]
  <2> SUFFICES ASSUME NEW i \in 1..Len(t)
               PROVE  t[i] = IF i < k THEN s[i] ELSE s[i + 1]
    OBVIOUS
  <2>1. CASE i < k
    BY <1>1, <1>2, <1>3, <1>4, <1>5, <2>1
  <2>2. CASE ~(i < k)
    <3>1. t[i] = v[i - Len(u)]
      BY <1>1, <1>2, <1>3, <1>4, <1>5, <2>2
    <3>2. i - Len(u) \in 1..Len(v) /\ k + (i - Len(u)) = i + 1
      BY <1>1, <1>2, <1>3, <1>5, <2>2
    <3> QED
      BY <1>3, <2>2, <3>1, <3>2
  <2> QED
    BY <2>1, <2>2
<1>7. \A i \in 1..Len(t) : i < k => i \in 1..Len(s) /\ i # k /\ t[i] = s[i]
  BY <1>1, <1>5, <1>6
<1>8. \A i \in 1..Len(t) :
        ~(i < k) => i + 1 \in 1..Len(s) /\ i + 1 # k /\ t[i] = s[i + 1]
  BY <1>1, <1>5, <1>6
<1>9. \A j \in 1..Len(s) : j < k => j \in 1..Len(t) /\ t[j] = s[j]
  BY <1>1, <1>5, <1>6
<1>10. \A j \in 1..Len(s) : k < j => j - 1 \in 1..Len(t) /\ t[j - 1] = s[j]
  BY <1>1, <1>5, <1>6
<1>11. Elements(t) = Elements(s) \ {s[k]}
  <2>1. ASSUME NEW x \in Elements(t)
        PROVE  x \in Elements(s) /\ x # s[k]
    <3> PICK i \in 1..Len(t) : x = t[i]
      BY DEF Elements
    <3>1. CASE i < k
      BY <1>7, <3>1 DEF Elements, NoDuplicates
    <3>2. CASE ~(i < k)
      BY <1>8, <3>2 DEF Elements, NoDuplicates
    <3> QED
      BY <3>1, <3>2
  <2>2. ASSUME NEW x \in Elements(s), x # s[k]
        PROVE  x \in Elements(t)
    <3> PICK j \in 1..Len(s) : x = s[j]
      BY DEF Elements
    <3>1. j < k \/ k < j
      BY <1>1, <2>2
    <3> QED
      BY <1>9, <1>10, <3>1 DEF Elements
  <2> QED
    BY <2>1, <2>2
<1>12. NoDuplicates(t)
  <2> SUFFICES ASSUME NEW i \in 1..Len(t), NEW j \in 1..Len(t), t[i] = t[j]
               PROVE  i = j
    BY DEF NoDuplicates
  <2>1. CASE i < k /\ j < k
    BY <1>7, <2>1 DEF NoDuplicates
  <2>2. CASE i < k /\ ~(j < k)
    <3>1. i = j + 1
      BY <1>7, <1>8, <2>2 DEF NoDuplicates
    <3> QED
      BY <1>1, <1>5, <2>2, <3>1
  <2>3. CASE ~(i < k) /\ j < k
    <3>1. i + 1 = j
      BY <1>7, <1>8, <2>3 DEF NoDuplicates
    <3> QED
      BY <1>1, <1>5, <2>3, <3>1
  <2>4. CASE ~(i < k) /\ ~(j < k)
    <3>1. i + 1 = j + 1
      BY <1>8, <2>4 DEF NoDuplicates
    <3> QED
      BY <1>1, <1>5, <3>1
  <2> QED
    BY <2>1, <2>2, <2>3, <2>4
<1> QED
  BY <1>5, <1>6, <1>11, <1>12 DEF t

(* A list that is spliced to another has the elements of both.             *)
LEMMA ConcatElements ==
  ASSUME NEW S, NEW s \in Seq(S), NEW u \in Seq(S)
  PROVE  /\ s \o u \in Seq(S)
         /\ Len(s \o u) = Len(s) + Len(u)
         /\ \A i \in 1..Len(s) : i \in 1..Len(s \o u) /\ (s \o u)[i] = s[i]
         /\ \A i \in 1..Len(u) :
              Len(s) + i \in 1..Len(s \o u) /\ (s \o u)[Len(s) + i] = u[i]
         /\ \A i \in 1..Len(s \o u) :
              i \in 1..Len(s) \/ \E j \in 1..Len(u) : i = Len(s) + j
         /\ Elements(s \o u) = Elements(s) \union Elements(u)
         /\ NoDuplicates(s) /\ NoDuplicates(u) /\ Elements(s) \cap Elements(u) = {}
              => NoDuplicates(s \o u)
<1> DEFINE t == s \o u
<1>1. t \in Seq(S) /\ Len(t) = Len(s) + Len(u) /\ Len(s) \in Nat /\ Len(u) \in Nat
  OBVIOUS
<1>2. \A i \in 1..Len(s) : i \in 1..Len(t) /\ t[i] = s[i]
  BY <1>1
<1>3. ASSUME NEW i \in 1..Len(u)
      PROVE  Len(s) + i \in 1..Len(t) /\ t[Len(s) + i] = u[i]
  <2>1. Len(s) + i \in 1..Len(t) /\ Len(s) + i > Len(s) /\ (Len(s) + i) - Len(s) = i
    BY <1>1
  <2>2. t[Len(s) + i] = u[(Len(s) + i) - Len(s)]
    BY <1>1, <2>1
  <2> QED
    BY <2>1, <2>2
<1> HIDE DEF t
<1>4. \A i \in 1..Len(t) : i \in 1..Len(s) \/ \E j \in 1..Len(u) : i = Len(s) + j
  <2> SUFFICES ASSUME NEW i \in 1..Len(t), i \notin 1..Len(s)
               PROVE  \E j \in 1..Len(u) : i = Len(s) + j
    OBVIOUS
  <2>1. i - Len(s) \in 1..Len(u) /\ i = Len(s) + (i - Len(s))
    BY <1>1
  <2> QED
    BY <2>1
<1>5. Elements(t) = Elements(s) \union Elements(u)
  <2>1. ASSUME NEW x \in Elements(t) PROVE x \in Elements(s) \union Elements(u)
    <3> PICK i \in 1..Len(t) : x = t[i]
      BY DEF Elements
    <3>1. CASE i \in 1..Len(s)
      BY <1>2, <3>1 DEF Elements
    <3>2. ASSUME NEW j \in 1..Len(u), i = Len(s) + j PROVE x \in Elements(u)
      BY <1>3, <3>2 DEF Elements
    <3> QED
      BY <1>4, <3>1, <3>2
  <2>2. ASSUME NEW x \in Elements(s) PROVE x \in Elements(t)
    BY <1>2 DEF Elements
  <2>3. ASSUME NEW x \in Elements(u) PROVE x \in Elements(t)
    BY <1>3 DEF Elements
  <2> QED
    BY <2>1, <2>2, <2>3
<1>6. ASSUME NoDuplicates(s), NoDuplicates(u), Elements(s) \cap Elements(u) = {}
      PROVE  NoDuplicates(t)
  <2>1. \A i \in 1..Len(s), j \in 1..Len(u) : s[i] # u[j]
    BY <1>6 DEF Elements
  <2> SUFFICES ASSUME NEW i \in 1..Len(t), NEW j \in 1..Len(t), t[i] = t[j]
               PROVE  i = j
    BY DEF NoDuplicates
  <2>2. CASE i \in 1..Len(s) /\ j \in 1..Len(s)
    BY <1>2, <1>6, <2>2 DEF NoDuplicates
  <2>3. ASSUME i \in 1..Len(s), NEW b \in 1..Len(u), j = Len(s) + b PROVE FALSE
    BY <1>2, <1>3, <2>1, <2>3
  <2>4. ASSUME j \in 1..Len(s), NEW a \in 1..Len(u), i = Len(s) + a PROVE FALSE
    BY <1>2, <1>3, <2>1, <2>4
  <2>5. ASSUME NEW a \in 1..Len(u), i = Len(s) + a, NEW b \in 1..Len(u), j = Len(s) + b
        PROVE  i = j
    <3>1. u[a] = u[b]
      BY <1>3, <2>5
    <3> QED
      BY <1>6, <2>5, <3>1 DEF NoDuplicates
  <2> QED
    BY <1>4, <2>2, <2>3, <2>4, <2>5
<1> QED
  BY <1>1, <1>2, <1>3, <1>4, <1>5, <1>6 DEF t

-----------------------------------------------------------------------------
(* The bytes of the first k buffers, buffer by buffer.                     *)
LEMMA SumOfFirstAdds ==
  ASSUME NEW s \in Seq(Nat)
  PROVE  /\ SumOfFirst(0, s) = 0
         /\ \A k \in 1..Len(s) : SumOfFirst(k, s) = SumOfFirst(k - 1, s) + s[k]
         /\ \A k \in 0..Len(s) : SumOfFirst(k, s) \in Nat
<1> DEFINE Body(f) == [i \in 0..Len(s) |-> IF i = 0 THEN 0 ELSE f[i - 1] + s[i]]
           size(i) == IF i \in 1..Len(s) THEN s[i] ELSE 0
           step == [p \in Nat \X Nat |-> <<p[1] + 1, p[2] + size(p[1] + 1)>>]
           sum == CHOOSE f : f = Body(f)
<1>1. PICK F : IteratesForever(F, Nat \X Nat, <<0, 0>>, step)
  <2>1. ASSUME NEW p \in Nat \X Nat
        PROVE  <<p[1] + 1, p[2] + size(p[1] + 1)>> \in Nat \X Nat
    OBVIOUS
  <2>2. step \in [Nat \X Nat -> Nat \X Nat] /\ <<0, 0>> \in Nat \X Nat
    BY <2>1
  <2> HIDE DEF step
  <2> QED
    BY <2>2, RecursionOverNat, Zenon
<1>2. /\ F[0] = <<0, 0>>
      /\ \A n \in Nat : /\ F[n] \in Nat \X Nat
                        /\ F[n + 1] = <<F[n][1] + 1, F[n][2] + size(F[n][1] + 1)>>
  BY <1>1 DEF IteratesForever
<1> HIDE DEF size
<1> DEFINE at(n) == F[n][1]
           total(n) == F[n][2]
<1>20. at(0) = 0 /\ total(0) = 0
  BY <1>2
<1>21. ASSUME NEW n \in Nat
      PROVE  at(n + 1) = at(n) + 1 /\ total(n + 1) = total(n) + size(at(n) + 1)
  <2>1. F[n + 1] = <<F[n][1] + 1, F[n][2] + size(F[n][1] + 1)>>
    BY <1>2
  <2> QED
    BY <2>1
<1> HIDE DEF at, total
<1>3. \A n \in Nat : at(n) = n
  <2> DEFINE S == {n \in Nat : at(n) = n}
  <2>1. 0 \in S
    BY <1>20
  <2>2. \A n \in Nat : n \in S => n + 1 \in S
    BY <1>21
  <2>3. Nat \subseteq S
    <3> HIDE DEF S
    <3> QED
      BY <2>1, <2>2, NatSetInduction
  <2> QED
    BY <2>3
<1> DEFINE f == [i \in 0..Len(s) |-> total(i)]
<1>4. f = Body(f)
  <2>1. ASSUME NEW i \in 0..Len(s)
        PROVE  f[i] = Body(f)[i]
    <3>1. CASE i = 0
      BY <1>20, <3>1
    <3>2. CASE i # 0
      <4>1. i - 1 \in Nat /\ i - 1 \in 0..Len(s) /\ (i - 1) + 1 = i /\ i \in 1..Len(s)
        BY <3>2
      <4>2. at(i - 1) = i - 1
        BY <1>3, <4>1
      <4>4. total((i - 1) + 1) = total(i - 1) + size(at(i - 1) + 1)
        BY <1>21, <4>1
      <4>5. total(i) = total(i - 1) + size(i)
        BY <4>1, <4>2, <4>4
      <4>3. size(i) = s[i]
        BY <4>1 DEF size
      <4> QED
        BY <3>2, <4>1, <4>3, <4>5
    <3> QED
      BY <3>1, <3>2
  <2> QED
    BY <2>1
<1>5. sum = Body(sum)
  <2> HIDE DEF Body, f
  <2> QED
    BY <1>4
<1>6. \A k \in 0..Len(s) : SumOfFirst(k, s) = sum[k]
  BY DEF SumOfFirst
<1>7. \A i \in 0..Len(s) : sum[i] = IF i = 0 THEN 0 ELSE sum[i - 1] + s[i]
  BY <1>5
<1> HIDE DEF sum
<1>8. Len(s) \in Nat /\ \A k \in 1..Len(s) : k - 1 \in 0..Len(s) /\ k \in 0..Len(s)
  OBVIOUS
<1>9. /\ SumOfFirst(0, s) = 0
      /\ \A k \in 1..Len(s) : SumOfFirst(k, s) = SumOfFirst(k - 1, s) + s[k]
  <2>1. SumOfFirst(0, s) = 0
    BY <1>6, <1>7, <1>8
  <2>2. ASSUME NEW k \in 1..Len(s)
        PROVE  SumOfFirst(k, s) = SumOfFirst(k - 1, s) + s[k]
    <3>1. k \in 0..Len(s) /\ k - 1 \in 0..Len(s) /\ k # 0
      BY <1>8
    <3>2. SumOfFirst(k, s) = sum[k] /\ SumOfFirst(k - 1, s) = sum[k - 1]
      BY <1>6, <3>1
    <3>3. sum[k] = sum[k - 1] + s[k]
      BY <1>7, <3>1
    <3> QED
      BY <3>2, <3>3
  <2> QED
    BY <2>1, <2>2
<1> DEFINE S == {n \in Nat : n <= Len(s) => SumOfFirst(n, s) \in Nat}
<1>10. 0 \in S
  BY <1>9
<1>11. ASSUME NEW n \in Nat, n \in S
       PROVE  n + 1 \in S
  <2> SUFFICES ASSUME n + 1 <= Len(s) PROVE SumOfFirst(n + 1, s) \in Nat
    OBVIOUS
  <2>1. n + 1 \in 1..Len(s) /\ (n + 1) - 1 = n /\ n <= Len(s)
    BY <1>8
  <2>2. SumOfFirst(n, s) \in Nat /\ s[n + 1] \in Nat
    BY <1>11, <2>1
  <2> QED
    BY <1>9, <2>1, <2>2
<1>12. Nat \subseteq S
  <2> HIDE DEF S
  <2> QED
    BY <1>10, <1>11, NatSetInduction
<1> QED
  BY <1>8, <1>9, <1>12

(* More buffers have at least as many bytes.                               *)
LEMMA SumOfFirstGrows ==
  ASSUME NEW s \in Seq(Nat)
  PROVE  \A j, k \in 0..Len(s) : j <= k => SumOfFirst(j, s) <= SumOfFirst(k, s)
<1> DEFINE S == {n \in Nat : n <= Len(s) =>
                   \A j \in 0..n : SumOfFirst(j, s) <= SumOfFirst(n, s)}
<1>1. Len(s) \in Nat
  OBVIOUS
<1>2. 0 \in S
  <2>1. SumOfFirst(0, s) = 0 /\ \A j \in 0..0 : j = 0
    BY SumOfFirstAdds
  <2> QED
    BY <2>1
<1>3. ASSUME NEW n \in Nat, n \in S
      PROVE  n + 1 \in S
  <2> SUFFICES ASSUME n + 1 <= Len(s), NEW j \in 0..(n + 1)
               PROVE  SumOfFirst(j, s) <= SumOfFirst(n + 1, s)
    OBVIOUS
  <2>1. /\ n + 1 \in 1..Len(s) /\ (n + 1) - 1 = n /\ n <= Len(s)
        /\ n \in 0..Len(s) /\ n + 1 \in 0..Len(s) /\ j \in 0..Len(s)
    BY <1>1
  <2>2. /\ SumOfFirst(n + 1, s) = SumOfFirst(n, s) + s[n + 1]
        /\ s[n + 1] \in Nat
        /\ SumOfFirst(n, s) \in Nat
        /\ SumOfFirst(j, s) \in Nat
    BY <2>1, SumOfFirstAdds
  <2>3. j \in 0..n => SumOfFirst(j, s) <= SumOfFirst(n, s)
    BY <1>3, <2>1
  <2>4. j \in 0..n \/ j = n + 1
    OBVIOUS
  <2> QED
    BY <2>2, <2>3, <2>4
<1>4. Nat \subseteq S
  <2> HIDE DEF S
  <2> QED
    BY <1>2, <1>3, NatSetInduction
<1>5. ASSUME NEW j \in 0..Len(s), NEW k \in 0..Len(s), j <= k
      PROVE  SumOfFirst(j, s) <= SumOfFirst(k, s)
  <2>1. k \in Nat /\ k <= Len(s) /\ j \in 0..k
    BY <1>1, <1>5
  <2> QED
    BY <1>4, <2>1
<1> QED
  BY <1>5

(* The m buffers behind the first a of s are those behind the first b of t.*)
SameBehind(s, a, t, b, m) ==
  /\ a + m <= Len(s)
  /\ b + m <= Len(t)
  /\ \A i \in 1..m : s[a + i] = t[b + i]

(* Such buffers have the same bytes.                                       *)
LEMMA SumOfFirstShifts ==
  ASSUME NEW s \in Seq(Nat), NEW t \in Seq(Nat), NEW a \in Nat, NEW b \in Nat,
         NEW m \in Nat, SameBehind(s, a, t, b, m)
  PROVE  SumOfFirst(a + m, s) + SumOfFirst(b, t)
           = SumOfFirst(b + m, t) + SumOfFirst(a, s)
<1> USE DEF SameBehind
<1> DEFINE U(n) == SumOfFirst(a + n, s)
           V(n) == SumOfFirst(b + n, t)
           S == {n \in Nat : n <= m => U(n) + V(0) = V(n) + U(0)}
<1>1. Len(s) \in Nat /\ Len(t) \in Nat
  OBVIOUS
<1>2. ASSUME NEW n \in Nat, n <= m
      PROVE  U(n) \in Nat /\ V(n) \in Nat
  <2>1. a + n \in 0..Len(s) /\ b + n \in 0..Len(t)
    BY <1>1, <1>2
  <2> QED
    BY <2>1, SumOfFirstAdds
<1>3. ASSUME NEW n \in Nat, n + 1 <= m
      PROVE  \E x \in Nat : U(n + 1) = U(n) + x /\ V(n + 1) = V(n) + x
  <2>1. /\ a + (n + 1) \in 1..Len(s) /\ b + (n + 1) \in 1..Len(t)
        /\ (a + (n + 1)) - 1 = a + n /\ (b + (n + 1)) - 1 = b + n
        /\ n + 1 \in 1..m
    <3>1. a + m <= Len(s) /\ b + m <= Len(t)
      OBVIOUS
    <3> HIDE DEF SameBehind
    <3> QED
      BY <1>1, <1>3, <3>1
  <2>2. U(n + 1) = U(n) + s[a + (n + 1)]
    BY <2>1, SumOfFirstAdds
  <2>3. V(n + 1) = V(n) + t[b + (n + 1)]
    BY <2>1, SumOfFirstAdds
  <2>4. s[a + (n + 1)] = t[b + (n + 1)]
    BY <2>1
  <2>5. \A i \in 1..Len(s) : s[i] \in Nat
    OBVIOUS
  <2>6. s[a + (n + 1)] \in Nat
    BY <2>1, <2>5
  <2> HIDE DEF U, V
  <2> QED
    BY <2>2, <2>3, <2>4, <2>6
<1>4. U(0) = SumOfFirst(a, s) /\ V(0) = SumOfFirst(b, t)
  <2>1. a + 0 = a /\ b + 0 = b
    OBVIOUS
  <2> QED
    BY <2>1
<1> HIDE DEF U, V
<1>5. 0 \in S
  BY <1>2
<1>6. ASSUME NEW n \in Nat, n \in S
      PROVE  n + 1 \in S
  <2> SUFFICES ASSUME n + 1 <= m PROVE U(n + 1) + V(0) = V(n + 1) + U(0)
    OBVIOUS
  <2>1. PICK u \in Nat, v \in Nat, p \in Nat, q \in Nat :
          u = U(n) /\ v = V(n) /\ p = U(0) /\ q = V(0)
    BY <1>2
  <2>2. PICK x \in Nat : U(n + 1) = u + x /\ V(n + 1) = v + x
    BY <1>3, <2>1
  <2>3. u + q = v + p
    BY <1>6, <2>1
  <2>4. (u + x) + q = (v + x) + p
    BY <2>3
  <2> QED
    BY <2>1, <2>2, <2>4
<1>7. Nat \subseteq S
  <2> HIDE DEF S
  <2> QED
    BY <1>5, <1>6, NatSetInduction
<1>8. U(m) + V(0) = V(m) + U(0)
  BY <1>7
<1> QED
  BY <1>4, <1>8 DEF U, V

-----------------------------------------------------------------------------
(* The links of a list, call by call (intrusive_list.hpp).                 *)

(* push_back.                                                              *)
LEMMA PushBackLinks ==
  ASSUME NEW N, Null \notin N, NEW J, NEW l \in IntrusiveLists(N),
         NEW s \in Seq(N), NoDuplicates(s), Linked(l, s, J),
         NEW n \in N, n \notin Elements(s)
  PROVE  /\ push_back(l, n) \in IntrusiveLists(N)
         /\ Linked(push_back(l, n), Append(s, n), J \ {n})
<1> DEFINE t == Append(s, n)
           p == push_back(l, n)
           K == J \ {n}
<1> HIDE DEF K
<1>1. /\ t \in Seq(N) /\ t # <<>> /\ Len(t) = Len(s) + 1 /\ Len(s) \in Nat
      /\ t[Len(s) + 1] = n /\ \A i \in 1..Len(s) : t[i] = s[i]
  OBVIOUS
<1>2. \A i \in 1..Len(s) : s[i] \in N /\ s[i] # n /\ s[i] # Null
  BY DEF Elements
<1>3. n \notin K /\ \A m : m # n /\ m \notin K => m \notin J
  BY DEF K
<1>4. CASE s = <<>>
  <2>1. l.tail = Null /\ Len(s) = 0
    BY <1>4 DEF Linked
  <2>2. /\ p.head = n /\ p.tail = n
        /\ p.next = [l.next EXCEPT ![n] = Null] /\ p.prev = [l.prev EXCEPT ![n] = Null]
        /\ p = [head |-> p.head, tail |-> p.tail, next |-> p.next, prev |-> p.prev]
    BY <2>1 DEF push_back, SetMember
  <2>3. p.next[n] = Null /\ p.prev[n] = Null
    BY <2>2 DEF IntrusiveLists
  <2>4. p \in IntrusiveLists(N)
    BY <2>2 DEF IntrusiveLists
  <2>5. t = <<n>>
    BY <1>4
  <2> HIDE DEF p, t
  <2>6. Len(t) = 1 /\ t[1] = n /\ t # <<>>
    BY <2>5
  <2>7. Linked(p, t, K)
    BY <2>2, <2>3, <2>6 DEF Linked
  <2> QED
    BY <2>4, <2>7 DEF p, t, K
<1>5. CASE s # <<>>
  <2> DEFINE e == s[Len(s)]
  <2>1. Len(s) \in 1..Len(s) /\ l.tail = e /\ e \in N /\ e # Null /\ e # n
    BY <1>2, <1>5 DEF Linked
  <2>2. /\ p.head = l.head /\ p.tail = n
        /\ p.next = [[l.next EXCEPT ![n] = Null] EXCEPT ![e] = n]
        /\ p.prev = [l.prev EXCEPT ![n] = e]
        /\ p = [head |-> p.head, tail |-> p.tail, next |-> p.next, prev |-> p.prev]
    BY <2>1 DEF push_back, SetMember
  <2>3. p \in IntrusiveLists(N)
    BY <2>1, <2>2 DEF IntrusiveLists
  <2>4. \A m \in N :
          /\ p.next[m] = IF m = e THEN n ELSE IF m = n THEN Null ELSE l.next[m]
          /\ p.prev[m] = IF m = n THEN e ELSE l.prev[m]
    BY <2>1, <2>2 DEF IntrusiveLists
  <2>5. l.head = s[1] /\ t[1] = s[1]
    BY <1>1, <1>5, <2>1 DEF Linked
  <2>6. ASSUME NEW i \in 1..(Len(s) + 1)
        PROVE  /\ p.next[t[i]] = IF i = Len(s) + 1 THEN Null ELSE t[i + 1]
               /\ t[i] \notin K => p.prev[t[i]] = IF i = 1 THEN Null ELSE t[i - 1]
    <3>1. CASE i = Len(s) + 1
      <4>1. p.next[n] = Null /\ p.prev[n] = e
        BY <2>1, <2>4
      <4>2. t[i] = n /\ i # 1 /\ t[i - 1] = e
        BY <1>1, <2>1, <3>1
      <4> QED
        BY <3>1, <4>1, <4>2
    <3>2. CASE i = Len(s)
      <4>1. t[i] = e /\ t[i + 1] = n
        BY <1>1, <2>1, <3>2
      <4>2. p.next[e] = n /\ p.prev[e] = l.prev[e]
        BY <2>1, <2>4
      <4>3. e \notin J => l.prev[e] = IF i = 1 THEN Null ELSE s[i - 1]
        BY <2>1, <3>2 DEF Linked
      <4>4. i # 1 => t[i - 1] = s[i - 1]
        BY <1>1, <3>2
      <4> QED
        BY <1>1, <1>3, <2>1, <3>2, <4>1, <4>2, <4>3, <4>4
    <3>3. CASE i < Len(s)
      <4>1. /\ i \in 1..Len(s) /\ i + 1 \in 1..Len(s)
            /\ i # 1 => i - 1 \in 1..Len(s)
        BY <1>1, <3>3
      <4>2. s[i] # e /\ s[i] # n /\ s[i] \in N
        BY <1>2, <2>1, <3>3, <4>1 DEF NoDuplicates
      <4>3. p.next[s[i]] = l.next[s[i]] /\ p.prev[s[i]] = l.prev[s[i]]
        BY <2>4, <4>2
      <4>4. /\ l.next[s[i]] = s[i + 1]
            /\ s[i] \notin J => l.prev[s[i]] = IF i = 1 THEN Null ELSE s[i - 1]
        BY <3>3, <4>1 DEF Linked
      <4> QED
        BY <1>1, <1>3, <3>3, <4>1, <4>2, <4>3, <4>4
    <3> QED
      BY <1>1, <3>1, <3>2, <3>3
  <2>7. p.tail = t[Len(t)] /\ t # <<>> /\ Len(t) = Len(s) + 1
    BY <1>1, <2>2
  <2> HIDE DEF p, t, K
  <2>8. Linked(p, t, K)
    BY <2>2, <2>5, <2>6, <2>7 DEF Linked
  <2> QED
    BY <2>3, <2>8 DEF t, p, K
<1> QED
  BY <1>4, <1>5

(* pop_front.                                                              *)
LEMMA PopFrontLinks ==
  ASSUME NEW N, Null \notin N, NEW J, NEW l \in IntrusiveLists(N),
         NEW s \in Seq(N), NoDuplicates(s), Linked(l, s, J),
         s # <<>>
  PROVE  /\ pop_front(l) \in IntrusiveLists(N)
         /\ Linked(pop_front(l), Tail(s), J \ {l.next[l.head]})
<1> DEFINE t == Tail(s)
           p == pop_front(l)
           second == l.next[l.head]
           K == J \ {second}
<1>1. /\ t \in Seq(N) /\ Len(s) \in Nat /\ Len(s) >= 1 /\ Len(t) = Len(s) - 1
      /\ \A i \in 1..(Len(s) - 1) : t[i] = s[i + 1]
  OBVIOUS
<1>2. \A i \in 1..Len(s) : s[i] \in N /\ s[i] # Null
  OBVIOUS
<1>3. l.head = s[1] /\ l.tail = s[Len(s)]
      /\ second = IF Len(s) = 1 THEN Null ELSE s[2]
  <2>1. l.head = s[1] /\ l.tail = s[Len(s)]
    BY DEF Linked
  <2>2. 1 \in 1..Len(s) /\ 1 + 1 = 2
    BY <1>1
  <2>3. l.next[s[1]] = IF 1 = Len(s) THEN Null ELSE s[1 + 1]
    BY <2>2 DEF Linked
  <2> QED
    BY <2>1, <2>2, <2>3
<1>4. second \in N \union {Null} /\ (second = Null <=> Len(s) = 1)
  <2>1. Len(s) # 1 => 2 \in 1..Len(s)
    BY <1>1
  <2> QED
    BY <1>2, <1>3, <2>1
<1>5. /\ p.head = second /\ p.tail = (IF second = Null THEN Null ELSE l.tail)
      /\ p.next = l.next /\ p.prev = SetMember(l.prev, second, Null)
      /\ p = [head |-> p.head, tail |-> p.tail, next |-> p.next, prev |-> p.prev]
  <2> DEFINE tail == IF second = Null THEN Null ELSE l.tail
             prev == SetMember(l.prev, second, Null)
  <2>1. l = [head |-> l.head, tail |-> l.tail, next |-> l.next, prev |-> l.prev]
    BY DEF IntrusiveLists
  <2>2. p = [l EXCEPT !.head = second, !.tail = tail, !.prev = prev]
    BY DEF pop_front
  <2> HIDE DEF p, second, tail, prev
  <2>3. p = [head |-> second, tail |-> tail, next |-> l.next, prev |-> prev]
    BY <2>1, <2>2
  <2> QED
    BY <2>3 DEF tail, prev
<1>6. \A m \in N : p.prev[m] = IF m = second THEN Null ELSE l.prev[m]
  BY <1>4, <1>5 DEF SetMember, IntrusiveLists
<1>7. p.prev \in [N -> N \union {Null}]
  BY <1>4, <1>5 DEF SetMember, IntrusiveLists
<1>8. p \in IntrusiveLists(N)
  <2>1. /\ p.head \in N \union {Null} /\ p.tail \in N \union {Null}
        /\ p.next \in [N -> N \union {Null}]
    BY <1>4, <1>5 DEF IntrusiveLists
  <2> HIDE DEF p
  <2> QED
    BY <1>5, <1>7, <2>1 DEF IntrusiveLists
<1> HIDE DEF p, t, second, K
<1>9. p.head = (IF t = <<>> THEN Null ELSE t[1])
      /\ p.tail = (IF t = <<>> THEN Null ELSE t[Len(t)])
  <2>1. CASE Len(s) = 1
    BY <1>1, <1>3, <1>4, <1>5, <2>1
  <2>2. CASE Len(s) # 1
    <3>1. t # <<>> /\ t[1] = s[2] /\ t[Len(s) - 1] = s[Len(s)]
      BY <1>1, <2>2
    <3> QED
      BY <1>1, <1>3, <1>4, <1>5, <2>2, <3>1
  <2> QED
    BY <2>1, <2>2
<1>10. ASSUME NEW i \in 1..(Len(s) - 1)
       PROVE  /\ p.next[t[i]] = IF i = Len(s) - 1 THEN Null ELSE t[i + 1]
              /\ t[i] \notin K => p.prev[t[i]] = IF i = 1 THEN Null ELSE t[i - 1]
  <2>1. /\ i \in Nat /\ i + 1 \in 1..Len(s) /\ t[i] = s[i + 1] /\ Len(s) # 1
        /\ i + 1 # 1 /\ (i + 1 = Len(s) <=> i = Len(s) - 1) /\ (i + 1) - 1 = i
        /\ (i + 1) + 1 = i + 2
        /\ i # Len(s) - 1 => t[i + 1] = s[i + 2]
        /\ i # 1 => t[i - 1] = s[i]
        /\ i \in 1..Len(s)
    <3>1. i \in Nat /\ 1 <= i /\ i <= Len(s) - 1 /\ Len(s) # 1
      BY <1>1
    <3>2. i # Len(s) - 1 => t[i + 1] = s[i + 2]
      <4> SUFFICES ASSUME i # Len(s) - 1 PROVE t[i + 1] = s[i + 2]
        OBVIOUS
      <4>1. i + 1 \in 1..(Len(s) - 1) /\ (i + 1) + 1 = i + 2
        BY <1>1, <3>1
      <4> QED
        BY <1>1, <4>1
    <3>3. i # 1 => t[i - 1] = s[i]
      <4> SUFFICES ASSUME i # 1 PROVE t[i - 1] = s[i]
        OBVIOUS
      <4>1. i - 1 \in 1..(Len(s) - 1) /\ (i - 1) + 1 = i
        BY <1>1, <3>1
      <4> QED
        BY <1>1, <4>1
    <3>4. t[i] = s[i + 1]
      BY <1>1
    <3> QED
      BY <1>1, <3>1, <3>2, <3>3, <3>4
  <2>2. /\ l.next[s[i + 1]] = IF i + 1 = Len(s) THEN Null ELSE s[(i + 1) + 1]
        /\ s[i + 1] \notin J => l.prev[s[i + 1]] = IF i + 1 = 1 THEN Null ELSE s[(i + 1) - 1]
    BY <2>1 DEF Linked
  <2>3. p.next[t[i]] = IF i = Len(s) - 1 THEN Null ELSE t[i + 1]
    BY <1>5, <2>1, <2>2
  <2>4. s[i + 1] = second <=> i = 1
    <3>1. second = s[2] /\ 2 \in 1..Len(s)
      BY <1>1, <1>3, <2>1
    <3>2. s[i + 1] = s[2] <=> i + 1 = 2
      BY <2>1, <3>1 DEF NoDuplicates
    <3> QED
      BY <2>1, <3>1, <3>2
  <2>5. p.prev[s[i + 1]] = IF i = 1 THEN Null ELSE l.prev[s[i + 1]]
    BY <1>2, <1>6, <2>1, <2>4
  <2>6. i # 1 /\ s[i + 1] \notin K => s[i + 1] \notin J
    BY <2>4 DEF K
  <2> QED
    BY <2>1, <2>2, <2>3, <2>5, <2>6
<1> HIDE DEF p, t
<1>11. Linked(p, t, K)
  BY <1>1, <1>9, <1>10 DEF Linked
<1> QED
  BY <1>8, <1>11 DEF p, t, K, second

(* erase of an item that is linked.                                        *)
LEMMA EraseLinks ==
  ASSUME NEW N, Null \notin N, NEW J, NEW l \in IntrusiveLists(N),
         NEW s \in Seq(N), NoDuplicates(s), Linked(l, s, J),
         NEW k \in 1..Len(s), s[k] \notin J
  PROVE  /\ erase(l, s[k]) \in IntrusiveLists(N)
         /\ Linked(erase(l, s[k]), Without(s, k), J \ {l.next[s[k]]})
<1> DEFINE t == Without(s, k)
           p == erase(l, s[k])
           before == l.prev[s[k]]
           after == l.next[s[k]]
           K == J \ {after}
<1> HIDE DEF K
<1>1. /\ t \in Seq(N) /\ Len(s) \in Nat /\ k \in Nat /\ 1 <= k /\ k <= Len(s)
      /\ Len(t) = Len(s) - 1
      /\ \A i \in 1..(Len(s) - 1) : t[i] = IF i < k THEN s[i] ELSE s[i + 1]
  BY WithoutElements
<1>2. \A i \in 1..Len(s) : s[i] \in N /\ s[i] # Null
  OBVIOUS
<1>3. /\ before = IF k = 1 THEN Null ELSE s[k - 1]
      /\ after = IF k = Len(s) THEN Null ELSE s[k + 1]
  BY <1>1 DEF Linked
<1>4. /\ before \in N \union {Null} /\ (before = Null <=> k = 1)
      /\ after \in N \union {Null} /\ (after = Null <=> k = Len(s))
  BY <1>1, <1>2, <1>3
<1>5. /\ p.head = (IF before = Null THEN after ELSE l.head)
      /\ p.tail = (IF after = Null THEN before ELSE l.tail)
      /\ p.next = SetMember(l.next, before, after)
      /\ p.prev = SetMember(l.prev, after, before)
      /\ p = [head |-> p.head, tail |-> p.tail, next |-> p.next, prev |-> p.prev]
  BY DEF erase
<1>6. \A m \in N : /\ p.next[m] = IF m = before THEN after ELSE l.next[m]
                   /\ p.prev[m] = IF m = after THEN before ELSE l.prev[m]
  <2>1. l.next \in [N -> N \union {Null}] /\ l.prev \in [N -> N \union {Null}]
    BY DEF IntrusiveLists
  <2> HIDE DEF before, after
  <2> QED
    BY <1>4, <1>5, <2>1 DEF SetMember
<1>7. p.next \in [N -> N \union {Null}] /\ p.prev \in [N -> N \union {Null}]
  BY <1>4, <1>5 DEF SetMember, IntrusiveLists
<1>8. p \in IntrusiveLists(N)
  <2>1. p.head \in N \union {Null} /\ p.tail \in N \union {Null}
    BY <1>4, <1>5 DEF IntrusiveLists
  <2> HIDE DEF p
  <2> QED
    BY <1>5, <1>7, <2>1 DEF IntrusiveLists
<1> HIDE DEF p, t, before, after
<1>9. l.head = s[1] /\ l.tail = s[Len(s)]
  BY <1>1 DEF Linked
<1>10. p.head = IF t = <<>> THEN Null ELSE t[1]
  <2>1. CASE Len(s) = 1
    BY <1>1, <1>4, <1>5, <2>1
  <2>2. CASE Len(s) # 1 /\ k = 1
    <3>1. t # <<>> /\ t[1] = s[2]
      BY <1>1, <2>2
    <3> QED
      BY <1>3, <1>4, <1>5, <2>2, <3>1
  <2>3. CASE Len(s) # 1 /\ k # 1
    <3>1. t # <<>> /\ t[1] = s[1]
      BY <1>1, <2>3
    <3> QED
      BY <1>4, <1>5, <1>9, <2>3, <3>1
  <2> QED
    BY <2>1, <2>2, <2>3
<1>11. p.tail = IF t = <<>> THEN Null ELSE t[Len(t)]
  <2>1. CASE Len(s) = 1
    BY <1>1, <1>4, <1>5, <2>1
  <2>2. CASE Len(s) # 1 /\ k = Len(s)
    <3>1. t # <<>> /\ t[Len(t)] = s[k - 1]
      BY <1>1, <2>2
    <3> QED
      BY <1>3, <1>4, <1>5, <2>2, <3>1
  <2>3. CASE Len(s) # 1 /\ k # Len(s)
    <3>1. t # <<>> /\ t[Len(t)] = s[Len(s)]
      BY <1>1, <2>3
    <3> QED
      BY <1>4, <1>5, <1>9, <2>3, <3>1
  <2> QED
    BY <2>1, <2>2, <2>3
<1>12. ASSUME NEW i \in 1..(Len(s) - 1)
       PROVE  /\ p.next[t[i]] = IF i = Len(s) - 1 THEN Null ELSE t[i + 1]
              /\ t[i] \notin K => p.prev[t[i]] = IF i = 1 THEN Null ELSE t[i - 1]
  <2>1. i \in Nat /\ i \in 1..Len(s) /\ i + 1 \in 1..Len(s) /\ Len(s) # 1
        /\ (i # 1 => i - 1 \in 1..(Len(s) - 1))
        /\ (i # Len(s) - 1 => i + 1 \in 1..(Len(s) - 1))
    BY <1>1
  <2>2. \A j \in 1..Len(s) :
          /\ s[j] = before <=> j = k - 1
          /\ s[j] = after <=> j = k + 1
    <3> SUFFICES ASSUME NEW j \in 1..Len(s)
                 PROVE  (s[j] = before <=> j = k - 1) /\ (s[j] = after <=> j = k + 1)
      OBVIOUS
    <3>1. s[j] = before <=> j = k - 1
      <4>1. CASE k = 1
        BY <1>1, <1>2, <1>3, <4>1
      <4>2. CASE k # 1
        <5>1. k - 1 \in 1..Len(s) /\ before = s[k - 1]
          BY <1>1, <1>3, <4>2
        <5> QED
          BY <5>1 DEF NoDuplicates
      <4> QED
        BY <4>1, <4>2
    <3>2. s[j] = after <=> j = k + 1
      <4>1. CASE k = Len(s)
        BY <1>1, <1>2, <1>3, <4>1
      <4>2. CASE k # Len(s)
        <5>1. k + 1 \in 1..Len(s) /\ after = s[k + 1]
          BY <1>1, <1>3, <4>2
        <5> QED
          BY <5>1 DEF NoDuplicates
      <4> QED
        BY <4>1, <4>2
    <3> QED
      BY <3>1, <3>2
  <2>3. \A j \in 1..Len(s) :
          /\ p.next[s[j]] = IF j = k - 1 THEN after
                            ELSE IF j = Len(s) THEN Null ELSE s[j + 1]
          /\ s[j] \notin K => p.prev[s[j]] = IF j = k + 1 THEN before
                                             ELSE IF j = 1 THEN Null ELSE s[j - 1]
    <3> SUFFICES ASSUME NEW j \in 1..Len(s)
                 PROVE  /\ p.next[s[j]] = IF j = k - 1 THEN after
                                          ELSE IF j = Len(s) THEN Null ELSE s[j + 1]
                        /\ s[j] \notin K => p.prev[s[j]] = IF j = k + 1 THEN before
                                                           ELSE IF j = 1 THEN Null ELSE s[j - 1]
      OBVIOUS
    <3>1. /\ l.next[s[j]] = IF j = Len(s) THEN Null ELSE s[j + 1]
          /\ s[j] \notin J => l.prev[s[j]] = IF j = 1 THEN Null ELSE s[j - 1]
      BY DEF Linked
    <3>2. /\ p.next[s[j]] = IF s[j] = before THEN after ELSE l.next[s[j]]
          /\ p.prev[s[j]] = IF s[j] = after THEN before ELSE l.prev[s[j]]
      BY <1>2, <1>6
    <3>3. s[j] # after /\ s[j] \notin K => s[j] \notin J
      BY DEF K
    <3> QED
      BY <2>2, <3>1, <3>2, <3>3
  <2>4. CASE i < k - 1
    <3>1. t[i] = s[i] /\ t[i + 1] = s[i + 1] /\ (i # 1 => t[i - 1] = s[i - 1])
      BY <1>1, <2>1, <2>4
    <3> QED
      BY <1>1, <2>1, <2>3, <2>4, <3>1
  <2>5. CASE i = k - 1
    <3>1. t[i] = s[i] /\ (i # 1 => t[i - 1] = s[i - 1])
      <4>1. i < k /\ i - 1 < k
        BY <1>1, <2>5
      <4> QED
        BY <1>1, <2>1, <4>1
    <3>2. i # Len(s) - 1 => t[i + 1] = s[k + 1]
      BY <1>1, <2>1, <2>5
    <3>3. i # k + 1 /\ (i = Len(s) - 1 <=> k = Len(s))
      BY <1>1, <2>1, <2>5
    <3>4. /\ p.next[s[i]] = after
          /\ s[i] \notin K => p.prev[s[i]] = IF i = 1 THEN Null ELSE s[i - 1]
      BY <2>1, <2>3, <2>5, <3>3
    <3> QED
      BY <1>3, <3>1, <3>2, <3>3, <3>4
  <2>6. CASE i = k
    <3>1. t[i] = s[i + 1] /\ (i # 1 => t[i - 1] = s[k - 1])
          /\ (i # Len(s) - 1 => t[i + 1] = s[(i + 1) + 1])
      BY <1>1, <2>1, <2>6
    <3> QED
      BY <1>1, <1>3, <2>1, <2>3, <2>6, <3>1
  <2>7. CASE i > k
    <3>1. t[i] = s[i + 1] /\ i # 1 /\ i \in Nat
      BY <1>1, <2>1, <2>7
    <3>2. t[i - 1] = s[i]
      <4>1. i - 1 \in 1..(Len(s) - 1) /\ ~(i - 1 < k) /\ (i - 1) + 1 = i
        BY <1>1, <2>1, <2>7
      <4> QED
        BY <1>1, <4>1
    <3>3. i # Len(s) - 1 => t[i + 1] = s[(i + 1) + 1]
      <4>1. i # Len(s) - 1 => i + 1 \in 1..(Len(s) - 1) /\ ~(i + 1 < k)
        BY <1>1, <2>1, <2>7
      <4> QED
        BY <1>1, <4>1
    <3> QED
      BY <1>1, <2>1, <2>3, <2>7, <3>1, <3>2, <3>3
  <2> QED
    BY <1>1, <2>1, <2>4, <2>5, <2>6, <2>7
<1>13. Linked(p, t, K)
  BY <1>1, <1>10, <1>11, <1>12 DEF Linked
<1> QED
  BY <1>8, <1>13 DEF p, t, after, K

(* Where a list ends and its links are the same, it is the same list.      *)
LEMMA SameLinks ==
  ASSUME NEW l, NEW p, NEW s, NEW J, NEW K, Linked(l, s, J),
         p.head = l.head, p.tail = l.tail,
         \A m \in Elements(s) : /\ p.next[m] = l.next[m]
                                /\ m \notin K => m \notin J /\ p.prev[m] = l.prev[m]
  PROVE  Linked(p, s, K)
BY DEF Linked, Elements

(* Whatever the links of the argument are, a call leaves links of nodes.   *)
LEMMA CallsTyped ==
  ASSUME NEW N, Null \notin N, NEW l \in IntrusiveLists(N), NEW n \in N
  PROVE  /\ push_back(l, n) \in IntrusiveLists(N)
         /\ erase(l, n) \in IntrusiveLists(N)
         /\ l.head # Null => pop_front(l) \in IntrusiveLists(N)
<1>0. /\ l.next \in [N -> N \union {Null}] /\ l.prev \in [N -> N \union {Null}]
      /\ l.head \in N \union {Null} /\ l.tail \in N \union {Null}
      /\ l.next[n] \in N \union {Null} /\ l.prev[n] \in N \union {Null}
      /\ l.head # Null => l.next[l.head] \in N \union {Null}
      /\ l = [head |-> l.head, tail |-> l.tail, next |-> l.next, prev |-> l.prev]
  BY DEF IntrusiveLists
<1>1. \A f \in [N -> N \union {Null}], x \in N \union {Null}, v \in N \union {Null} :
        SetMember(f, x, v) \in [N -> N \union {Null}]
  BY DEF SetMember
<1>2. push_back(l, n) \in IntrusiveLists(N)
  <2> DEFINE next == SetMember([l.next EXCEPT ![n] = Null], l.tail, n)
             prev == [l.prev EXCEPT ![n] = l.tail]
             head == IF l.tail = Null THEN n ELSE l.head
  <2>1. [l.next EXCEPT ![n] = Null] \in [N -> N \union {Null}]
    BY <1>0
  <2>2. next \in [N -> N \union {Null}]
    BY <1>0, <1>1, <2>1
  <2>3. prev \in [N -> N \union {Null}] /\ head \in N \union {Null}
    BY <1>0
  <2>4. push_back(l, n) = [head |-> head, tail |-> n, next |-> next, prev |-> prev]
    BY DEF push_back
  <2> HIDE DEF next, prev, head
  <2> QED
    BY <2>2, <2>3, <2>4 DEF IntrusiveLists
<1>3. erase(l, n) \in IntrusiveLists(N)
  <2> DEFINE before == l.prev[n]
             after == l.next[n]
             next == SetMember(l.next, before, after)
             prev == SetMember(l.prev, after, before)
             head == IF before = Null THEN after ELSE l.head
             tail == IF after = Null THEN before ELSE l.tail
  <2>1. next \in [N -> N \union {Null}] /\ prev \in [N -> N \union {Null}]
    BY <1>0, <1>1
  <2>2. head \in N \union {Null} /\ tail \in N \union {Null}
    BY <1>0
  <2>3. erase(l, n) = [head |-> head, tail |-> tail, next |-> next, prev |-> prev]
    BY DEF erase
  <2> HIDE DEF next, prev, head, tail
  <2> QED
    BY <2>1, <2>2, <2>3 DEF IntrusiveLists
<1>4. l.head # Null => pop_front(l) \in IntrusiveLists(N)
  <2> SUFFICES ASSUME l.head # Null PROVE pop_front(l) \in IntrusiveLists(N)
    OBVIOUS
  <2> DEFINE second == l.next[l.head]
             prev == SetMember(l.prev, second, Null)
             tail == IF second = Null THEN Null ELSE l.tail
  <2>1. pop_front(l) = [l EXCEPT !.head = second, !.tail = tail, !.prev = prev]
    BY DEF pop_front
  <2>2. prev \in [N -> N \union {Null}] /\ tail \in N \union {Null}
    BY <1>0, <1>1
  <2>3. second \in N \union {Null}
    BY <1>0
  <2> HIDE DEF second, prev, tail
  <2>4. pop_front(l) = [head |-> second, tail |-> tail, next |-> l.next, prev |-> prev]
    BY <1>0, <2>1
  <2> QED
    BY <1>0, <2>2, <2>3, <2>4 DEF IntrusiveLists
<1> QED
  BY <1>2, <1>3, <1>4

(* What the calls leave alone.                                             *)
LEMMA CallsKeepLinks ==
  ASSUME NEW N, Null \notin N, NEW l \in IntrusiveLists(N), NEW n \in N, NEW m \in N
  PROVE  /\ m # n => push_back(l, n).prev[m] = l.prev[m]
         /\ m # n /\ m # l.tail => push_back(l, n).next[m] = l.next[m]
         /\ l.head # Null =>
              /\ pop_front(l).next = l.next
              /\ m # l.next[l.head] => pop_front(l).prev[m] = l.prev[m]
         /\ m # l.prev[n] => erase(l, n).next[m] = l.next[m]
         /\ m # l.next[n] => erase(l, n).prev[m] = l.prev[m]
         /\ push_front(l, n).prev = l.prev
         /\ m # n => push_front(l, n).next[m] = l.next[m]
<1>0. /\ l.next \in [N -> N \union {Null}] /\ l.prev \in [N -> N \union {Null}]
      /\ l.head \in N \union {Null} /\ l.tail \in N \union {Null}
      /\ l.next[n] \in N \union {Null} /\ l.prev[n] \in N \union {Null}
      /\ l.head # Null => l.next[l.head] \in N \union {Null}
      /\ l = [head |-> l.head, tail |-> l.tail, next |-> l.next, prev |-> l.prev]
  BY DEF IntrusiveLists
<1>1. \A f \in [N -> N \union {Null}], x \in N \union {Null} :
        m # x => \A v : SetMember(f, x, v)[m] = f[m]
  BY DEF SetMember
<1>2. /\ m # n => push_back(l, n).prev[m] = l.prev[m]
      /\ m # n /\ m # l.tail => push_back(l, n).next[m] = l.next[m]
  <2>1. [l.next EXCEPT ![n] = Null] \in [N -> N \union {Null}]
    BY <1>0
  <2>2. m # n => [l.next EXCEPT ![n] = Null][m] = l.next[m]
    BY <1>0
  <2> QED
    BY <1>0, <1>1, <2>1, <2>2 DEF push_back
<1>3. l.head # Null =>
        /\ pop_front(l).next = l.next
        /\ m # l.next[l.head] => pop_front(l).prev[m] = l.prev[m]
  <2> SUFFICES ASSUME l.head # Null
               PROVE  /\ pop_front(l).next = l.next
                      /\ m # l.next[l.head] => pop_front(l).prev[m] = l.prev[m]
    OBVIOUS
  <2> DEFINE second == l.next[l.head]
             prev == SetMember(l.prev, second, Null)
             tail == IF second = Null THEN Null ELSE l.tail
  <2>1. pop_front(l) = [l EXCEPT !.head = second, !.tail = tail, !.prev = prev]
    BY DEF pop_front
  <2>2. m # second => prev[m] = l.prev[m]
    BY <1>0, <1>1
  <2> HIDE DEF second, prev, tail
  <2>3. pop_front(l) = [head |-> second, tail |-> tail, next |-> l.next, prev |-> prev]
    BY <1>0, <2>1
  <2> QED
    BY <2>2, <2>3 DEF second
<1>4. /\ m # l.prev[n] => erase(l, n).next[m] = l.next[m]
      /\ m # l.next[n] => erase(l, n).prev[m] = l.prev[m]
  BY <1>0, <1>1 DEF erase
<1>5. /\ push_front(l, n).prev = l.prev
      /\ m # n => push_front(l, n).next[m] = l.next[m]
  BY <1>0 DEF push_front
<1> QED
  BY <1>2, <1>3, <1>4, <1>5

(* Two lists are one after the Next of the last node of the first is set.  *)
LEMMA JoinLinks ==
  ASSUME NEW N, Null \notin N, NEW J, NEW l, NEW o, NEW p,
         l.next \in [N -> N \union {Null}], l.prev \in [N -> N \union {Null}],
         NEW s \in Seq(N), NEW t \in Seq(N), s # <<>>, t # <<>>,
         NoDuplicates(s), NoDuplicates(t), Elements(s) \cap Elements(t) = {},
         Linked(l, s, J), Linked(o, t, J), o.next = l.next, o.prev = l.prev,
         p.head = l.head, p.tail = o.tail, p.prev = l.prev,
         p.next = [l.next EXCEPT ![l.tail] = o.head]
  PROVE  Linked(p, s \o t, J \union {o.head})
<1> DEFINE u == s \o t
           K == J \union {o.head}
           a == Len(s)
           b == Len(t)
<1>1. /\ a \in Nat /\ b \in Nat /\ a >= 1 /\ b >= 1 /\ Len(u) = a + b /\ u # <<>>
      /\ \A i \in 1..a : u[i] = s[i]
      /\ \A j \in 1..b : u[a + j] = t[j]
      /\ u \in Seq(N)
  <2>1. a \in Nat /\ b \in Nat /\ a >= 1 /\ b >= 1
    OBVIOUS
  <2>2. /\ Len(u) = a + b /\ u \in Seq(N)
        /\ \A i \in 1..a : u[i] = s[i]
        /\ \A j \in 1..b : u[a + j] = t[j]
    BY ConcatElements
  <2>3. u # <<>>
    <3> HIDE DEF u, a, b
    <3> QED
      BY <2>1, <2>2
  <2> QED
    BY <2>1, <2>2, <2>3
<1>2. /\ l.head = s[1] /\ l.tail = s[a] /\ o.head = t[1] /\ o.tail = t[b]
      /\ s[1] \in N /\ s[a] \in N /\ t[1] \in N
      /\ 1 \in 1..a /\ a \in 1..a /\ 1 \in 1..b /\ b \in 1..b
  <2>1. 1 \in 1..a /\ a \in 1..a /\ 1 \in 1..b /\ b \in 1..b
    BY <1>1
  <2>2. l.head = s[1] /\ l.tail = s[a] /\ o.head = t[1] /\ o.tail = t[b]
    BY DEF Linked
  <2> QED
    BY <2>1, <2>2
<1>3. \A m \in N : p.next[m] = IF m = s[a] THEN t[1] ELSE l.next[m]
  BY <1>2
<1>4. \A i \in 1..a :
        /\ l.next[s[i]] = IF i = a THEN Null ELSE s[i + 1]
        /\ s[i] \notin J => l.prev[s[i]] = IF i = 1 THEN Null ELSE s[i - 1]
  BY DEF Linked
<1>5. \A j \in 1..b :
        /\ l.next[t[j]] = IF j = b THEN Null ELSE t[j + 1]
        /\ t[j] \notin J => l.prev[t[j]] = IF j = 1 THEN Null ELSE t[j - 1]
  BY DEF Linked
<1>6. \A i \in 1..a : s[i] \in N /\ (s[i] = s[a] <=> i = a)
  BY <1>2 DEF NoDuplicates
<1>7. \A j \in 1..b : t[j] \in N /\ t[j] # s[a] /\ (t[j] = t[1] <=> j = 1)
  <2>1. \A j \in 1..b : t[j] \in N /\ (t[j] = t[1] <=> j = 1)
    BY <1>2 DEF NoDuplicates
  <2>2. \A j \in 1..b : t[j] \in Elements(t)
    BY DEF Elements
  <2>3. s[a] \in Elements(s)
    BY <1>2 DEF Elements
  <2> QED
    BY <2>1, <2>2, <2>3
<1> HIDE DEF u, a, b
<1>8. ASSUME NEW i \in 1..(a + b)
      PROVE  /\ p.next[u[i]] = IF i = a + b THEN Null ELSE u[i + 1]
             /\ u[i] \notin K => p.prev[u[i]] = IF i = 1 THEN Null ELSE u[i - 1]
  <2>1. CASE i < a
    <3>1. /\ i \in 1..a /\ i + 1 \in 1..a /\ i # a /\ i # a + b
          /\ i # 1 => i - 1 \in 1..a
      BY <1>1, <2>1
    <3>2. u[i] = s[i] /\ u[i + 1] = s[i + 1] /\ (i # 1 => u[i - 1] = s[i - 1])
      BY <1>1, <3>1
    <3>3. p.next[s[i]] = s[i + 1]
      BY <1>3, <1>4, <1>6, <3>1
    <3>4. s[i] \notin J => p.prev[s[i]] = IF i = 1 THEN Null ELSE s[i - 1]
      BY <1>4, <3>1
    <3> QED
      BY <3>1, <3>2, <3>3, <3>4
  <2>2. CASE i = a
    <3>1. i \in 1..a /\ i # a + b /\ (i # 1 => i - 1 \in 1..a)
      BY <1>1, <2>2
    <3>2. u[i] = s[a] /\ u[i + 1] = t[1] /\ (i # 1 => u[i - 1] = s[i - 1])
      BY <1>1, <1>2, <2>2, <3>1
    <3>3. p.next[s[a]] = t[1]
      BY <1>2, <1>3
    <3>4. s[i] \notin J => p.prev[s[i]] = IF i = 1 THEN Null ELSE s[i - 1]
      BY <1>4, <3>1
    <3> QED
      BY <2>2, <3>1, <3>2, <3>3, <3>4
  <2>3. CASE i > a
    <3> DEFINE j == i - a
    <3>1. /\ j \in 1..b /\ i = a + j /\ i # 1 /\ (j = b <=> i = a + b)
          /\ j # b => j + 1 \in 1..b /\ i + 1 = a + (j + 1)
          /\ j # 1 => j - 1 \in 1..b /\ i - 1 = a + (j - 1)
      <4>1. i \in Nat /\ i <= a + b /\ i > a /\ a \in Nat /\ b \in Nat /\ a >= 1
        BY <1>1, <2>3
      <4>2. j \in Nat /\ j >= 1 /\ j <= b /\ i = a + j /\ i # 1 /\ (j = b <=> i = a + b)
        BY <4>1
      <4> HIDE DEF j
      <4>3. j # b => j + 1 \in 1..b /\ i + 1 = a + (j + 1)
        BY <4>1, <4>2
      <4>4. j # 1 => j - 1 \in 1..b /\ i - 1 = a + (j - 1)
        BY <4>1, <4>2
      <4> QED
        BY <4>1, <4>2, <4>3, <4>4
    <3> HIDE DEF j
    <3>2. u[i] = t[j] /\ (j # b => u[i + 1] = t[j + 1]) /\ (j # 1 => u[i - 1] = t[j - 1])
      BY <1>1, <3>1
    <3>3. p.next[t[j]] = IF j = b THEN Null ELSE t[j + 1]
      BY <1>3, <1>5, <1>7, <3>1
    <3>4. t[j] \notin K => j # 1 /\ p.prev[t[j]] = t[j - 1]
      BY <1>2, <1>5, <1>7, <3>1
    <3> QED
      BY <3>1, <3>2, <3>3, <3>4
  <2> QED
    BY <1>1, <2>1, <2>2, <2>3
<1>9. p.head = u[1] /\ p.tail = u[a + b]
  BY <1>1, <1>2
<1> HIDE DEF K
<1>10. Linked(p, u, K)
  BY <1>1, <1>8, <1>9 DEF Linked
<1> QED
  BY <1>10 DEF u, K

(* What append and prepend are called with.                                *)
ListsToJoin(N, J, l, s, o, t) ==
  /\ Null \notin N
  /\ l \in IntrusiveLists(N) /\ s \in Seq(N) /\ NoDuplicates(s) /\ Linked(l, s, J)
  /\ o \in IntrusiveLists(N) /\ t \in Seq(N) /\ NoDuplicates(t) /\ Linked(o, t, J)
  /\ o.next = l.next /\ o.prev = l.prev
  /\ t # <<>>
  /\ Elements(s) \cap Elements(t) = {}

(* append of a list that is not empty.                                     *)
LEMMA AppendLinks ==
  ASSUME NEW N, NEW J, NEW l, NEW s, NEW o, NEW t, ListsToJoin(N, J, l, s, o, t)
  PROVE  /\ append(l, o) \in IntrusiveLists(N)
         /\ Linked(append(l, o), s \o t,
                   IF l.head = Null THEN J ELSE J \union {o.head})
<1> USE DEF ListsToJoin
<1> DEFINE p == append(l, o)
<1>0. /\ l.next \in [N -> N \union {Null}] /\ l.prev \in [N -> N \union {Null}]
      /\ l = [head |-> l.head, tail |-> l.tail, next |-> l.next, prev |-> l.prev]
      /\ l.head \in N \union {Null} /\ l.tail \in N \union {Null}
      /\ o.head \in N \union {Null} /\ o.tail \in N \union {Null}
  BY DEF IntrusiveLists
<1>1. p = [head |-> IF l.head = Null THEN o.head ELSE l.head, tail |-> o.tail,
           next |-> IF l.head = Null THEN l.next
                                     ELSE [l.next EXCEPT ![l.tail] = o.head],
           prev |-> l.prev]
  <2> DEFINE head == IF l.head = Null THEN o.head ELSE l.head
             tail == o.tail
             next == IF l.head = Null THEN l.next ELSE [l.next EXCEPT ![l.tail] = o.head]
  <2>1. p = [l EXCEPT !.head = head, !.next = next, !.tail = tail]
    BY DEF append
  <2> HIDE DEF p, head, next, tail
  <2>2. p = [head |-> head, tail |-> tail, next |-> next, prev |-> l.prev]
    BY <1>0, <2>1
  <2> QED
    BY <2>2 DEF head, next, tail
<1> HIDE DEF p
<1>2. p \in IntrusiveLists(N)
  BY <1>0, <1>1 DEF IntrusiveLists
<1>3. CASE s = <<>>
  <2>1. l.head = Null
    BY <1>3 DEF Linked
  <2>2. s \o t = t
    BY <1>3
  <2>3. Linked(p, t, J)
    BY <1>1, <2>1, SameLinks
  <2> QED
    BY <1>1, <1>2, <2>1, <2>2, <2>3 DEF p
<1>4. CASE s # <<>>
  <2>1. l.head # Null
    BY <1>4 DEF Linked
  <2>2. Linked(p, s \o t, J \union {o.head})
    <3>1. /\ p.head = l.head /\ p.tail = o.tail /\ p.prev = l.prev
          /\ p.next = [l.next EXCEPT ![l.tail] = o.head]
      BY <1>1, <2>1
    <3> QED
      BY <1>0, <1>4, <3>1, JoinLinks
  <2> QED
    BY <1>1, <1>2, <2>1, <2>2 DEF p
<1> QED
  BY <1>3, <1>4

(* prepend of a list that is not empty.                                    *)
LEMMA PrependLinks ==
  ASSUME NEW N, NEW J, NEW l, NEW s, NEW o, NEW t, ListsToJoin(N, J, l, s, o, t)
  PROVE  /\ prepend(l, o) \in IntrusiveLists(N)
         /\ Linked(prepend(l, o), t \o s,
                   IF l.head = Null THEN J ELSE J \union {l.head})
<1> USE DEF ListsToJoin
<1> DEFINE p == prepend(l, o)
<1>0. /\ l.next \in [N -> N \union {Null}] /\ l.prev \in [N -> N \union {Null}]
      /\ l = [head |-> l.head, tail |-> l.tail, next |-> l.next, prev |-> l.prev]
      /\ l.head \in N \union {Null} /\ l.tail \in N \union {Null}
      /\ o.head \in N \union {Null} /\ o.tail \in N \union {Null}
  BY DEF IntrusiveLists
<1>1. p = [head |-> o.head, tail |-> IF l.tail = Null THEN o.tail ELSE l.tail,
           next |-> [l.next EXCEPT ![o.tail] = l.head], prev |-> l.prev]
  <2> DEFINE head == o.head
             tail == IF l.tail = Null THEN o.tail ELSE l.tail
             next == [l.next EXCEPT ![o.tail] = l.head]
  <2>1. p = [l EXCEPT !.next = next, !.head = head, !.tail = tail]
    BY DEF prepend
  <2> HIDE DEF p, head, next, tail
  <2>2. p = [head |-> head, tail |-> tail, next |-> next, prev |-> l.prev]
    BY <1>0, <2>1
  <2> QED
    BY <2>2 DEF head, next, tail
<1> HIDE DEF p
<1>2. p \in IntrusiveLists(N)
  <2>1. [l.next EXCEPT ![o.tail] = l.head] \in [N -> N \union {Null}]
    BY <1>0
  <2> QED
    BY <1>0, <1>1, <2>1 DEF IntrusiveLists
<1>3. CASE s = <<>>
  <2>1. l.head = Null /\ l.tail = Null
    BY <1>3 DEF Linked
  <2>2. t \o s = t
    BY <1>3
  <2>3. o.tail \in N /\ l.next[o.tail] = Null
    <3>1. Len(t) \in 1..Len(t) /\ o.tail = t[Len(t)]
      BY DEF Linked
    <3>2. o.next[t[Len(t)]] = Null
      BY <3>1 DEF Linked
    <3> QED
      BY <3>1, <3>2
  <2>4. p.next = l.next
    BY <1>0, <1>1, <2>1, <2>3
  <2>5. p.head = o.head /\ p.tail = o.tail /\ p.prev = l.prev
    BY <1>1, <2>1
  <2>6. Linked(p, t, J)
    BY <2>4, <2>5, SameLinks
  <2> QED
    BY <1>1, <1>2, <2>1, <2>2, <2>6 DEF p
<1>4. CASE s # <<>>
  <2>1. l.head # Null /\ l.tail # Null
    <3>1. Len(s) \in 1..Len(s) /\ 1 \in 1..Len(s)
      BY <1>4
    <3>2. s[1] \in N /\ s[Len(s)] \in N
      BY <3>1
    <3>3. l.head = s[1] /\ l.tail = s[Len(s)]
      BY <1>4 DEF Linked
    <3> QED
      BY <3>2, <3>3
  <2>2. Linked(p, t \o s, J \union {l.head})
    <3>1. /\ p.head = o.head /\ p.tail = l.tail /\ p.prev = o.prev
          /\ p.next = [o.next EXCEPT ![o.tail] = l.head]
      BY <1>1, <2>1
    <3>2. o.next \in [N -> N \union {Null}] /\ o.prev \in [N -> N \union {Null}]
      BY <1>0
    <3> QED
      BY <1>4, <3>1, <3>2, JoinLinks
  <2> QED
    BY <1>1, <1>2, <2>1, <2>2 DEF p
<1> QED
  BY <1>3, <1>4

(* push_front on a list that is not empty.                                 *)
LEMMA PushFrontLinks ==
  ASSUME NEW N, Null \notin N, NEW J, NEW l \in IntrusiveLists(N),
         NEW s \in Seq(N), NoDuplicates(s), Linked(l, s, J), s # <<>>,
         NEW n \in N, n \notin Elements(s)
  PROVE  /\ push_front(l, n) \in IntrusiveLists(N)
         /\ Linked(push_front(l, n), <<n>> \o s, J \union {n, l.head})
<1> DEFINE p == push_front(l, n)
           o == [head |-> n, tail |-> n, next |-> [l.next EXCEPT ![n] = Null],
                 prev |-> l.prev]
           m == [head |-> l.head, tail |-> l.tail,
                 next |-> [l.next EXCEPT ![n] = Null], prev |-> l.prev]
           K == J \union {n}
<1>0. /\ l.next \in [N -> N \union {Null}] /\ l.prev \in [N -> N \union {Null}]
      /\ l = [head |-> l.head, tail |-> l.tail, next |-> l.next, prev |-> l.prev]
      /\ l.head \in N \union {Null} /\ l.tail \in N \union {Null}
  BY DEF IntrusiveLists
<1>1. p = [head |-> n, tail |-> l.tail, next |-> [l.next EXCEPT ![n] = l.head],
           prev |-> l.prev]
  <2> DEFINE next == [l.next EXCEPT ![n] = l.head]
  <2>1. p = [l EXCEPT !.next = next, !.head = n]
    BY DEF push_front
  <2> HIDE DEF p, next
  <2>2. p = [head |-> n, tail |-> l.tail, next |-> next, prev |-> l.prev]
    BY <1>0, <2>1
  <2> QED
    BY <2>2 DEF next
<1>2. p \in IntrusiveLists(N)
  <2>1. [l.next EXCEPT ![n] = l.head] \in [N -> N \union {Null}]
    BY <1>0
  <2> HIDE DEF p
  <2> QED
    BY <1>0, <1>1, <2>1 DEF IntrusiveLists
<1>3. /\ o.next \in [N -> N \union {Null}] /\ o.prev \in [N -> N \union {Null}]
      /\ o.next[n] = Null /\ \A x \in N : x # n => o.next[x] = l.next[x]
  BY <1>0
<1>4. /\ <<n>> \in Seq(N) /\ <<n>> # <<>> /\ Len(<<n>>) = 1 /\ <<n>>[1] = n
      /\ Elements(<<n>>) = {n} /\ NoDuplicates(<<n>>)
  BY DEF Elements, NoDuplicates
<1>5. Linked(o, <<n>>, K)
  <2> HIDE DEF o
  <2>1. o.head = n /\ o.tail = n
    BY DEF o
  <2> DEFINE u == <<n>>
  <2>2. Len(u) = 1 /\ u[1] = n /\ u # <<>>
    BY <1>4
  <2> HIDE DEF u
  <2>3. Linked(o, u, K)
    BY <1>3, <2>1, <2>2 DEF Linked
  <2> QED
    BY <2>3 DEF u
<1>6. Linked(m, s, K)
  <2>1. \A x \in Elements(s) : x \in N /\ x # n
    BY DEF Elements
  <2>2. \A x \in Elements(s) : m.next[x] = l.next[x] /\ m.prev[x] = l.prev[x]
    BY <1>0, <2>1
  <2>3. m.head = l.head /\ m.tail = l.tail
    OBVIOUS
  <2> HIDE DEF m
  <2> QED
    BY <2>2, <2>3, SameLinks
<1>7. /\ p.head = o.head /\ p.tail = m.tail /\ p.prev = o.prev
      /\ p.next = [o.next EXCEPT ![o.tail] = m.head]
      /\ m.next = o.next /\ m.prev = o.prev /\ m.head = l.head
  BY <1>0, <1>1
<1>8. Elements(<<n>>) \cap Elements(s) = {}
  BY <1>4
<1> HIDE DEF p, o, m
<1>9. Linked(p, <<n>> \o s, K \union {m.head})
  BY <1>3, <1>4, <1>5, <1>6, <1>7, <1>8, JoinLinks
<1>10. K \union {m.head} = J \union {n, l.head}
  BY <1>7
<1> QED
  BY <1>2, <1>9, <1>10 DEF p

(* Where every Prev is right it stays right.                               *)
LEMMA PushBackDenotes ==
  ASSUME NEW N, Null \notin N, NEW l \in IntrusiveLists(N),
         NEW s \in Seq(N), NoDuplicates(s), Denotes(l, s),
         NEW n \in N, n \notin Elements(s)
  PROVE  push_back(l, n) \in IntrusiveLists(N) /\ Denotes(push_back(l, n), Append(s, n))
<1>1. {} \ {n} = {}
  OBVIOUS
<1>2. Linked(l, s, {})
  BY DEF Denotes
<1> QED
  BY <1>1, <1>2, PushBackLinks DEF Denotes

LEMMA PopFrontDenotes ==
  ASSUME NEW N, Null \notin N, NEW l \in IntrusiveLists(N),
         NEW s \in Seq(N), NoDuplicates(s), Denotes(l, s), s # <<>>
  PROVE  pop_front(l) \in IntrusiveLists(N) /\ Denotes(pop_front(l), Tail(s))
<1>1. {} \ {l.next[l.head]} = {}
  OBVIOUS
<1>2. Linked(l, s, {})
  BY DEF Denotes
<1> QED
  BY <1>1, <1>2, PopFrontLinks DEF Denotes

LEMMA EraseDenotes ==
  ASSUME NEW N, Null \notin N, NEW l \in IntrusiveLists(N),
         NEW s \in Seq(N), NoDuplicates(s), Denotes(l, s), NEW k \in 1..Len(s)
  PROVE  erase(l, s[k]) \in IntrusiveLists(N) /\ Denotes(erase(l, s[k]), Without(s, k))
<1>1. {} \ {l.next[s[k]]} = {} /\ s[k] \notin {}
  OBVIOUS
<1>2. Linked(l, s, {})
  BY DEF Denotes
<1> DEFINE J == {}
<1>3. s[k] \notin J /\ Linked(l, s, J)
  BY <1>1, <1>2
<1> HIDE DEF J
<1>4. /\ erase(l, s[k]) \in IntrusiveLists(N)
      /\ Linked(erase(l, s[k]), Without(s, k), J \ {l.next[s[k]]})
  BY <1>3, EraseLinks
<1> QED
  BY <1>1, <1>4 DEF J, Denotes
==============================================================================
