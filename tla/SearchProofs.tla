---------------------------- MODULE SearchProofs ----------------------------
(***************************************************************************)
(* What a search promises its caller, for any index, any number of         *)
(* memories created and deleted meanwhile, and any size of pages.          *)
(*                                                                         *)
(* A sequence of matches moves only one way while a search is under way:   *)
(* what is created is inserted somewhere and moves others back, what is    *)
(* deleted lets others move forward.  So what is ahead of an offset only   *)
(* grows with creations, and only shrinks with deletions.  Choosing and    *)
(* sorting preserve this, because both keep subsequences subsequences.     *)
(***************************************************************************)
EXTENDS MemorySearch, FiniteSetTheorems, SequenceTheorems, WellFoundedInduction, TLAPS

-----------------------------------------------------------------------------
(***************************************************************************)
(* Natural numbers: the least element of a set, induction, recursion.      *)
(***************************************************************************)
LEMMA LeastOf ==
    ASSUME NEW S, S \subseteq Nat, S # {}
    PROVE  \E n \in S : \A m \in S : n <= m
  <1>1. IsWellFoundedOn(OpToRel(<, Nat), Nat)
    BY NatLessThanWellFounded
  <1>2. PICK n \in S : \A m \in S : ~(<<m, n>> \in OpToRel(<, Nat))
    BY <1>1, WFMin
  <1>3. ASSUME NEW m \in S PROVE ~(m < n)
    <2>1. ~(<<m, n>> \in OpToRel(<, Nat))
      BY <1>2
    <2>2. ~(<<m, n>> \in {ss \in Nat \X Nat : ss[1] < ss[2]})
      BY <2>1, Zenon DEF OpToRel
    <2> QED BY <2>2
  <1> QED BY <1>3

LEMMA Induction ==
    ASSUME NEW U, 0 \in U, \A n \in Nat : n \in U => n + 1 \in U
    PROVE  Nat \subseteq U
  <1> SUFFICES ASSUME Nat \ U # {} PROVE FALSE
    OBVIOUS
  <1>1. PICK n \in Nat \ U : \A m \in Nat \ U : n <= m
    BY LeastOf
  <1>2. n - 1 \in Nat /\ n - 1 \in U
    BY <1>1
  <1> QED BY <1>1, <1>2

\* The same, up to a bound.
LEMMA BoundedInduction ==
    ASSUME NEW N \in Nat, NEW U, 0 \in U, \A n \in 0 .. N - 1 : n \in U => n + 1 \in U
    PROVE  0 .. N \subseteq U
  <1> DEFINE V == {n \in Nat : n <= N => n \in U}
  <1>1. 0 \in V /\ \A n \in Nat : n \in V => n + 1 \in V
    OBVIOUS
  <1>2. Nat \subseteq V
    BY <1>1, Induction
  <1> QED BY <1>2

\* The greatest element of a set of numbers up to N.
LEMMA GreatestOf ==
    ASSUME NEW N \in Nat, NEW S, S \subseteq 0 .. N, S # {}
    PROVE  \E n \in S : \A m \in S : m <= n
  <1> DEFINE T == {N - n : n \in S}
  <1>1. T \subseteq Nat /\ T # {}
    <2>1. \A n \in S : n \in 0 .. N
      OBVIOUS
    <2>2. \A n \in S : N - n \in Nat
      BY <2>1
    <2>3. PICK n \in S : TRUE
      OBVIOUS
    <2>4. N - n \in T
      BY <2>3
    <2> QED BY <2>2, <2>4
  <1>2. PICK t \in T : \A u \in T : t <= u
    BY <1>1, LeastOf
  <1>3. PICK n \in S : t = N - n
    BY <1>2
  <1>4. \A m \in S : N - m \in T
    OBVIOUS
  <1> QED BY <1>2, <1>3, <1>4

Iterates(f, T, M, base, step) == /\ f \in [0 .. M -> T] /\ f[0] = base
                                 /\ \A n \in 1 .. M : f[n] = step[n][f[n - 1]]

\* A function that is given by its first value and by each value from the one before exists.
LEMMA Recursion ==
    ASSUME NEW T, NEW N \in Nat, NEW base \in T, NEW step \in [1 .. N -> [T -> T]]
    PROVE  \E f : Iterates(f, T, N, base, step)
  <1> DEFINE Upto(M, f) == Iterates(f, T, M, base, step)
             U == {M \in Nat : \E f : Upto(M, f)}
  <1>1. 0 \in U
    <2>1. Upto(0, [n \in 0 .. 0 |-> base])
      BY DEF Iterates
    <2> QED BY <2>1
  <1>2. ASSUME NEW M \in 0 .. N - 1, M \in U PROVE M + 1 \in U
    <2>1. PICK f : Upto(M, f)
      BY <1>2
    <2> DEFINE g == [n \in 0 .. M + 1 |-> IF n = M + 1 THEN step[M + 1][f[M]] ELSE f[n]]
    <2>2. step[M + 1][f[M]] \in T
      BY <2>1 DEF Iterates
    <2>3. g \in [0 .. M + 1 -> T]
      BY <2>1, <2>2 DEF Iterates
    <2>4. g[0] = base
      BY <2>1 DEF Iterates
    <2>5. ASSUME NEW n \in 1 .. M + 1 PROVE g[n] = step[n][g[n - 1]]
      <3>1. CASE n = M + 1
        BY <3>1
      <3>2. CASE n # M + 1
        <4>1. n \in 1 .. M /\ g[n] = f[n] /\ g[n - 1] = f[n - 1]
          BY <3>2
        <4> QED BY <2>1, <4>1 DEF Iterates
      <3> QED BY <3>1, <3>2
    <2>6. Upto(M + 1, g)
      <3> HIDE DEF g
      <3> QED BY <2>3, <2>4, <2>5 DEF Iterates
    <2>7. \E f1 : Upto(M + 1, f1)
      <3> HIDE DEF Upto, g
      <3> QED BY <2>6
    <2>8. M + 1 \in Nat
      OBVIOUS
    <2> QED
      <3> HIDE DEF Upto
      <3> QED BY <2>7, <2>8
  <1>3. 0 .. N \subseteq U
    <2> HIDE DEF U
    <2> QED BY <1>1, <1>2, BoundedInduction
  <1>4. N \in 0 .. N
    OBVIOUS
  <1> HIDE DEF Upto
  <1>5. \E f : Upto(N, f)
    BY <1>3, <1>4
  <1> QED BY <1>5 DEF Upto

-----------------------------------------------------------------------------
(***************************************************************************)
(* Subsequences.                                                           *)
(***************************************************************************)
Increasing(h, m, n) == /\ h \in [1 .. m -> 1 .. n]
                       /\ \A j, k \in 1 .. m : j < k => h[j] < h[k]

\* t is a subsequence of s.
Sub(t, s) == \E h : /\ Increasing(h, Len(t), Len(s))
                    /\ \A k \in 1 .. Len(t) : t[k] = s[h[k]]

\* What lies beyond the first n members of s.
Ahead(s, n) == {s[k] : k \in n + 1 .. Len(s)}

\* An increasing function of positions never falls behind.
LEMMA IncreasingRuns ==
    ASSUME NEW m \in Nat, NEW n \in Nat, NEW h, Increasing(h, m, n)
    PROVE  \A k \in 1 .. m : k <= h[k]
  <1> DEFINE U == {k \in Nat : k \in 1 .. m => k <= h[k]}
  <1>1. 0 \in U
    OBVIOUS
  <1>2. ASSUME NEW k \in Nat, k \in U PROVE k + 1 \in U
    <2>1. SUFFICES ASSUME k + 1 \in 1 .. m PROVE k + 1 <= h[k + 1]
      OBVIOUS
    <2>2. h[k + 1] \in 1 .. n
      BY <2>1 DEF Increasing
    <2>3. CASE k = 0
      BY <2>2, <2>3
    <2>4. CASE k # 0
      <3>1. k \in 1 .. m /\ k <= h[k]
        BY <1>2, <2>1, <2>4
      <3>2. h[k] \in 1 .. n /\ h[k] < h[k + 1]
        BY <2>1, <3>1 DEF Increasing
      <3> QED BY <2>2, <3>1, <3>2
    <2> QED BY <2>3, <2>4
  <1>3. Nat \subseteq U
    <2> HIDE DEF U
    <2> QED BY <1>1, <1>2, Induction
  <1> QED BY <1>3

\* A subsequence of increasing positions is compared by its positions.
LEMMA IncreasingReflects ==
    ASSUME NEW m \in Nat, NEW n \in Nat, NEW h, Increasing(h, m, n),
           NEW j \in 1 .. m, NEW k \in 1 .. m
    PROVE  (h[j] < h[k]) <=> (j < k)
  <1>1. h[j] \in 1 .. n /\ h[k] \in 1 .. n
    BY DEF Increasing
  <1>2. (j < k => h[j] < h[k]) /\ (k < j => h[k] < h[j]) /\ (j = k => h[j] = h[k])
    BY DEF Increasing
  <1> QED BY <1>1, <1>2

LEMMA SubAhead ==
    ASSUME NEW S, NEW s \in Seq(S), NEW t \in Seq(S), Sub(t, s), NEW n \in Nat
    PROVE  Ahead(t, n) \subseteq Ahead(s, n)
  <1>1. PICK h : Increasing(h, Len(t), Len(s)) /\ \A k \in 1 .. Len(t) : t[k] = s[h[k]]
    BY DEF Sub
  <1>2. ASSUME NEW k \in n + 1 .. Len(t) PROVE t[k] \in Ahead(s, n)
    <2>1. k \in 1 .. Len(t) /\ Len(t) \in Nat /\ Len(s) \in Nat
      OBVIOUS
    <2>2. k <= h[k]
      BY <1>1, <2>1, IncreasingRuns
    <2>3. h[k] \in 1 .. Len(s)
      BY <1>1, <2>1 DEF Increasing
    <2>4. h[k] \in n + 1 .. Len(s)
      BY <2>2, <2>3
    <2>5. t[k] = s[h[k]]
      BY <1>1, <2>1
    <2> QED BY <2>4, <2>5 DEF Ahead
  <1> QED BY <1>2 DEF Ahead

LEMMA SubIn ==
    ASSUME NEW S, NEW s \in Seq(S), NEW t \in Seq(S), Sub(t, s)
    PROVE  Len(t) <= Len(s) /\ \A k \in 1 .. Len(t) : \E i \in 1 .. Len(s) : t[k] = s[i]
  <1>1. PICK h : Increasing(h, Len(t), Len(s)) /\ \A k \in 1 .. Len(t) : t[k] = s[h[k]]
    BY DEF Sub
  <1>2. \A k \in 1 .. Len(t) : h[k] \in 1 .. Len(s)
    BY <1>1 DEF Increasing
  <1>3. CASE Len(t) = 0
    BY <1>1, <1>2, <1>3
  <1>4. CASE Len(t) # 0
    <2>1. Len(t) \in 1 .. Len(t) /\ Len(t) \in Nat /\ Len(s) \in Nat
      BY <1>4
    <2>2. Len(t) <= h[Len(t)]
      BY <1>1, <2>1, IncreasingRuns
    <2> QED BY <1>1, <1>2, <2>1, <2>2
  <1> QED BY <1>3, <1>4

LEMMA SubSelf ==
    ASSUME NEW S, NEW s \in Seq(S)
    PROVE  Sub(s, s)
  <1> DEFINE h == [k \in 1 .. Len(s) |-> k]
  <1>1. Increasing(h, Len(s), Len(s)) /\ \A k \in 1 .. Len(s) : s[k] = s[h[k]]
    BY DEF Increasing
  <1> HIDE DEF h
  <1> QED BY <1>1 DEF Sub

LEMMA JoinTwo ==
    ASSUME NEW S, NEW a \in Seq(S), NEW b \in Seq(S), NEW t, t = a \o b
    PROVE  /\ t \in Seq(S) /\ Len(t) = Len(a) + Len(b)
           /\ \A k \in 1 .. Len(a) : t[k] = a[k]
           /\ \A k \in Len(a) + 1 .. Len(a) + Len(b) : t[k] = b[k - Len(a)]
  <1>1. Len(a) \in Nat /\ Len(b) \in Nat
    OBVIOUS
  <1>2. \A k \in 1 .. Len(a) + Len(b) : t[k] = IF k <= Len(a) THEN a[k] ELSE b[k - Len(a)]
    BY ConcatProperties
  <1> QED BY <1>1, <1>2, ConcatProperties

\* What is left after one is removed, and what there was before one was inserted.
LEMMA RemoveSub ==
    ASSUME NEW S, NEW s \in Seq(S), NEW i \in 1 .. Len(s)
    PROVE  /\ RemoveAt(s, i) \in Seq(S) /\ Len(RemoveAt(s, i)) = Len(s) - 1
           /\ \A k \in 1 .. Len(s) - 1 : RemoveAt(s, i)[k] = IF k < i THEN s[k] ELSE s[k + 1]
           /\ Sub(RemoveAt(s, i), s)
  <1> DEFINE t == RemoveAt(s, i)
             h == [k \in 1 .. Len(s) - 1 |-> IF k < i THEN k ELSE k + 1]
             a == SubSeq(s, 1, i - 1)
             b == SubSeq(s, i + 1, Len(s))
  <1>1. t = a \o b
    BY DEF RemoveAt
  <1>2. a \in Seq(S) /\ Len(a) = i - 1 /\ \A k \in 1 .. i - 1 : a[k] = s[k]
    BY SubSeqProperties
  <1>3. b \in Seq(S) /\ Len(b) = Len(s) - i /\ \A k \in 1 .. Len(s) - i : b[k] = s[k + i]
    BY SubSeqProperties
  <1>4. Increasing(h, Len(s) - 1, Len(s))
    BY DEF Increasing
  <1> HIDE DEF t, a, b
  <1>5. t \in Seq(S) /\ Len(t) = Len(s) - 1
    BY <1>1, <1>2, <1>3, JoinTwo
  <1>6. ASSUME NEW k \in 1 .. Len(s) - 1 PROVE t[k] = IF k < i THEN s[k] ELSE s[k + 1]
    <2>1. CASE k < i
      <3>1. k \in 1 .. Len(a)
        BY <1>2, <2>1
      <3>2. t[k] = a[k]
        BY <1>1, <1>2, <1>3, <3>1, JoinTwo
      <3> QED BY <1>2, <2>1, <3>1, <3>2
    <2>2. CASE ~(k < i)
      <3>1. k \in Len(a) + 1 .. Len(a) + Len(b) /\ k - Len(a) \in 1 .. Len(s) - i
        BY <1>2, <1>3, <2>2
      <3>2. t[k] = b[k - Len(a)]
        BY <1>1, <1>2, <1>3, <3>1, JoinTwo
      <3>3. k - Len(a) + i = k + 1
        BY <1>2
      <3>4. b[k - Len(a)] = s[k + 1]
        BY <1>3, <3>1, <3>3
      <3> QED BY <2>2, <3>2, <3>4
    <2> QED BY <2>1, <2>2
  <1>7. \A k \in 1 .. Len(t) : t[k] = s[h[k]]
    BY <1>5, <1>6
  <1>8. Sub(t, s)
    <2> HIDE DEF h
    <2> QED BY <1>4, <1>5, <1>7 DEF Sub
  <1> QED BY <1>5, <1>6, <1>8 DEF t

LEMMA InsertSub ==
    ASSUME NEW S, NEW s \in Seq(S), NEW i \in 1 .. Len(s) + 1, NEW x \in S
    PROVE  /\ InsertAt(s, i, x) \in Seq(S) /\ Len(InsertAt(s, i, x)) = Len(s) + 1
           /\ \A k \in 1 .. Len(s) + 1 :
                InsertAt(s, i, x)[k] = IF k < i THEN s[k] ELSE IF k = i THEN x ELSE s[k - 1]
           /\ Sub(s, InsertAt(s, i, x))
  <1> DEFINE t == InsertAt(s, i, x)
             h == [k \in 1 .. Len(s) |-> IF k < i THEN k ELSE k + 1]
             a == SubSeq(s, 1, i - 1)
             b == SubSeq(s, i, Len(s))
             c == a \o <<x>>
  <1>1. t = c \o b
    BY DEF InsertAt
  <1>2. a \in Seq(S) /\ Len(a) = i - 1 /\ \A k \in 1 .. i - 1 : a[k] = s[k]
    BY SubSeqProperties
  <1>3. /\ b \in Seq(S) /\ Len(b) = Len(s) - i + 1
        /\ \A k \in 1 .. Len(s) - i + 1 : b[k] = s[k + i - 1]
    BY SubSeqProperties
  <1>4. Increasing(h, Len(s), Len(s) + 1)
    BY DEF Increasing
  <1>5. c = a \o <<x>>
    OBVIOUS
  <1> HIDE DEF t, a, b, c
  <1>6. c \in Seq(S) /\ Len(c) = i /\ \A k \in 1 .. i : c[k] = IF k < i THEN s[k] ELSE x
    <2>1. /\ c \in Seq(S) /\ Len(c) = Len(a) + 1 /\ \A k \in 1 .. Len(a) : c[k] = a[k]
          /\ c[Len(a) + 1] = x
      BY <1>2, <1>5
    <2> QED BY <1>2, <2>1
  <1>7. t \in Seq(S) /\ Len(t) = Len(s) + 1
    BY <1>1, <1>6, <1>3, JoinTwo
  <1>8. ASSUME NEW k \in 1 .. Len(s) + 1
        PROVE  t[k] = IF k < i THEN s[k] ELSE IF k = i THEN x ELSE s[k - 1]
    <2>1. CASE k <= i
      <3>1. k \in 1 .. Len(c)
        BY <1>6, <2>1
      <3>2. t[k] = c[k]
        BY <1>1, <1>6, <1>3, <3>1, JoinTwo
      <3> QED BY <1>6, <2>1, <3>1, <3>2
    <2>2. CASE ~(k <= i)
      <3>1. k \in Len(c) + 1 .. Len(c) + Len(b) /\ k - Len(c) \in 1 .. Len(s) - i + 1
        BY <1>6, <1>3, <2>2
      <3>2. t[k] = b[k - Len(c)]
        BY <1>1, <1>6, <1>3, <3>1, JoinTwo
      <3>3. k - Len(c) + i - 1 = k - 1
        BY <1>6
      <3>4. b[k - Len(c)] = s[k - 1]
        BY <1>3, <3>1, <3>3
      <3> QED BY <2>2, <3>2, <3>4
    <2> QED BY <2>1, <2>2
  <1>9. \A k \in 1 .. Len(s) : s[k] = t[h[k]]
    BY <1>7, <1>8
  <1>10. Sub(s, t)
    <2> HIDE DEF h
    <2> QED BY <1>4, <1>7, <1>9 DEF Sub
  <1> QED BY <1>7, <1>8, <1>10 DEF t

-----------------------------------------------------------------------------
(***************************************************************************)
(* What Chosen and ById choose.                                            *)
(***************************************************************************)
Choosing(f, S, s, good) ==
    /\ f \in [0 .. Len(s) -> Seq(S)] /\ f[0] = <<>> /\ Chosen(s, good) = f[Len(s)]
    /\ \A n \in 1 .. Len(s) : f[n] = IF s[n] \in good THEN Append(f[n - 1], s[n]) ELSE f[n - 1]

LEMMA ChosenRuns ==
    ASSUME NEW S, NEW s \in Seq(S), NEW good
    PROVE  \E f : Choosing(f, S, s, good)
  <1> DEFINE N == Len(s)
             body(f) == [n \in 0 .. N |->
                           IF n = 0 THEN <<>>
                           ELSE IF s[n] \in good THEN Append(f[n - 1], s[n]) ELSE f[n - 1]]
             c == CHOOSE f : f = body(f)
             step == [n \in 1 .. N |-> [x \in Seq(S) |->
                        IF s[n] \in good THEN Append(x, s[n]) ELSE x]]
  <1>1. Chosen(s, good) = c[N]
    BY DEF Chosen
  <1>2. N \in Nat /\ <<>> \in Seq(S)
    OBVIOUS
  <1>3. step \in [1 .. N -> [Seq(S) -> Seq(S)]]
    OBVIOUS
  <1>4. PICK f \in [0 .. N -> Seq(S)] : f[0] = <<>> /\ \A n \in 1 .. N : f[n] = step[n][f[n - 1]]
    <2> DEFINE T == Seq(S)
               base == <<>>
    <2>1. N \in Nat /\ base \in T /\ step \in [1 .. N -> [T -> T]]
      <3> HIDE DEF step, N
      <3> QED BY <1>2, <1>3
    <2> HIDE DEF step, N, T, base
    <2>2. PICK f : Iterates(f, T, N, base, step)
      BY <2>1, Recursion
    <2>3. /\ f \in [0 .. N -> T] /\ f[0] = base
          /\ \A n \in 1 .. N : f[n] = step[n][f[n - 1]]
      BY <2>2 DEF Iterates
    <2> QED BY <2>3 DEF T, base
  <1>5. f = body(f)
    <2>1. ASSUME NEW n \in 0 .. N PROVE f[n] = body(f)[n]
      <3>1. CASE n = 0
        BY <1>4, <3>1
      <3>2. CASE n # 0
        <4>1. n \in 1 .. N /\ n - 1 \in 0 .. N
          BY <3>2
        <4>2. f[n - 1] \in Seq(S)
          BY <1>4, <4>1
        <4>3. f[n] = step[n][f[n - 1]]
          BY <1>4, <4>1
        <4> QED BY <3>2, <4>1, <4>2, <4>3
      <3> QED BY <3>1, <3>2
    <2> QED BY <2>1
  <1>6. c = body(c)
    <2> HIDE DEF body
    <2> QED BY <1>5
  <1> HIDE DEF c
  <1>7. /\ c = [n \in 0 .. N |-> c[n]] /\ c[0] = <<>>
        /\ \A n \in 1 .. N : c[n] = IF s[n] \in good THEN Append(c[n - 1], s[n]) ELSE c[n - 1]
    <2>1. DOMAIN c = 0 .. N /\ \A n \in 0 .. N : c[n] = body(c)[n]
      BY <1>6
    <2>2. c = [n \in 0 .. N |-> c[n]]
      BY <1>6
    <2>3. ASSUME NEW n \in 0 .. N
          PROVE  c[n] = IF n = 0 THEN <<>>
                        ELSE IF s[n] \in good THEN Append(c[n - 1], s[n]) ELSE c[n - 1]
      BY <2>1
    <2>4. 0 \in 0 .. N /\ 1 .. N \subseteq 0 .. N /\ 0 \notin 1 .. N
      BY <1>2
    <2> QED BY <2>2, <2>3, <2>4
  <1>8. 0 .. N \subseteq {n \in 0 .. N : c[n] \in Seq(S)}
    <2> DEFINE U == {n \in 0 .. N : c[n] \in Seq(S)}
    <2>1. 0 \in U
      BY <1>7
    <2>2. ASSUME NEW n \in 0 .. N - 1, n \in U PROVE n + 1 \in U
      <3>1. n + 1 \in 1 .. N /\ (n + 1) - 1 = n /\ c[n] \in Seq(S) /\ s[n + 1] \in S
        BY <2>2
      <3>2. c[n + 1] = IF s[n + 1] \in good THEN Append(c[n], s[n + 1]) ELSE c[n]
        BY <1>7, <3>1
      <3>3. n + 1 \in 0 .. N /\ c[n + 1] \in Seq(S)
        BY <3>1, <3>2
      <3> QED BY <3>3
    <2> HIDE DEF U
    <2>3. 0 .. N \subseteq U
      BY <1>2, <2>1, <2>2, BoundedInduction
    <2> QED BY <2>3 DEF U
  <1>9. c \in [0 .. N -> Seq(S)]
    BY <1>7, <1>8
  <1>10. Choosing(c, S, s, good)
    BY <1>1, <1>7, <1>9 DEF Choosing
  <1> QED BY <1>10

Picking(e, c, s, good) ==
    /\ Increasing(e, Len(c), Len(s))
    /\ \A k \in 1 .. Len(c) : c[k] = s[e[k]]
    /\ \A i \in 1 .. Len(s) : s[i] \in good <=> \E k \in 1 .. Len(c) : e[k] = i

\* Chosen takes exactly the members in good, each once, and keeps their order.
LEMMA ChosenPicks ==
    ASSUME NEW S, NEW s \in Seq(S), NEW good
    PROVE  Chosen(s, good) \in Seq(S) /\ \E e : Picking(e, Chosen(s, good), s, good)
  <1>0. PICK f : Choosing(f, S, s, good)
    BY ChosenRuns
  <1>1. /\ f \in [0 .. Len(s) -> Seq(S)] /\ f[0] = <<>> /\ Chosen(s, good) = f[Len(s)]
        /\ \A n \in 1 .. Len(s) :
             f[n] = IF s[n] \in good THEN Append(f[n - 1], s[n]) ELSE f[n - 1]
    BY <1>0 DEF Choosing
  <1> DEFINE Picks(n, e) == /\ Increasing(e, Len(f[n]), n)
                            /\ \A k \in 1 .. Len(f[n]) : f[n][k] = s[e[k]]
                            /\ \A i \in 1 .. n :
                                 s[i] \in good <=> \E k \in 1 .. Len(f[n]) : e[k] = i
             U == {n \in 0 .. Len(s) : \E e : Picks(n, e)}
  <1>2. 0 \in U
    <2>1. Picks(0, [k \in 1 .. 0 |-> k])
      BY <1>1 DEF Increasing
    <2>2. \E e : Picks(0, e)
      <3> HIDE DEF Picks
      <3> QED BY <2>1
    <2> QED BY <2>2
  <1>3. ASSUME NEW n \in 0 .. Len(s) - 1, n \in U PROVE n + 1 \in U
    <2>1. PICK e : Picks(n, e)
      BY <1>3
    <2>2. n + 1 \in 1 .. Len(s) /\ (n + 1) - 1 = n /\ f[n] \in Seq(S) /\ s[n + 1] \in S
      BY <1>1
    <2>3. f[n + 1] = IF s[n + 1] \in good THEN Append(f[n], s[n + 1]) ELSE f[n]
      BY <1>1, <2>2
    <2>4. \E g : Picks(n + 1, g)
      <3>1. CASE s[n + 1] \notin good
        <4>1. f[n + 1] = f[n]
          BY <2>3, <3>1
        <4>2. Increasing(e, Len(f[n]), n + 1)
          BY <2>1 DEF Increasing
        <4>3. \A k \in 1 .. Len(f[n]) : e[k] \in 1 .. n
          BY <2>1 DEF Increasing
        <4>4. ASSUME NEW i \in 1 .. n + 1
              PROVE  s[i] \in good <=> \E k \in 1 .. Len(f[n]) : e[k] = i
          <5>1. CASE i = n + 1
            BY <3>1, <4>3, <5>1
          <5>2. CASE i # n + 1
            <6>1. i \in 1 .. n
              BY <5>2
            <6> QED BY <2>1, <6>1
          <5> QED BY <5>1, <5>2
        <4>5. Picks(n + 1, e)
          BY <2>1, <4>1, <4>2, <4>4
        <4> HIDE DEF Picks
        <4> QED BY <4>5
      <3>2. CASE s[n + 1] \in good
        <4> DEFINE L == Len(f[n])
                   g == [k \in 1 .. L + 1 |-> IF k = L + 1 THEN n + 1 ELSE e[k]]
        <4>1. /\ L \in Nat /\ Len(f[n + 1]) = L + 1 /\ f[n + 1][L + 1] = s[n + 1]
              /\ \A k \in 1 .. L : f[n + 1][k] = f[n][k]
          BY <2>2, <2>3, <3>2
        <4>2. /\ \A k \in 1 .. L : e[k] \in 1 .. n /\ f[n][k] = s[e[k]]
              /\ \A j, k \in 1 .. L : j < k => e[j] < e[k]
              /\ \A i \in 1 .. n : s[i] \in good <=> \E k \in 1 .. L : e[k] = i
          BY <2>1 DEF Increasing
        <4> HIDE DEF L
        <4>3. g \in [1 .. L + 1 -> 1 .. n + 1] /\ g[L + 1] = n + 1
          BY <4>1, <4>2
        <4>4. ASSUME NEW k \in 1 .. L PROVE g[k] = e[k]
          BY <4>1
        <4>5. ASSUME NEW j \in 1 .. L + 1, NEW k \in 1 .. L + 1, j < k PROVE g[j] < g[k]
          <5>1. j \in 1 .. L
            BY <4>1, <4>5
          <5>2. CASE k = L + 1
            <6>1. g[j] \in 1 .. n /\ g[k] = n + 1
              BY <4>2, <4>3, <4>4, <5>1, <5>2
            <6> HIDE DEF g
            <6> QED BY <6>1
          <5>3. CASE k # L + 1
            <6>1. k \in 1 .. L
              BY <4>1, <5>3
            <6> QED BY <4>2, <4>4, <4>5, <5>1, <6>1
          <5> QED BY <5>2, <5>3
        <4>6. ASSUME NEW k \in 1 .. L + 1 PROVE f[n + 1][k] = s[g[k]]
          <5>1. CASE k = L + 1
            BY <4>1, <4>3, <5>1
          <5>2. CASE k # L + 1
            <6>1. k \in 1 .. L
              BY <4>1, <5>2
            <6> QED BY <4>1, <4>2, <4>4, <6>1
          <5> QED BY <5>1, <5>2
        <4>7. ASSUME NEW i \in 1 .. n + 1
              PROVE  s[i] \in good <=> \E k \in 1 .. L + 1 : g[k] = i
          <5>1. CASE i = n + 1
            <6>1. L + 1 \in 1 .. L + 1
              BY <4>1
            <6> QED BY <3>2, <4>3, <5>1, <6>1
          <5>2. CASE i # n + 1
            <6>1. i \in 1 .. n
              BY <5>2
            <6>2. s[i] \in good <=> \E k \in 1 .. L : e[k] = i
              BY <4>2, <6>1
            <6>3. ASSUME NEW k \in 1 .. L, e[k] = i PROVE \E j \in 1 .. L + 1 : g[j] = i
              <7>1. k \in 1 .. L + 1 /\ g[k] = e[k]
                BY <4>1, <4>4
              <7> HIDE DEF g
              <7> QED BY <6>3, <7>1
            <6>4. ASSUME NEW k \in 1 .. L + 1, g[k] = i PROVE \E j \in 1 .. L : e[j] = i
              <7>1. k # L + 1
                BY <4>3, <5>2, <6>4
              <7>2. k \in 1 .. L
                BY <4>1, <7>1
              <7> QED BY <4>4, <6>4, <7>2
            <6> QED BY <6>2, <6>3, <6>4
          <5> QED BY <5>1, <5>2
        <4>8. Increasing(g, L + 1, n + 1)
          <5> HIDE DEF g
          <5> QED BY <4>3, <4>5 DEF Increasing
        <4>9. Picks(n + 1, g)
          <5> HIDE DEF g
          <5> QED BY <4>1, <4>6, <4>7, <4>8
        <4> HIDE DEF Picks, g
        <4> QED BY <4>9
      <3> QED BY <3>1, <3>2
    <2>5. n + 1 \in 0 .. Len(s)
      OBVIOUS
    <2> HIDE DEF Picks
    <2> QED BY <2>4, <2>5
  <1>4. 0 .. Len(s) \subseteq U
    <2>1. Len(s) \in Nat
      OBVIOUS
    <2> HIDE DEF U
    <2> QED BY <1>2, <1>3, <2>1, BoundedInduction
  <1>5. Len(s) \in 0 .. Len(s)
    OBVIOUS
  <1>6. PICK e : Picks(Len(s), e)
    <2> HIDE DEF Picks
    <2> QED BY <1>4, <1>5
  <1>7. Picking(e, Chosen(s, good), s, good)
    BY <1>1, <1>6 DEF Picking
  <1> QED BY <1>1, <1>5, <1>7

LEMMA ChosenMembers ==
    ASSUME NEW S, NEW s \in Seq(S), NEW good
    PROVE  /\ Chosen(s, good) \in Seq(S) /\ Sub(Chosen(s, good), s)
           /\ \A k \in 1 .. Len(Chosen(s, good)) : Chosen(s, good)[k] \in good
           /\ \A i \in 1 .. Len(s) :
                s[i] \in good => \E k \in 1 .. Len(Chosen(s, good)) : Chosen(s, good)[k] = s[i]
  <1> DEFINE c == Chosen(s, good)
  <1>1. c \in Seq(S)
    BY ChosenPicks
  <1>2. PICK e : Picking(e, c, s, good)
    BY ChosenPicks
  <1> HIDE DEF c
  <1>3. Sub(c, s)
    BY <1>2 DEF Picking, Sub
  <1>4. ASSUME NEW k \in 1 .. Len(c) PROVE c[k] \in good
    <2>1. e[k] \in 1 .. Len(s) /\ c[k] = s[e[k]]
      BY <1>2 DEF Picking, Increasing
    <2> QED BY <1>2, <2>1 DEF Picking
  <1>5. ASSUME NEW i \in 1 .. Len(s), s[i] \in good PROVE \E k \in 1 .. Len(c) : c[k] = s[i]
    <2>1. PICK k \in 1 .. Len(c) : e[k] = i
      BY <1>2, <1>5 DEF Picking
    <2>2. c[k] = s[i]
      BY <1>2, <2>1 DEF Picking
    <2> QED BY <2>2
  <1> QED BY <1>1, <1>3, <1>4, <1>5 DEF c

\* Choosing more, out of more, leaves the fewer a subsequence.
LEMMA ChosenKeeps ==
    ASSUME NEW S, NEW s \in Seq(S), NEW t \in Seq(S), Sub(t, s), NEW good, NEW more,
           \A i \in 1 .. Len(t) : t[i] \in good => t[i] \in more
    PROVE  Sub(Chosen(t, good), Chosen(s, more))
  <1> DEFINE c == Chosen(t, good)
             d == Chosen(s, more)
  <1>1. c \in Seq(S) /\ d \in Seq(S)
    BY ChosenPicks
  <1>2. PICK e : Picking(e, c, t, good)
    BY ChosenPicks
  <1>3. PICK f : Picking(f, d, s, more)
    BY ChosenPicks
  <1>4. PICK h : Increasing(h, Len(t), Len(s)) /\ \A k \in 1 .. Len(t) : t[k] = s[h[k]]
    BY DEF Sub
  <1>5. Len(c) \in Nat /\ Len(d) \in Nat /\ Len(s) \in Nat /\ Len(t) \in Nat
    BY <1>1
  <1> HIDE DEF c, d
  <1>6. ASSUME NEW k \in 1 .. Len(c)
        PROVE  \E j \in 1 .. Len(d) : f[j] = h[e[k]]
    <2>1. e[k] \in 1 .. Len(t) /\ c[k] = t[e[k]]
      BY <1>2 DEF Picking, Increasing
    <2>2. t[e[k]] \in good
      BY <1>2, <2>1 DEF Picking
    <2>3. h[e[k]] \in 1 .. Len(s) /\ s[h[e[k]]] = t[e[k]]
      BY <1>4, <2>1 DEF Increasing
    <2>4. s[h[e[k]]] \in more
      BY <2>1, <2>2, <2>3
    <2> QED BY <1>3, <2>3, <2>4 DEF Picking
  <1> DEFINE g == [k \in 1 .. Len(c) |-> CHOOSE j \in 1 .. Len(d) : f[j] = h[e[k]]]
  <1>7. \A k \in 1 .. Len(c) : g[k] \in 1 .. Len(d) /\ f[g[k]] = h[e[k]]
    BY <1>6
  <1>8. g \in [1 .. Len(c) -> 1 .. Len(d)]
    BY <1>7
  <1> HIDE DEF g
  <1>9. ASSUME NEW j \in 1 .. Len(c), NEW k \in 1 .. Len(c), j < k PROVE g[j] < g[k]
    <2>1. e[j] < e[k] /\ e[j] \in 1 .. Len(t) /\ e[k] \in 1 .. Len(t)
      BY <1>2, <1>9 DEF Picking, Increasing
    <2>2. h[e[j]] < h[e[k]]
      BY <1>4, <2>1 DEF Increasing
    <2>3. f[g[j]] < f[g[k]]
      BY <1>7, <2>2
    <2>4. g[j] \in 1 .. Len(d) /\ g[k] \in 1 .. Len(d)
      BY <1>7
    <2>5. Increasing(f, Len(d), Len(s))
      BY <1>3 DEF Picking
    <2> QED BY <1>5, <2>3, <2>4, <2>5, IncreasingReflects
  <1>10. Increasing(g, Len(c), Len(d))
    BY <1>8, <1>9 DEF Increasing
  <1>11. ASSUME NEW k \in 1 .. Len(c) PROVE c[k] = d[g[k]]
    <2>1. e[k] \in 1 .. Len(t) /\ c[k] = t[e[k]]
      BY <1>2 DEF Picking, Increasing
    <2>2. t[e[k]] = s[h[e[k]]]
      BY <1>4, <2>1
    <2>3. d[g[k]] = s[f[g[k]]]
      BY <1>3, <1>7 DEF Picking
    <2> QED BY <1>7, <2>1, <2>2, <2>3
  <1>12. Sub(c, d)
    BY <1>10, <1>11 DEF Sub
  <1> QED BY <1>12 DEF c, d

\* No two members have the same id.
Distinct(ms) == \A j, k \in 1 .. Len(ms) : ms[j].id = ms[k].id => j = k

LEMMA SubDistinct ==
    ASSUME NEW S, NEW s \in Seq(S), NEW t \in Seq(S), Sub(t, s), Distinct(s)
    PROVE  Distinct(t)
  <1>1. PICK h : Increasing(h, Len(t), Len(s)) /\ \A k \in 1 .. Len(t) : t[k] = s[h[k]]
    BY DEF Sub
  <1>2. ASSUME NEW j \in 1 .. Len(t), NEW k \in 1 .. Len(t), t[j].id = t[k].id PROVE j = k
    <2>1. h[j] \in 1 .. Len(s) /\ h[k] \in 1 .. Len(s)
      BY <1>1 DEF Increasing
    <2>2. h[j] = h[k]
      BY <1>1, <1>2, <2>1 DEF Distinct
    <2>3. ~(h[j] < h[k]) /\ ~(h[k] < h[j])
      BY <2>1, <2>2
    <2>4. ~(j < k) /\ ~(k < j)
      BY <1>1, <2>3 DEF Increasing
    <2> QED BY <2>4
  <1> QED BY <1>2 DEF Distinct

IdLine == [i \in 1 .. MaxMemories |-> i]
IdsInOrder(ms) == Chosen(IdLine, IdsOf(ms))

LEMMA IdLineIs == IdLine \in Seq(1 .. MaxMemories) /\ Len(IdLine) = MaxMemories
  BY SearchAssumption DEF IdLine, SearchAssumption

\* ById holds the same memories, and each once.
LEMMA ByIdMembers ==
    ASSUME NEW ms \in Seq(MemoryFound)
    PROVE  /\ ById(ms) \in Seq(MemoryFound) /\ Len(ById(ms)) = Len(IdsInOrder(ms))
           /\ \A k \in 1 .. Len(ById(ms)) :
                /\ ById(ms)[k].id = IdsInOrder(ms)[k]
                /\ \E i \in 1 .. Len(ms) : ById(ms)[k] = ms[i]
           /\ \A i \in 1 .. Len(ms) : \E k \in 1 .. Len(ById(ms)) : ById(ms)[k].id = ms[i].id
           /\ Distinct(ById(ms))
  <1> DEFINE ids == IdsInOrder(ms)
             b == ById(ms)
  <1>1. b = [k \in DOMAIN ids |-> CHOOSE m \in ToSet(ms) : m.id = ids[k]]
    BY DEF ById, IdsInOrder, IdLine
  <1>2. /\ ids \in Seq(1 .. MaxMemories) /\ Sub(ids, IdLine)
        /\ \A k \in 1 .. Len(ids) : ids[k] \in IdsOf(ms)
        /\ \A i \in 1 .. Len(IdLine) :
             IdLine[i] \in IdsOf(ms) => \E k \in 1 .. Len(ids) : ids[k] = IdLine[i]
    <2> HIDE DEF ids
    <2>1. ids = Chosen(IdLine, IdsOf(ms))
      BY DEF ids, IdsInOrder
    <2> DEFINE S == 1 .. MaxMemories
               g == IdsOf(ms)
    <2>2. IdLine \in Seq(S)
      BY IdLineIs
    <2> HIDE DEF S, g
    <2>3. /\ Chosen(IdLine, g) \in Seq(S) /\ Sub(Chosen(IdLine, g), IdLine)
          /\ \A k \in 1 .. Len(Chosen(IdLine, g)) : Chosen(IdLine, g)[k] \in g
          /\ \A i \in 1 .. Len(IdLine) :
               IdLine[i] \in g =>
                 \E k \in 1 .. Len(Chosen(IdLine, g)) : Chosen(IdLine, g)[k] = IdLine[i]
      BY <2>2, ChosenMembers
    <2> QED BY <2>1, <2>3 DEF S, g
  <1> HIDE DEF ids, b
  <1>3. DOMAIN ids = 1 .. Len(ids) /\ Len(ids) \in Nat
    BY <1>2
  <1>4. ASSUME NEW k \in 1 .. Len(ids)
        PROVE  b[k] \in ToSet(ms) /\ b[k].id = ids[k]
    <2>1. \E m \in ToSet(ms) : m.id = ids[k]
      BY <1>2 DEF IdsOf, ToSet
    <2> QED BY <1>1, <1>3, <2>1
  <1>5. ToSet(ms) \subseteq MemoryFound
    BY DEF ToSet
  <1>6. b \in Seq(MemoryFound) /\ Len(b) = Len(ids)
    BY <1>1, <1>3, <1>4, <1>5
  <1>7. ASSUME NEW k \in 1 .. Len(b) PROVE \E i \in 1 .. Len(ms) : b[k] = ms[i]
    BY <1>4, <1>6 DEF ToSet
  <1>8. ASSUME NEW i \in 1 .. Len(ms) PROVE \E k \in 1 .. Len(b) : b[k].id = ms[i].id
    <2>1. ms[i] \in MemoryFound
      OBVIOUS
    <2>2. ms[i].id \in 1 .. MaxMemories /\ ms[i].id \in IdsOf(ms)
      BY <2>1 DEF MemoryFound, IdsOf
    <2>3. IdLine[ms[i].id] = ms[i].id
      BY <2>2 DEF IdLine
    <2>4. \E k \in 1 .. Len(ids) : ids[k] = ms[i].id
      BY <1>2, <2>2, <2>3, IdLineIs
    <2> QED BY <1>4, <1>6, <2>4
  <1>9. ASSUME NEW j \in 1 .. Len(b), NEW k \in 1 .. Len(b), b[j].id = b[k].id PROVE j = k
    <2>1. PICK h : Increasing(h, Len(ids), Len(IdLine))
                   /\ \A i \in 1 .. Len(ids) : ids[i] = IdLine[h[i]]
      BY <1>2 DEF Sub
    <2>2. j \in 1 .. Len(ids) /\ k \in 1 .. Len(ids) /\ ids[j] = ids[k]
      BY <1>4, <1>6, <1>9
    <2>3. h[j] \in 1 .. MaxMemories /\ h[k] \in 1 .. MaxMemories
      BY <2>1, <2>2, IdLineIs DEF Increasing
    <2>4. h[j] = h[k]
      BY <2>1, <2>2, <2>3 DEF IdLine
    <2>5. ~(h[j] < h[k]) /\ ~(h[k] < h[j])
      BY <2>3, <2>4
    <2>6. ~(j < k) /\ ~(k < j)
      BY <2>1, <2>2, <2>5 DEF Increasing
    <2> QED BY <2>6
  <1>10. Distinct(b)
    BY <1>9 DEF Distinct
  <1> QED BY <1>4, <1>6, <1>7, <1>8, <1>10 DEF ids, b

LEMMA ByIdKeeps ==
    ASSUME NEW ms \in Seq(MemoryFound), NEW more \in Seq(MemoryFound), Sub(ms, more),
           Distinct(more)
    PROVE  Sub(ById(ms), ById(more))
  <1> DEFINE ids == IdsInOrder(ms)
             jds == IdsInOrder(more)
             a == ById(ms)
             b == ById(more)
  <1>1. \A k \in 1 .. Len(ms) : \E i \in 1 .. Len(more) : ms[k] = more[i]
    BY SubIn
  <1>2. IdsOf(ms) \subseteq IdsOf(more)
    BY <1>1 DEF IdsOf
  <1>3. Sub(ids, jds)
    <2>1. Sub(IdLine, IdLine)
      BY IdLineIs, SubSelf
    <2>2. \A i \in 1 .. Len(IdLine) : IdLine[i] \in IdsOf(ms) => IdLine[i] \in IdsOf(more)
      BY <1>2
    <2> HIDE DEF ids, jds
    <2>3. Sub(Chosen(IdLine, IdsOf(ms)), Chosen(IdLine, IdsOf(more)))
      <3> DEFINE S == 1 .. MaxMemories
                 g == IdsOf(ms)
                 h == IdsOf(more)
      <3>1. IdLine \in Seq(S)
        BY IdLineIs
      <3>2. \A i \in 1 .. Len(IdLine) : IdLine[i] \in g => IdLine[i] \in h
        BY <2>2
      <3> HIDE DEF S, g, h
      <3>3. Sub(Chosen(IdLine, g), Chosen(IdLine, h))
        BY <2>1, <3>1, <3>2, ChosenKeeps
      <3> QED BY <3>3 DEF g, h
    <2> QED BY <2>3 DEF ids, jds, IdsInOrder
  <1>4. /\ a \in Seq(MemoryFound) /\ Len(a) = Len(ids)
        /\ \A k \in 1 .. Len(a) : a[k].id = ids[k] /\ \E i \in 1 .. Len(ms) : a[k] = ms[i]
    BY ByIdMembers
  <1>5. /\ b \in Seq(MemoryFound) /\ Len(b) = Len(jds)
        /\ \A k \in 1 .. Len(b) : b[k].id = jds[k] /\ \E i \in 1 .. Len(more) : b[k] = more[i]
    BY ByIdMembers
  <1> HIDE DEF a, b, ids, jds
  <1>6. PICK h : Increasing(h, Len(ids), Len(jds)) /\ \A k \in 1 .. Len(ids) : ids[k] = jds[h[k]]
    BY <1>3 DEF Sub
  <1>7. ASSUME NEW k \in 1 .. Len(a) PROVE a[k] = b[h[k]]
    <2>1. h[k] \in 1 .. Len(b) /\ a[k].id = b[h[k]].id
      BY <1>4, <1>5, <1>6 DEF Increasing
    <2>2. PICK i \in 1 .. Len(more) : a[k] = more[i]
      BY <1>1, <1>4
    <2>3. PICK j \in 1 .. Len(more) : b[h[k]] = more[j]
      BY <1>5, <2>1
    <2>4. i = j
      BY <2>1, <2>2, <2>3 DEF Distinct
    <2> QED BY <2>2, <2>3, <2>4
  <1>8. Sub(a, b)
    BY <1>4, <1>5, <1>6, <1>7 DEF Sub
  <1> QED BY <1>8 DEF a, b

-----------------------------------------------------------------------------
(***************************************************************************)
(* Pages.                                                                  *)
(***************************************************************************)
\* The order in which a mode shows the matches.
View(mode, ms) == IF mode = "list" THEN ById(ms) ELSE ms

PageSize(v, offset) == IF Len(v) <= offset THEN 0
                       ELSE IF Len(v) - offset <= Limit THEN Len(v) - offset ELSE Limit

\* p is the page of v that begins after offset.
IsPage(p, v, offset) == /\ p \in Seq(MemoryFound) /\ Len(p) = PageSize(v, offset)
                        /\ \A k \in 1 .. Len(p) : p[k] = v[offset + k]

LEMMA FirstIs ==
    ASSUME NEW S, NEW v \in Seq(S), NEW n \in Nat
    PROVE  /\ First(v, n) \in Seq(S) /\ Len(First(v, n)) = IF n < Len(v) THEN n ELSE Len(v)
           /\ \A k \in 1 .. Len(First(v, n)) : First(v, n)[k] = v[k]
  <1> DEFINE m == IF n < Len(v) THEN n ELSE Len(v)
  <1>1. m \in 0 .. Len(v) /\ First(v, n) = SubSeq(v, 1, m)
    BY DEF First
  <1>2. \A i \in 1 .. m : v[i] \in S
    BY <1>1
  <1> HIDE DEF m
  <1>3. /\ SubSeq(v, 1, m) \in Seq(S) /\ Len(SubSeq(v, 1, m)) = m
        /\ \A i \in 1 .. m : SubSeq(v, 1, m)[i] = v[i]
    BY <1>1, <1>2
  <1> QED BY <1>1, <1>3 DEF m

LEMMA FromIs ==
    ASSUME NEW S, NEW v \in Seq(S), NEW n \in Nat
    PROVE  /\ From(v, n) \in Seq(S) /\ Len(From(v, n)) = IF n < Len(v) THEN Len(v) - n ELSE 0
           /\ \A k \in 1 .. Len(From(v, n)) : From(v, n)[k] = v[n + k]
  <1>1. From(v, n) = SubSeq(v, n + 1, Len(v))
    BY DEF From
  <1>2. \A i \in n + 1 .. Len(v) : v[i] \in S
    OBVIOUS
  <1>3. /\ SubSeq(v, n + 1, Len(v)) \in Seq(S)
        /\ Len(SubSeq(v, n + 1, Len(v))) = IF n + 1 <= Len(v) THEN Len(v) - (n + 1) + 1 ELSE 0
        /\ \A i \in 1 .. Len(v) - (n + 1) + 1 : SubSeq(v, n + 1, Len(v))[i] = v[(n + 1) + i - 1]
    BY <1>2, SubSeqProperties
  <1>4. \A k \in 1 .. Len(From(v, n)) :
          k \in 1 .. Len(v) - (n + 1) + 1 /\ (n + 1) + k - 1 = n + k
    BY <1>1, <1>3
  <1> QED BY <1>1, <1>3, <1>4

LEMMA RankedPageIs ==
    ASSUME NEW v \in Seq(MemoryFound), NEW offset \in Nat, NEW a \in RankedPage(v, offset)
    PROVE  /\ IsPage(a.page, v, offset) /\ a.next = AnyOne
           /\ a.total = IF offset + Limit < Len(v) THEN offset + Limit ELSE Len(v)
  <1> DEFINE raw == First(v, offset + Limit)
             p == From(raw, offset)
  <1>1. /\ a.page = p /\ a.total = Len(raw)
        /\ a.next = IF Len(raw) > offset + Limit THEN offset + Limit ELSE AnyOne
    BY DEF RankedPage, PageOf
  <1>2. offset + Limit \in Nat /\ Limit \in Nat
    BY SearchAssumption DEF SearchAssumption
  <1> HIDE DEF raw
  <1>3. /\ raw \in Seq(MemoryFound)
        /\ Len(raw) = IF offset + Limit < Len(v) THEN offset + Limit ELSE Len(v)
        /\ \A k \in 1 .. Len(raw) : raw[k] = v[k]
    BY <1>2, FirstIs DEF raw
  <1> HIDE DEF p
  <1>4. /\ p \in Seq(MemoryFound)
        /\ Len(p) = IF offset < Len(raw) THEN Len(raw) - offset ELSE 0
        /\ \A k \in 1 .. Len(p) : p[k] = raw[offset + k]
    BY <1>3, FromIs DEF p
  <1>5. Len(v) \in Nat
    OBVIOUS
  <1>6. Len(p) = PageSize(v, offset)
    BY <1>2, <1>3, <1>4, <1>5 DEF PageSize
  <1>7. ASSUME NEW k \in 1 .. Len(p) PROVE p[k] = v[offset + k]
    <2>1. offset + k \in 1 .. Len(raw)
      BY <1>2, <1>3, <1>4
    <2> QED BY <1>3, <1>4, <2>1
  <1>8. IsPage(p, v, offset)
    BY <1>4, <1>6, <1>7 DEF IsPage
  <1> QED BY <1>1, <1>2, <1>3, <1>5, <1>8

LEMMA ListedPageIs ==
    ASSUME NEW v \in Seq(MemoryFound), NEW offset \in Nat, NEW a \in ListedPage(v, offset)
    PROVE  /\ IsPage(a.page, v, offset) /\ a.total = Len(v)
           /\ a.next = IF offset + Len(a.page) < Len(v) THEN offset + Len(a.page) ELSE AnyOne
  <1> DEFINE rest == From(v, offset)
             p == First(rest, Limit)
  <1>1. /\ a.page = p /\ a.total = Len(v)
        /\ a.next = IF offset + Len(p) < Len(v) THEN offset + Len(p) ELSE AnyOne
    BY DEF ListedPage, PageOf
  <1>2. Limit \in Nat /\ Len(v) \in Nat
    BY SearchAssumption DEF SearchAssumption
  <1> HIDE DEF rest
  <1>3. /\ rest \in Seq(MemoryFound)
        /\ Len(rest) = IF offset < Len(v) THEN Len(v) - offset ELSE 0
        /\ \A k \in 1 .. Len(rest) : rest[k] = v[offset + k]
    BY FromIs DEF rest
  <1> HIDE DEF p
  <1>4. /\ p \in Seq(MemoryFound)
        /\ Len(p) = IF Limit < Len(rest) THEN Limit ELSE Len(rest)
        /\ \A k \in 1 .. Len(p) : p[k] = rest[k]
    BY <1>2, <1>3, FirstIs DEF p
  <1>5. Len(p) = PageSize(v, offset)
    BY <1>2, <1>3, <1>4 DEF PageSize
  <1>6. ASSUME NEW k \in 1 .. Len(p) PROVE p[k] = v[offset + k]
    <2>1. k \in 1 .. Len(rest)
      BY <1>2, <1>3, <1>4
    <2> QED BY <1>3, <1>4, <2>1
  <1>7. IsPage(p, v, offset)
    BY <1>4, <1>5, <1>6 DEF IsPage
  <1> QED BY <1>1, <1>7

LEMMA RecencyPageIs ==
    ASSUME NEW v \in Seq(MemoryFound), NEW offset \in Nat, NEW a \in RecencyPage(v, offset)
    PROVE  /\ a.page \in Seq(MemoryFound) /\ Len(a.page) <= Limit
           /\ offset >= Limit => a.page = <<>>
           /\ \A k \in 1 .. Len(a.page) : \E i \in 1 .. Len(v) : a.page[k] = v[i]
           /\ a.total = offset + Len(a.page)
           /\ a.next = IF Len(a.page) = Limit THEN offset + Limit ELSE AnyOne
  <1> DEFINE raw == First(v, Limit)
  <1>1. Limit \in Nat
    BY SearchAssumption DEF SearchAssumption
  <1>2. /\ raw \in Seq(MemoryFound) /\ Len(raw) <= Limit /\ Len(raw) <= Len(v)
        /\ \A k \in 1 .. Len(raw) : raw[k] = v[k]
    BY <1>1, FirstIs
  <1>3. PICK order \in [DOMAIN raw -> DOMAIN raw] :
          a = PageOf(From([k \in DOMAIN raw |-> raw[order[k]]], offset),
                     offset + Len(From([k \in DOMAIN raw |-> raw[order[k]]], offset)),
                     IF Len(From([k \in DOMAIN raw |-> raw[order[k]]], offset)) = Limit
                     THEN offset + Limit ELSE AnyOne)
    BY DEF RecencyPage
  <1> DEFINE sorted == [k \in DOMAIN raw |-> raw[order[k]]]
             p == From(sorted, offset)
  <1>4. a.page = p /\ a.total = offset + Len(p)
        /\ a.next = IF Len(p) = Limit THEN offset + Limit ELSE AnyOne
    BY <1>3 DEF PageOf
  <1> HIDE DEF raw
  <1>5. DOMAIN raw = 1 .. Len(raw)
    BY <1>2
  <1>5a. Len(raw) \in Nat /\ Len(v) \in Nat
    BY <1>2
  <1>6. /\ sorted \in Seq(MemoryFound) /\ Len(sorted) = Len(raw)
        /\ \A k \in 1 .. Len(raw) : sorted[k] = raw[order[k]] /\ order[k] \in 1 .. Len(raw)
    <2>1. \A k \in 1 .. Len(raw) : order[k] \in 1 .. Len(raw) /\ raw[order[k]] \in MemoryFound
      <3>1. order \in [1 .. Len(raw) -> 1 .. Len(raw)]
        BY <1>3, <1>5
      <3>2. \A k \in 1 .. Len(raw) : raw[k] \in MemoryFound
        BY <1>2
      <3> QED BY <3>1, <3>2
    <2>2. sorted = [k \in 1 .. Len(raw) |-> raw[order[k]]]
      BY <1>5
    <2> HIDE DEF sorted
    <2>3. /\ sorted \in [1 .. Len(raw) -> MemoryFound]
          /\ \A k \in 1 .. Len(raw) : sorted[k] = raw[order[k]]
      BY <2>1, <2>2
    <2> QED BY <1>5a, <2>1, <2>3
  <1> HIDE DEF sorted
  <1>7. /\ p \in Seq(MemoryFound)
        /\ Len(p) = IF offset < Len(sorted) THEN Len(sorted) - offset ELSE 0
        /\ \A k \in 1 .. Len(p) : p[k] = sorted[offset + k]
    BY <1>6, FromIs
  <1> HIDE DEF p
  <1>8. /\ Len(p) = IF offset < Len(raw) THEN Len(raw) - offset ELSE 0
        /\ Len(p) \in Nat /\ Len(raw) <= Limit /\ Len(raw) <= Len(v)
        /\ Len(raw) \in Nat /\ Len(v) \in Nat
    BY <1>2, <1>5a, <1>6, <1>7
  <1>9. Len(p) <= Limit /\ (offset >= Limit => p = <<>>)
    <2>1. Len(p) <= Limit /\ (offset >= Limit => Len(p) = 0)
      BY <1>1, <1>8
    <2> QED BY <1>7, <2>1
  <1>10. ASSUME NEW k \in 1 .. Len(p) PROVE \E i \in 1 .. Len(v) : p[k] = v[i]
    <2>1. offset + k \in 1 .. Len(raw)
      BY <1>8
    <2>2. p[k] = raw[order[offset + k]] /\ order[offset + k] \in 1 .. Len(raw)
      BY <1>6, <1>7, <2>1
    <2>3. order[offset + k] \in 1 .. Len(v)
      BY <1>8, <2>2
    <2> QED BY <1>2, <2>2, <2>3
  <1> QED BY <1>4, <1>7, <1>9, <1>10

-----------------------------------------------------------------------------
(***************************************************************************)
(* What is shown of an index.                                              *)
(***************************************************************************)
Fits(scope, soft) == {m \in MemoryFound : InScope(m, scope) /\ (soft => m.topical)}
OfOwner(scope) == {m \in MemoryFound : InScope(m, scope)}

\* The matches of search s among ms, and those it has without its soft filters.
Shown(ms, s) == View(s.mode, Chosen(ms, Fits(s.scope, s.soft)))
Owned(ms, s) == Chosen(ms, OfOwner(s.scope))

SearchRecord == [pc : {"idle", "query", "relax", "done"}, front : AllFronts, mode : AllModes,
                 meant : Scope, scope : Scope, soft : BOOLEAN, offset : Nat,
                 got : SUBSET MemoryFound, twice : BOOLEAN, steady : SUBSET (1 .. MaxMemories),
                 came : BOOLEAN, went : BOOLEAN, none : BOOLEAN]

\* An id names one memory, now and in what the caller has got.
Shape ==
    /\ index \in Seq(MemoryFound) /\ created \in 0 .. MaxMemories /\ search \in SearchRecord
    /\ Distinct(index) /\ \A k \in 1 .. Len(index) : index[k].id <= created
    /\ search.pc = "idle" => search = NotSearching
    /\ search.steady \subseteq IdsOf(index)
    /\ \A m \in search.got : /\ m.id <= created
                             /\ \A k \in 1 .. Len(index) : index[k].id = m.id => index[k] = m

Asking == search.pc \in {"query", "relax"}

\* The filters that are sent are those that are meant.
ScopeIsMeant == /\ search.scope = search.meant
                /\ \A m \in search.got : InScope(m, search.scope)

\* A search relaxes only when, with no strict match, there was nothing to show.
RelaxedOnNothing ==
    search.soft /\ (search.pc = "relax" \/ \E m \in search.got : ~m.topical) => search.none

\* As long as nothing new comes, what the caller has is not ahead of it.
GotIsBehind ==
    Asking =>
      /\ search.pc = "relax" => search.soft /\ search.mode # "recency"
      /\ search.mode = "recency" => (search.offset = 0 /\ search.got = {}) \/ search.offset >= Limit
      /\ ~search.came /\ search.mode # "recency"
           => search.got \cap Ahead(Shown(index, search), search.offset) = {}
      /\ ~search.came /\ search.soft /\ (search.pc = "relax" \/ \E m \in search.got : ~m.topical)
           => /\ search.mode # "list" /\ Shown(index, search) = <<>>
              /\ search.got \cap Ahead(Owned(index, search), search.offset) = {}

\* As long as nothing goes, what was there all along is in the caller's hands or ahead of it.
SteadyIsAhead ==
    ~search.went =>
      /\ search.pc = "query" /\ search.mode # "recency"
           => \A id \in search.steady :
                \/ \E m \in search.got : m.id = id
                \/ \E m \in Ahead(Shown(index, search), search.offset) : m.id = id
      /\ search.pc = "relax" => \A id \in search.steady : \E m \in search.got : m.id = id
      /\ search.pc = "done" /\ <<search.front, search.mode>> \in ReliablePaging
           => \A id \in search.steady : \E m \in search.got : m.id = id

LEMMA MatchesAre == \A scope, soft : Matches(scope, soft) = Chosen(index, Fits(scope, soft))
  BY DEF Matches, Fits

LEMMA ShownIs ==
    ASSUME NEW ms \in Seq(MemoryFound), Distinct(ms), NEW s
    PROVE  /\ Shown(ms, s) \in Seq(MemoryFound) /\ Distinct(Shown(ms, s))
           /\ \A k \in 1 .. Len(Shown(ms, s)) :
                /\ Shown(ms, s)[k] \in Fits(s.scope, s.soft)
                /\ \E i \in 1 .. Len(ms) : Shown(ms, s)[k] = ms[i]
           /\ \A i \in 1 .. Len(ms) :
                ms[i] \in Fits(s.scope, s.soft)
                  => \E k \in 1 .. Len(Shown(ms, s)) : Shown(ms, s)[k] = ms[i]
  <1> DEFINE good == Fits(s.scope, s.soft)
             c == Chosen(ms, good)
             v == Shown(ms, s)
  <1>1. v = IF s.mode = "list" THEN ById(c) ELSE c
    BY DEF Shown, View
  <1> HIDE DEF good
  <1>2. /\ c \in Seq(MemoryFound) /\ Sub(c, ms) /\ \A k \in 1 .. Len(c) : c[k] \in good
        /\ \A i \in 1 .. Len(ms) : ms[i] \in good => \E k \in 1 .. Len(c) : c[k] = ms[i]
    BY ChosenMembers
  <1> HIDE DEF c, v
  <1>3. Distinct(c) /\ \A k \in 1 .. Len(c) : \E i \in 1 .. Len(ms) : c[k] = ms[i]
    BY <1>2, SubDistinct, SubIn
  <1>4. CASE s.mode # "list"
    BY <1>1, <1>2, <1>3, <1>4 DEF good, v
  <1>5. CASE s.mode = "list"
    <2>1. v = ById(c)
      BY <1>1, <1>5
    <2>2. /\ v \in Seq(MemoryFound) /\ Distinct(v)
          /\ \A k \in 1 .. Len(v) : \E i \in 1 .. Len(c) : v[k] = c[i]
          /\ \A i \in 1 .. Len(c) : \E k \in 1 .. Len(v) : v[k].id = c[i].id
      BY <1>2, <2>1, ByIdMembers
    <2>3. ASSUME NEW k \in 1 .. Len(v)
          PROVE  v[k] \in good /\ \E i \in 1 .. Len(ms) : v[k] = ms[i]
      BY <1>2, <1>3, <2>2
    <2>4. ASSUME NEW i \in 1 .. Len(ms), ms[i] \in good PROVE \E k \in 1 .. Len(v) : v[k] = ms[i]
      <3>1. PICK j \in 1 .. Len(c) : c[j] = ms[i]
        BY <1>2, <2>4
      <3>2. PICK k \in 1 .. Len(v) : v[k].id = c[j].id
        BY <2>2
      <3>3. PICK l \in 1 .. Len(c) : v[k] = c[l]
        BY <2>2
      <3>4. l = j
        BY <1>3, <3>2, <3>3 DEF Distinct
      <3> QED BY <3>1, <3>3, <3>4
    <2> QED BY <2>2, <2>3, <2>4 DEF good, v
  <1> QED BY <1>4, <1>5

LEMMA OwnedIs ==
    ASSUME NEW ms \in Seq(MemoryFound), Distinct(ms), NEW s
    PROVE  /\ Owned(ms, s) \in Seq(MemoryFound) /\ Distinct(Owned(ms, s))
           /\ \A k \in 1 .. Len(Owned(ms, s)) :
                /\ Owned(ms, s)[k] \in OfOwner(s.scope)
                /\ \E i \in 1 .. Len(ms) : Owned(ms, s)[k] = ms[i]
  <1> DEFINE good == OfOwner(s.scope)
             c == Chosen(ms, good)
  <1>1. Owned(ms, s) = c
    BY DEF Owned
  <1> HIDE DEF good
  <1>2. c \in Seq(MemoryFound) /\ Sub(c, ms) /\ \A k \in 1 .. Len(c) : c[k] \in good
    BY ChosenMembers
  <1> HIDE DEF c
  <1>3. Distinct(c) /\ \A k \in 1 .. Len(c) : \E i \in 1 .. Len(ms) : c[k] = ms[i]
    BY <1>2, SubDistinct, SubIn
  <1> QED BY <1>1, <1>2, <1>3 DEF good

\* What comes or goes does not change the order of the others.
LEMMA ShownKeeps ==
    ASSUME NEW ms \in Seq(MemoryFound), NEW more \in Seq(MemoryFound), Sub(ms, more),
           Distinct(more), NEW s
    PROVE  Sub(Shown(ms, s), Shown(more, s)) /\ Sub(Owned(ms, s), Owned(more, s))
  <1> DEFINE good == Fits(s.scope, s.soft)
             all == OfOwner(s.scope)
             c == Chosen(ms, good)
             d == Chosen(more, good)
  <1>1. /\ Shown(ms, s) = IF s.mode = "list" THEN ById(c) ELSE c
        /\ Shown(more, s) = IF s.mode = "list" THEN ById(d) ELSE d
    BY DEF Shown, View
  <1>2. Owned(ms, s) = Chosen(ms, all) /\ Owned(more, s) = Chosen(more, all)
    BY DEF Owned
  <1> HIDE DEF good, all
  <1>3. Sub(c, d) /\ Sub(Chosen(ms, all), Chosen(more, all))
    BY ChosenKeeps
  <1>4. c \in Seq(MemoryFound) /\ d \in Seq(MemoryFound) /\ Sub(d, more)
    BY ChosenMembers
  <1> HIDE DEF c, d
  <1>5. Distinct(d)
    BY <1>4, SubDistinct
  <1>6. Sub(ById(c), ById(d))
    BY <1>3, <1>4, <1>5, ByIdKeeps
  <1> QED BY <1>1, <1>2, <1>3, <1>6

-----------------------------------------------------------------------------
(***************************************************************************)
(* An answer.                                                              *)
(***************************************************************************)
\* What any page holds, and what each mode says of what follows it.
LEMMA PageIs ==
    ASSUME Shape, NEW a \in Page(search.mode, Matches(search.scope, search.soft), search.offset)
    PROVE  /\ a.page \in Seq(MemoryFound)
           /\ \A k \in 1 .. Len(a.page) :
                /\ a.page[k] \in Fits(search.scope, search.soft)
                /\ \E i \in 1 .. Len(index) : a.page[k] = index[i]
           /\ search.mode # "recency" => IsPage(a.page, Shown(index, search), search.offset)
           /\ search.mode \in {"semantic", "lexical"}
                => /\ a.next = AnyOne
                   /\ a.total = IF search.offset + Limit < Len(Shown(index, search))
                                THEN search.offset + Limit ELSE Len(Shown(index, search))
           /\ search.mode \in {"listing", "list"}
                => /\ a.total = Len(Shown(index, search))
                   /\ a.next = IF search.offset + Len(a.page) < Len(Shown(index, search))
                               THEN search.offset + Len(a.page) ELSE AnyOne
           /\ search.mode = "recency"
                => /\ Len(a.page) <= Limit /\ (search.offset >= Limit => a.page = <<>>)
                   /\ a.total = search.offset + Len(a.page)
                   /\ a.next = IF Len(a.page) = Limit THEN search.offset + Limit ELSE AnyOne
  <1> DEFINE v == Shown(index, search)
             ms == Matches(search.scope, search.soft)
             offset == search.offset
             mode == search.mode
  <1>1. ms = Chosen(index, Fits(search.scope, search.soft))
    BY MatchesAre
  <1>2. v = IF mode = "list" THEN ById(ms) ELSE ms
    BY <1>1 DEF Shown, View
  <1>3. index \in Seq(MemoryFound) /\ Distinct(index) /\ offset \in Nat /\ mode \in AllModes
    BY DEF Shape, SearchRecord
  <1>4. /\ v \in Seq(MemoryFound)
        /\ \A k \in 1 .. Len(v) : /\ v[k] \in Fits(search.scope, search.soft)
                                  /\ \E i \in 1 .. Len(index) : v[k] = index[i]
    BY <1>3, ShownIs
  <1>5. a \in Page(mode, ms, offset)
    OBVIOUS
  <1>6. Len(v) \in Nat /\ Limit \in Nat
    BY <1>4, SearchAssumption DEF SearchAssumption
  <1> HIDE DEF v, ms, offset, mode
  <1>7. ASSUME IsPage(a.page, v, offset)
        PROVE  /\ a.page \in Seq(MemoryFound)
               /\ \A k \in 1 .. Len(a.page) :
                    /\ a.page[k] \in Fits(search.scope, search.soft)
                    /\ \E i \in 1 .. Len(index) : a.page[k] = index[i]
    <2>1. /\ a.page \in Seq(MemoryFound) /\ Len(a.page) = PageSize(v, offset)
          /\ \A k \in 1 .. Len(a.page) : a.page[k] = v[offset + k]
      BY <1>7 DEF IsPage
    <2>2. \A k \in 1 .. PageSize(v, offset) : offset + k \in 1 .. Len(v)
      BY <1>3, <1>6 DEF PageSize
    <2> QED BY <1>4, <2>1, <2>2
  <1>8. CASE mode \in {"semantic", "lexical"}
    <2>1. v = ms /\ a \in RankedPage(v, offset)
      BY <1>2, <1>5, <1>8 DEF Page
    <2> HIDE DEF v
    <2>2. /\ IsPage(a.page, v, offset) /\ a.next = AnyOne
          /\ a.total = IF offset + Limit < Len(v) THEN offset + Limit ELSE Len(v)
      BY <1>3, <1>4, <2>1, RankedPageIs
    <2> QED BY <1>7, <1>8, <2>2 DEF v, offset, mode
  <1>9. CASE mode \in {"listing", "list"}
    <2>1. a \in ListedPage(v, offset)
      BY <1>2, <1>5, <1>9 DEF Page, ListOfAll
    <2>2. /\ IsPage(a.page, v, offset) /\ a.total = Len(v)
          /\ a.next = IF offset + Len(a.page) < Len(v) THEN offset + Len(a.page) ELSE AnyOne
      BY <1>3, <1>4, <2>1, ListedPageIs
    <2> QED BY <1>7, <1>9, <2>2 DEF v, offset, mode
  <1>10. CASE mode = "recency"
    <2>1. v = ms /\ a \in RecencyPage(v, offset)
      BY <1>2, <1>5, <1>10 DEF Page
    <2>2. /\ a.page \in Seq(MemoryFound) /\ Len(a.page) <= Limit
          /\ offset >= Limit => a.page = <<>>
          /\ \A k \in 1 .. Len(a.page) : \E i \in 1 .. Len(v) : a.page[k] = v[i]
          /\ a.total = offset + Len(a.page)
          /\ a.next = IF Len(a.page) = Limit THEN offset + Limit ELSE AnyOne
      BY <1>3, <1>4, <2>1, RecencyPageIs
    <2>3. \A k \in 1 .. Len(a.page) :
            /\ a.page[k] \in Fits(search.scope, search.soft)
            /\ \E i \in 1 .. Len(index) : a.page[k] = index[i]
      BY <1>4, <2>2
    <2> QED BY <1>10, <2>2, <2>3 DEF v, offset, mode
  <1> QED BY <1>3, <1>8, <1>9, <1>10 DEF AllModes

\* A caller goes on where the page ended, and stops where the matches end if it can know.
LEMMA FollowingIs ==
    ASSUME Shape, NEW a \in Page(search.mode, Matches(search.scope, search.soft), search.offset)
    PROVE  /\ a.next \in Nat \cup {AnyOne} /\ a.total \in Nat
           /\ search.mode # "recency" /\ GoesOn(a) /\ a.page # <<>>
                => NextOffset(a) = search.offset + Len(a.page)
           /\ search.mode # "recency" /\ <<search.front, search.mode>> \in ReliablePaging
              /\ ~(GoesOn(a) /\ a.page # <<>>)
                => Len(Shown(index, search)) <= search.offset + Len(a.page)
           /\ search.mode = "recency" /\ GoesOn(a) /\ a.page # <<>> => NextOffset(a) >= Limit
           /\ GoesOn(a) /\ a.page # <<>> => NextOffset(a) \in Nat
  <1> DEFINE v == Shown(index, search)
             offset == search.offset
             n == Len(a.page)
  <1>1. /\ offset \in Nat /\ search.mode \in AllModes /\ search.front \in AllFronts
        /\ v \in Seq(MemoryFound)
    BY ShownIs DEF Shape, SearchRecord
  <1>2. /\ a.page \in Seq(MemoryFound)
        /\ search.mode # "recency" => IsPage(a.page, v, offset)
        /\ search.mode \in {"semantic", "lexical"}
             => /\ a.next = AnyOne
                /\ a.total = IF offset + Limit < Len(v) THEN offset + Limit ELSE Len(v)
        /\ search.mode \in {"listing", "list"}
             => /\ a.total = Len(v)
                /\ a.next = IF offset + n < Len(v) THEN offset + n ELSE AnyOne
        /\ search.mode = "recency"
             => /\ n <= Limit /\ (offset >= Limit => a.page = <<>>)
                /\ a.total = offset + n
                /\ a.next = IF n = Limit THEN offset + Limit ELSE AnyOne
    BY PageIs
  <1> HIDE DEF v
  <1>3. n \in Nat /\ Len(v) \in Nat /\ Limit \in Nat /\ Limit > 0 /\ AnyOne \notin Nat
    BY <1>1, <1>2, SearchAssumption DEF SearchAssumption
  <1>4. a.page # <<>> <=> n # 0
    BY <1>2
  <1>5. search.mode # "recency" => n = PageSize(v, offset)
    BY <1>2 DEF IsPage
  <1>6. /\ GoesOn(a) <=> \/ search.front = "all" /\ n = Limit
                         \/ search.front = "tool" /\ (a.next # AnyOne \/ a.total > offset + n)
                         \/ search.front \in {"next", "cli"} /\ a.next # AnyOne
        /\ NextOffset(a) = IF search.front = "all" THEN offset + Limit
                           ELSE IF a.next # AnyOne THEN a.next ELSE offset + n
    <2>1. CASE search.front = "all"
      <3>1. GoesOn(a) = (n = Limit)
        BY <2>1 DEF GoesOn, AllGoesOn
      <3>2. NextOffset(a) = offset + Limit
        BY <2>1 DEF NextOffset
      <3> QED BY <2>1, <3>1, <3>2
    <2>2. CASE search.front = "tool"
      BY <2>2 DEF GoesOn, ToolGoesOn, NextOffset
    <2>3. CASE search.front \in {"next", "cli"}
      BY <2>3 DEF GoesOn, NextOffset
    <2>4. CASE search.front \in {"prompt", "promptAny"}
      <3>1. GoesOn(a) = FALSE
        BY <2>4 DEF GoesOn
      <3>2. NextOffset(a) = IF a.next # AnyOne THEN a.next ELSE offset + n
        BY <2>4 DEF NextOffset
      <3> QED BY <2>4, <3>1, <3>2
    <2> QED BY <1>1, <2>1, <2>2, <2>3, <2>4 DEF AllFronts
  <1> DEFINE going == GoesOn(a)
             following == NextOffset(a)
             nextOne == a.next
             total == a.total
  <1> HIDE DEF n, offset, going, following, nextOne, total
  <1>7. CASE search.mode \in {"semantic", "lexical"}
    <2>1. /\ nextOne = AnyOne /\ n = PageSize(v, offset)
          /\ total = IF offset + Limit < Len(v) THEN offset + Limit ELSE Len(v)
      BY <1>2, <1>5, <1>7 DEF n, offset, nextOne, total
    <2>2. n # 0 => total <= offset + n
      BY <1>1, <1>3, <2>1 DEF PageSize, offset
    <2>3. total \in Nat /\ offset \in Nat
      BY <1>1, <1>3, <2>1 DEF offset
    <2>4. going /\ n # 0 => search.front = "all" /\ n = Limit /\ following = offset + n
      BY <1>3, <1>6, <2>1, <2>2, <2>3 DEF going, following, nextOne, total, n, offset
    <2>5. search.front = "all" /\ ~(going /\ n # 0) => Len(v) <= offset + n
      <3>1. search.front = "all" /\ n = Limit => going
        BY <1>6 DEF going, n
      <3>2. n # Limit => Len(v) <= offset + n
        BY <1>3, <2>1, <2>3 DEF PageSize
      <3> QED BY <1>3, <3>1, <3>2
    <2>6. <<search.front, search.mode>> \in ReliablePaging => search.front = "all"
      BY <1>7 DEF ReliablePaging
    <2> QED BY <1>3, <1>4, <1>7, <2>1, <2>3, <2>4, <2>5, <2>6
            DEF n, going, following, nextOne, total, offset, v
  <1>8. CASE search.mode \in {"listing", "list"}
    <2>1. /\ nextOne = IF offset + n < Len(v) THEN offset + n ELSE AnyOne
          /\ n = PageSize(v, offset) /\ total = Len(v)
      BY <1>2, <1>5, <1>8 DEF n, offset, nextOne, total
    <2>2. offset \in Nat
      BY <1>1 DEF offset
    <2>3. nextOne \in Nat \cup {AnyOne} /\ (nextOne # AnyOne <=> offset + n < Len(v))
      BY <1>3, <2>1, <2>2
    <2>4. going => following = offset + n
      BY <1>6, <2>1, <2>2, <2>3, <1>3 DEF going, following, nextOne, total, n, offset
    <2>5. search.front \in {"tool", "next", "cli"} /\ ~going => Len(v) <= offset + n
      <3>1. search.front \in {"tool", "next", "cli"} /\ ~going => nextOne = AnyOne
        BY <1>6 DEF going, nextOne
      <3> QED BY <1>3, <2>2, <2>3, <3>1
    <2>6. n = 0 \/ (search.front = "all" /\ ~going) => Len(v) <= offset + n
      <3>1. search.front = "all" /\ ~going => n # Limit
        BY <1>6 DEF going, n
      <3>2. n # Limit => Len(v) <= offset + n
        BY <1>3, <2>1, <2>2 DEF PageSize
      <3> QED BY <1>3, <3>1, <3>2
    <2>7. <<search.front, search.mode>> \in ReliablePaging
            => search.front \in {"all", "tool", "next", "cli"}
      BY DEF ReliablePaging
    <2> QED BY <1>3, <1>4, <1>8, <2>1, <2>2, <2>3, <2>4, <2>5, <2>6, <2>7
            DEF n, going, following, nextOne, total, offset, v
  <1>9. CASE search.mode = "recency"
    <2>1. nextOne = IF n = Limit THEN offset + Limit ELSE AnyOne
      BY <1>2, <1>9 DEF n, offset, nextOne
    <2>2. total = offset + n /\ offset \in Nat
      BY <1>1, <1>2, <1>9 DEF n, offset, total
    <2>3. going => following = offset + Limit
      BY <1>3, <1>6, <2>1, <2>2 DEF going, following, nextOne, total, n, offset
    <2>4. offset + Limit \in Nat /\ offset + Limit >= Limit
      BY <1>3, <2>2
    <2> QED BY <1>3, <1>4, <1>9, <2>1, <2>2, <2>3, <2>4
            DEF n, going, following, nextOne, total, offset, v
  <1> QED BY <1>1, <1>7, <1>8, <1>9 DEF AllModes

\* What a page leaves behind: none of it lies ahead of its end, nothing between is left out.
LEMMA PageEnds ==
    ASSUME NEW v \in Seq(MemoryFound), Distinct(v), NEW offset \in Nat, NEW p,
           IsPage(p, v, offset)
    PROVE  /\ Ahead(v, offset + Len(p)) \subseteq Ahead(v, offset)
           /\ \A k \in 1 .. Len(p) :
                p[k] \in Ahead(v, offset) /\ p[k] \notin Ahead(v, offset + Len(p))
           /\ \A m \in Ahead(v, offset) :
                m \in Ahead(v, offset + Len(p)) \/ \E k \in 1 .. Len(p) : p[k] = m
  <1>1. /\ Len(p) = PageSize(v, offset) /\ \A k \in 1 .. Len(p) : p[k] = v[offset + k]
        /\ Len(p) \in Nat /\ Len(v) \in Nat /\ Limit \in Nat
    BY SearchAssumption DEF IsPage, SearchAssumption
  <1>2. Ahead(v, offset + Len(p)) \subseteq Ahead(v, offset)
    BY <1>1 DEF Ahead
  <1>3. \A k \in 1 .. Len(p) : offset + k \in offset + 1 .. Len(v)
    BY <1>1 DEF PageSize
  <1>4. ASSUME NEW k \in 1 .. Len(p)
        PROVE  p[k] \in Ahead(v, offset) /\ p[k] \notin Ahead(v, offset + Len(p))
    <2>1. p[k] = v[offset + k] /\ offset + k \in 1 .. Len(v)
      BY <1>1, <1>3
    <2>2. \A j \in offset + Len(p) + 1 .. Len(v) : j \in 1 .. Len(v) /\ j # offset + k
      BY <1>1
    <2>3. \A j \in offset + Len(p) + 1 .. Len(v) : v[j] # v[offset + k]
      BY <2>1, <2>2 DEF Distinct
    <2> QED BY <1>3, <2>1, <2>3 DEF Ahead
  <1>5. ASSUME NEW j \in offset + 1 .. Len(v), j \notin offset + Len(p) + 1 .. Len(v)
        PROVE  \E k \in 1 .. Len(p) : p[k] = v[j]
    <2>1. j - offset \in 1 .. Len(p) /\ offset + (j - offset) = j
      BY <1>1, <1>5
    <2> QED BY <1>1, <2>1
  <1>6. ASSUME NEW m \in Ahead(v, offset)
        PROVE  m \in Ahead(v, offset + Len(p)) \/ \E k \in 1 .. Len(p) : p[k] = m
    BY <1>5 DEF Ahead
  <1> QED BY <1>2, <1>4, <1>6

-----------------------------------------------------------------------------
(***************************************************************************)
(* Types.                                                                  *)
(***************************************************************************)
\* What an answer brings: memories of the index, and a place to go on from.
Answer(a) == /\ a.page \in Seq(MemoryFound)
             /\ \A k \in 1 .. Len(a.page) : \E i \in 1 .. Len(index) : a.page[k] = index[i]
             /\ GoesOn(a) /\ a.page # <<>> => NextOffset(a) \in Nat

LEMMA TakenIs ==
    ASSUME Shape, NEW a, NEW none \in BOOLEAN, Answer(a), TakePage(a, none)
    PROVE  LET going == GoesOn(a) /\ a.page # <<>>
               page == {a.page[k] : k \in 1 .. Len(a.page)}
           IN  /\ search'.pc = IF going THEN "query" ELSE "done"
               /\ search'.offset = IF going THEN NextOffset(a) ELSE search.offset
               /\ search'.got = search.got \cup page
               /\ search'.twice <=> (search.twice \/ \E k \in 1 .. Len(a.page) :
                                        a.page[k].id \in {m.id : m \in search.got})
               /\ search'.none <=> (search.none \/ none)
               /\ search'.front = search.front /\ search'.mode = search.mode
               /\ search'.meant = search.meant /\ search'.scope = search.scope
               /\ search'.soft = search.soft /\ search'.steady = search.steady
               /\ search'.came = search.came /\ search'.went = search.went
               /\ search' \in SearchRecord
  <1> DEFINE going == GoesOn(a) /\ a.page # <<>>
             page == {a.page[k] : k \in 1 .. Len(a.page)}
             pc == IF going THEN "query" ELSE "done"
             offset == IF going THEN NextOffset(a) ELSE search.offset
             got == search.got \cup page
             twice == search.twice \/ \E k \in 1 .. Len(a.page) :
                                        a.page[k].id \in {m.id : m \in search.got}
             any == search.none \/ none
  <1>1. search \in SearchRecord /\ DOMAIN a.page = 1 .. Len(a.page)
    BY DEF Shape, Answer
  <1>2. search' = [search EXCEPT !.pc = pc, !.offset = offset, !.got = got, !.twice = twice,
                                 !.none = any]
    BY <1>1 DEF TakePage
  <1>3. pc \in {"query", "done"} /\ offset \in Nat /\ got \in SUBSET MemoryFound
        /\ twice \in BOOLEAN /\ any \in BOOLEAN
    BY <1>1 DEF Answer, SearchRecord
  <1> HIDE DEF pc, offset, got, twice, any
  <1>4. /\ search'.pc = pc /\ search'.offset = offset /\ search'.got = got
        /\ search'.twice = twice /\ search'.none = any
        /\ search'.front = search.front /\ search'.mode = search.mode
        /\ search'.meant = search.meant /\ search'.scope = search.scope
        /\ search'.soft = search.soft /\ search'.steady = search.steady
        /\ search'.came = search.came /\ search'.went = search.went
    BY <1>1, <1>2 DEF SearchRecord
  <1>5. search' \in SearchRecord
    BY <1>1, <1>2, <1>3 DEF SearchRecord
  <1> QED BY <1>4, <1>5 DEF pc, offset, got, twice, any

LEMMA TakenShape ==
    ASSUME Shape, NEW a, NEW none \in BOOLEAN, Answer(a), TakePage(a, none),
           UNCHANGED <<index, created>>
    PROVE  Shape'
  <1>1. /\ search' \in SearchRecord /\ search'.pc # "idle" /\ search'.steady = search.steady
        /\ search'.got = search.got \cup {a.page[k] : k \in 1 .. Len(a.page)}
    BY TakenIs
  <1>2. ASSUME NEW k \in 1 .. Len(a.page)
        PROVE  /\ a.page[k].id <= created
               /\ \A j \in 1 .. Len(index) : index[j].id = a.page[k].id => index[j] = a.page[k]
    <2>1. PICK i \in 1 .. Len(index) : a.page[k] = index[i]
      BY DEF Answer
    <2> QED BY <2>1 DEF Shape, Distinct
  <1>3. \A m \in search'.got : /\ m.id <= created
                               /\ \A k \in 1 .. Len(index) : index[k].id = m.id => index[k] = m
    BY <1>1, <1>2 DEF Shape
  <1> QED BY <1>1, <1>3 DEF Shape

LEMMA PageAnswers ==
    ASSUME Shape, NEW a \in Page(search.mode, Matches(search.scope, search.soft), search.offset)
    PROVE  Answer(a)
  BY PageIs, FollowingIs DEF Answer

\* The answer to a relaxed query: a ranked page of all the owner has, or nothing.
LEMMA RelaxedIs ==
    ASSUME Shape, NEW a \in RankedPage(Matches(search.scope, FALSE), search.offset)
                            \cup {PageOf(<<>>, 0, AnyOne)}
    PROVE  /\ Answer(a)
           /\ \A k \in 1 .. Len(a.page) : a.page[k] \in OfOwner(search.scope)
           /\ a.page # <<>> => IsPage(a.page, Owned(index, search), search.offset)
           /\ GoesOn(a) /\ a.page # <<>> => NextOffset(a) = search.offset + Len(a.page)
  <1> DEFINE v == Owned(index, search)
  <1>1. /\ search.offset \in Nat /\ search.front \in AllFronts
        /\ v \in Seq(MemoryFound)
        /\ \A k \in 1 .. Len(v) : /\ v[k] \in OfOwner(search.scope)
                                  /\ \E i \in 1 .. Len(index) : v[k] = index[i]
    <2>1. /\ search.offset \in Nat /\ search.front \in AllFronts
          /\ index \in Seq(MemoryFound) /\ Distinct(index)
      BY DEF Shape, SearchRecord
    <2>2. Owned(index, search) \in Seq(MemoryFound)
      BY <2>1, OwnedIs
    <2>3. \A k \in 1 .. Len(Owned(index, search)) :
            /\ Owned(index, search)[k] \in OfOwner(search.scope)
            /\ \E i \in 1 .. Len(index) : Owned(index, search)[k] = index[i]
      BY <2>1, OwnedIs
    <2> QED BY <2>1, <2>2, <2>3
  <1>2. v = Matches(search.scope, FALSE)
    <2>1. Fits(search.scope, FALSE) = OfOwner(search.scope)
      BY DEF Fits, OfOwner
    <2> QED BY <2>1, MatchesAre DEF Owned
  <1> HIDE DEF v
  <1>3. CASE a = PageOf(<<>>, 0, AnyOne)
    <2>1. a.page = <<>>
      BY <1>3 DEF PageOf
    <2> QED BY <2>1 DEF Answer
  <1>4. CASE a \in RankedPage(v, search.offset)
    <2>1. /\ IsPage(a.page, v, search.offset) /\ a.next = AnyOne
          /\ a.total = IF search.offset + Limit < Len(v) THEN search.offset + Limit ELSE Len(v)
      BY <1>1, <1>4, RankedPageIs
    <2>2. /\ a.page \in Seq(MemoryFound) /\ Len(a.page) = PageSize(v, search.offset)
          /\ \A k \in 1 .. Len(a.page) : a.page[k] = v[search.offset + k]
      BY <2>1 DEF IsPage
    <2>3. Limit \in Nat /\ Limit > 0 /\ Len(v) \in Nat
      BY <1>1, SearchAssumption DEF SearchAssumption
    <2>4. \A k \in 1 .. PageSize(v, search.offset) : search.offset + k \in 1 .. Len(v)
      BY <1>1, <2>3 DEF PageSize
    <2>5. \A k \in 1 .. Len(a.page) :
            /\ a.page[k] \in OfOwner(search.scope)
            /\ \E i \in 1 .. Len(index) : a.page[k] = index[i]
      BY <1>1, <2>2, <2>4
    <2>6. a.page # <<>> => a.total = search.offset + Len(a.page)
      <3>1. a.page # <<>> => Len(a.page) # 0
        BY <2>2
      <3> QED BY <1>1, <2>1, <2>2, <2>3, <3>1 DEF PageSize
    <2>7. GoesOn(a) /\ a.page # <<>> => search.front = "all" /\ Len(a.page) = Limit
      <3>1. CASE search.front = "all"
        BY <3>1 DEF GoesOn, AllGoesOn
      <3>2. CASE search.front = "tool"
        <4>1. a.page # <<>> => ~(a.total > search.offset + Len(a.page))
          BY <1>1, <2>2, <2>6
        <4> QED BY <2>1, <3>2, <4>1 DEF GoesOn, ToolGoesOn
      <3>3. CASE search.front \in {"next", "cli"}
        BY <2>1, <3>3 DEF GoesOn
      <3>4. CASE search.front \in {"prompt", "promptAny"}
        BY <3>4 DEF GoesOn
      <3> QED BY <1>1, <3>1, <3>2, <3>3, <3>4 DEF AllFronts
    <2>8. GoesOn(a) /\ a.page # <<>> => NextOffset(a) = search.offset + Len(a.page)
      BY <2>7 DEF NextOffset
    <2>9. search.offset + Len(a.page) \in Nat
      BY <1>1, <2>2
    <2> QED BY <2>1, <2>2, <2>5, <2>8, <2>9 DEF Answer, v
  <1> QED BY <1>2, <1>3, <1>4

LEMMA IdsAreNumbers == \A m \in MemoryFound : m.id \in Nat
  <1>1. SUFFICES ASSUME NEW m \in MemoryFound PROVE m.id \in Nat
    OBVIOUS
  <1>2. m.id \in 1 .. MaxMemories
    BY DEF MemoryFound
  <1> QED BY <1>2

LEMMA CreateIs ==
    ASSUME Shape, CreateMemory
    PROVE  /\ Shape' /\ Sub(index, index')
           /\ search' = [search EXCEPT !.came = search.pc # "idle"]
  <1>1. PICK k \in 1 .. Len(index) + 1, m \in MemoryFound :
          m.id = created + 1 /\ index' = InsertAt(index, k, m)
    BY DEF CreateMemory
  <1>2. /\ index \in Seq(MemoryFound) /\ Distinct(index) /\ created \in 0 .. MaxMemories
        /\ search \in SearchRecord /\ search.steady \subseteq IdsOf(index)
        /\ \A i \in 1 .. Len(index) : index[i].id <= created
        /\ search.pc = "idle" => search = NotSearching
    BY DEF Shape
  <1>3. created < MaxMemories /\ created' = created + 1
        /\ search' = [search EXCEPT !.came = search.pc # "idle"]
    BY DEF CreateMemory
  <1>4. /\ index' \in Seq(MemoryFound) /\ Len(index') = Len(index) + 1 /\ Sub(index, index')
        /\ \A i \in 1 .. Len(index) + 1 :
             index'[i] = IF i < k THEN index[i] ELSE IF i = k THEN m ELSE index[i - 1]
    BY <1>1, <1>2, InsertSub
  <1>5. \A i \in 1 .. Len(index) : index[i] \in MemoryFound /\ index[i].id \in Nat
    BY <1>2, IdsAreNumbers
  <1>6. ASSUME NEW i \in 1 .. Len(index')
        PROVE  \/ i = k /\ index'[i] = m
               \/ i < k /\ i \in 1 .. Len(index) /\ index'[i] = index[i]
               \/ i > k /\ i - 1 \in 1 .. Len(index) /\ index'[i] = index[i - 1]
    BY <1>1, <1>2, <1>4
  <1>7. Distinct(index')
    <2>1. ASSUME NEW i \in 1 .. Len(index'), NEW j \in 1 .. Len(index'), i < j
          PROVE  index'[i].id # index'[j].id
      <3>1. CASE i = k
        <4>1. j > k /\ j - 1 \in 1 .. Len(index) /\ index'[j] = index[j - 1] /\ index'[i] = m
          BY <1>6, <2>1, <3>1
        <4> QED BY <1>1, <1>2, <1>5, <4>1
      <3>2. CASE j = k
        <4>1. i \in 1 .. Len(index) /\ index'[i] = index[i] /\ index'[j] = m
          BY <1>6, <2>1, <3>2
        <4> QED BY <1>1, <1>2, <1>5, <4>1
      <3>3. CASE i # k /\ j # k
        <4> DEFINE a == IF i < k THEN i ELSE i - 1
                   b == IF j < k THEN j ELSE j - 1
        <4>1. /\ a \in 1 .. Len(index) /\ index'[i] = index[a]
              /\ b \in 1 .. Len(index) /\ index'[j] = index[b] /\ a # b
          BY <1>6, <2>1, <3>3
        <4> HIDE DEF a, b
        <4> QED BY <1>2, <4>1 DEF Distinct
      <3> QED BY <3>1, <3>2, <3>3
    <2>2. ASSUME NEW i \in 1 .. Len(index'), NEW j \in 1 .. Len(index'),
                 index'[i].id = index'[j].id
          PROVE  i = j
      <3>1. ~(i < j) /\ ~(j < i)
        BY <2>1, <2>2
      <3> QED BY <3>1
    <2> QED BY <2>2 DEF Distinct
  <1>8. \A i \in 1 .. Len(index') : index'[i].id <= created'
    BY <1>1, <1>2, <1>3, <1>5, <1>6
  <1>9. search'.steady \subseteq IdsOf(index')
    <2>1. \A i \in 1 .. Len(index) : \E j \in 1 .. Len(index') : index'[j] = index[i]
      BY <1>2, <1>4, SubIn
    <2>2. IdsOf(index) \subseteq IdsOf(index')
      <3>1. DOMAIN index = 1 .. Len(index) /\ DOMAIN index' = 1 .. Len(index')
        BY <1>2, <1>4
      <3> QED BY <2>1, <3>1 DEF IdsOf
    <2>3. search'.steady = search.steady
      BY <1>2, <1>3 DEF SearchRecord
    <2> QED BY <1>2, <2>2, <2>3
  <1>10. search' \in SearchRecord /\ search'.got = search.got /\ search'.pc = search.pc
    BY <1>2, <1>3 DEF SearchRecord
  <1>11. search'.pc = "idle" => search' = NotSearching
    <2>1. SUFFICES ASSUME search.pc = "idle" PROVE search' = NotSearching
      BY <1>10
    <2>2. search' = [NotSearching EXCEPT !.came = FALSE]
      BY <1>2, <1>3, <2>1
    <2> QED BY <2>2 DEF NotSearching
  <1>12. ASSUME NEW x \in search'.got
         PROVE  /\ x.id <= created'
                /\ \A i \in 1 .. Len(index') : index'[i].id = x.id => index'[i] = x
    <2>1. x.id <= created /\ \A i \in 1 .. Len(index) : index[i].id = x.id => index[i] = x
      BY <1>10 DEF Shape
    <2>2. x.id \in Nat
      <3>1. x \in MemoryFound
        BY <1>10 DEF SearchRecord
      <3> QED BY <3>1, IdsAreNumbers
    <2> QED BY <1>1, <1>2, <1>3, <1>6, <2>1, <2>2
  <1>13. created' \in 0 .. MaxMemories
    BY <1>2, <1>3, SearchAssumption DEF SearchAssumption
  <1>14. Shape'
    BY <1>4, <1>7, <1>8, <1>9, <1>10, <1>11, <1>12, <1>13 DEF Shape
  <1> QED BY <1>3, <1>4, <1>14

LEMMA DeleteIs ==
    ASSUME Shape, DeleteMemory
    PROVE  /\ Shape' /\ Sub(index', index)
           /\ \E id : search' = [search EXCEPT !.steady = @ \ {id}, !.went = search.pc # "idle"]
  <1>1. PICK k \in DOMAIN index :
          /\ index' = RemoveAt(index, k)
          /\ search' = [search EXCEPT !.steady = @ \ {index[k].id}, !.went = search.pc # "idle"]
    BY DEF DeleteMemory
  <1>2. /\ index \in Seq(MemoryFound) /\ Distinct(index) /\ created \in 0 .. MaxMemories
        /\ search \in SearchRecord /\ search.steady \subseteq IdsOf(index)
        /\ \A i \in 1 .. Len(index) : index[i].id <= created
        /\ search.pc = "idle" => search = NotSearching
    BY DEF Shape
  <1>3. k \in 1 .. Len(index) /\ created' = created
    BY <1>2 DEF DeleteMemory
  <1>4. /\ index' \in Seq(MemoryFound) /\ Len(index') = Len(index) - 1 /\ Sub(index', index)
        /\ \A i \in 1 .. Len(index) - 1 : index'[i] = IF i < k THEN index[i] ELSE index[i + 1]
    BY <1>1, <1>2, <1>3, RemoveSub
  <1>5. /\ Distinct(index')
        /\ \A i \in 1 .. Len(index') : \E j \in 1 .. Len(index) : index'[i] = index[j]
    BY <1>2, <1>4, SubDistinct, SubIn
  <1>6. /\ search' \in SearchRecord /\ search'.got = search.got /\ search'.pc = search.pc
        /\ search'.steady = search.steady \ {index[k].id}
    BY <1>1, <1>2 DEF SearchRecord
  <1>7. search'.steady \subseteq IdsOf(index')
    <2>1. ASSUME NEW i \in 1 .. Len(index), i # k
          PROVE  \E j \in 1 .. Len(index') : index'[j] = index[i]
      <3>1. CASE i < k
        <4>1. i \in 1 .. Len(index')
          BY <1>2, <1>3, <1>4, <3>1
        <4> QED BY <1>4, <3>1, <4>1
      <3>2. CASE i > k
        <4>1. i - 1 \in 1 .. Len(index') /\ ~(i - 1 < k) /\ (i - 1) + 1 = i
          BY <1>2, <1>3, <1>4, <3>2
        <4> QED BY <1>4, <4>1
      <3> QED BY <1>3, <2>1, <3>1, <3>2
    <2>2. ASSUME NEW id \in search'.steady PROVE id \in IdsOf(index')
      <3>1. id \in IdsOf(index) /\ id # index[k].id
        BY <1>2, <1>6
      <3>2. PICK i \in 1 .. Len(index) : index[i].id = id
        BY <1>2, <3>1 DEF IdsOf
      <3>3. PICK j \in 1 .. Len(index') : index'[j] = index[i]
        BY <2>1, <3>1, <3>2
      <3> QED BY <1>4, <3>2, <3>3 DEF IdsOf
    <2> QED BY <2>2
  <1>8. search'.pc = "idle" => search' = NotSearching
    <2>1. SUFFICES ASSUME search.pc = "idle" PROVE search' = NotSearching
      BY <1>6
    <2>2. search' = [NotSearching EXCEPT !.steady = @ \ {index[k].id}, !.went = FALSE]
      BY <1>1, <1>2, <2>1
    <2> QED BY <2>2 DEF NotSearching
  <1>9. \A x \in search'.got : /\ x.id <= created'
                               /\ \A i \in 1 .. Len(index') : index'[i].id = x.id => index'[i] = x
    BY <1>3, <1>5, <1>6 DEF Shape
  <1>10. \A i \in 1 .. Len(index') : index'[i].id <= created'
    BY <1>2, <1>3, <1>5
  <1>11. Shape'
    BY <1>2, <1>3, <1>4, <1>5, <1>6, <1>7, <1>8, <1>9, <1>10 DEF Shape
  <1> QED BY <1>1, <1>4, <1>11

LEMMA ScopesAgree ==
    ASSUME NEW front \in Fronts, NEW asked \in Scope, NEW configured \in Namespaces \cup {AnyOne},
           NEW sessionUser \in Users \cup {AnyOne},
           configured # AnyOne => front # "cli",
           sessionUser # AnyOne => front \in {"prompt", "promptAny"}
    PROVE  /\ MeantScope(asked, configured, sessionUser) \in Scope
           /\ SentScope(front, asked, configured, sessionUser) \in Scope
           /\ "promptAny" \notin Fronts
                => SentScope(front, asked, configured, sessionUser)
                     = MeantScope(asked, configured, sessionUser)
  <1> DEFINE filled == [asked EXCEPT !.namespace = GivenOr(@, configured)]
             meant == MeantScope(asked, configured, sessionUser)
             sent == SentScope(front, asked, configured, sessionUser)
  <1>1. /\ asked.namespace \in Namespaces \cup {AnyOne} /\ asked.user \in Users \cup {AnyOne}
        /\ asked = [namespace |-> asked.namespace, user |-> asked.user]
    BY DEF Scope
  <1>2. meant \in Scope
    BY <1>1 DEF MeantScope, GivenOr, Scope
  <1>3. filled = [namespace |-> GivenOr(asked.namespace, configured), user |-> asked.user]
    BY <1>1
  <1>4. meant = [namespace |-> GivenOr(asked.namespace, configured),
                 user |-> GivenOr(asked.user, sessionUser)]
    BY DEF MeantScope
  <1>5. CASE front = "cli"
    <2>1. sent = asked
      BY <1>5 DEF SentScope, CliScope
    <2>2. configured = AnyOne /\ sessionUser = AnyOne
      BY <1>5
    <2>3. /\ GivenOr(asked.namespace, AnyOne) = asked.namespace
          /\ GivenOr(asked.user, AnyOne) = asked.user
      BY DEF GivenOr
    <2> QED BY <1>1, <1>2, <1>4, <2>1, <2>2, <2>3
  <1>6. CASE front = "prompt"
    <2>1. sent = [filled EXCEPT !.user = GivenOr(@, sessionUser)]
      BY <1>6 DEF SentScope, PromptScope, HydrateScope
    <2>2. sent = [namespace |-> GivenOr(asked.namespace, configured),
                  user |-> GivenOr(asked.user, sessionUser)]
      BY <1>3, <2>1
    <2> QED BY <1>2, <1>4, <2>2
  <1>7. CASE front = "promptAny"
    <2>1. sent = [Everyone EXCEPT !.user = sessionUser]
      BY <1>7 DEF SentScope, PromptScope
    <2>2. sent \in Scope
      BY <2>1 DEF Everyone, Scope
    <2> QED BY <1>2, <1>7, <2>2
  <1>8. CASE front \notin {"cli", "prompt", "promptAny"}
    <2>1. sent = filled
      BY <1>8 DEF SentScope, ClientScope
    <2>2. sessionUser = AnyOne
      BY <1>8
    <2>3. GivenOr(asked.user, AnyOne) = asked.user
      BY DEF GivenOr
    <2> QED BY <1>2, <1>3, <1>4, <2>1, <2>2, <2>3
  <1> QED BY <1>5, <1>6, <1>7, <1>8

LEMMA StartIs ==
    ASSUME Shape, StartSearch
    PROVE  /\ Shape' /\ UNCHANGED <<index, created>> /\ search'.pc = "query"
           /\ search'.got = {} /\ search'.offset = 0 /\ search'.twice = FALSE
           /\ search'.came = FALSE /\ search'.went = FALSE /\ search'.none = FALSE
           /\ search'.steady = IdsOf(Matches(search'.scope, search'.soft))
           /\ "promptAny" \notin Fronts => search'.scope = search'.meant
  <1>1. UNCHANGED <<index, created>>
    BY DEF StartSearch
  <1>2. PICK front \in Fronts, mode \in Modes, soft \in BOOLEAN, asked \in Scope,
             configured \in Namespaces \cup {AnyOne}, sessionUser \in Users \cup {AnyOne} :
          /\ mode = "list" => front = "next"
          /\ mode = "recency" => front \notin {"all", "cli"}
          /\ configured # AnyOne => front # "cli"
          /\ sessionUser # AnyOne => front \in {"prompt", "promptAny"}
          /\ LET scope == SentScope(front, asked, configured, sessionUser)
             IN  search' = [NotSearching EXCEPT
                              !.pc = "query", !.front = front, !.mode = mode,
                              !.meant = MeantScope(asked, configured, sessionUser),
                              !.scope = scope, !.soft = soft,
                              !.steady = IdsOf(Matches(scope, soft))]
    BY Zenon DEF StartSearch
  <1> DEFINE scope == SentScope(front, asked, configured, sessionUser)
             meant == MeantScope(asked, configured, sessionUser)
             steady == IdsOf(Matches(scope, soft))
  <1>3. search' = [pc |-> "query", front |-> front, mode |-> mode, meant |-> meant,
                   scope |-> scope, soft |-> soft, offset |-> 0, got |-> {}, twice |-> FALSE,
                   steady |-> steady, came |-> FALSE, went |-> FALSE, none |-> FALSE]
    BY <1>2 DEF NotSearching
  <1>4. scope \in Scope /\ meant \in Scope /\ ("promptAny" \notin Fronts => scope = meant)
    BY <1>2, ScopesAgree
  <1>5. steady \subseteq IdsOf(index) /\ IdsOf(index) \subseteq 1 .. MaxMemories
    <2> DEFINE c == Matches(scope, soft)
               good == Fits(scope, soft)
    <2>1. index \in Seq(MemoryFound)
      BY DEF Shape
    <2>2. c = Chosen(index, good)
      BY MatchesAre
    <2> HIDE DEF c, good
    <2>3. c \in Seq(MemoryFound) /\ Sub(c, index)
      BY <2>1, <2>2, ChosenMembers
    <2>4. \A k \in 1 .. Len(c) : \E i \in 1 .. Len(index) : c[k] = index[i]
      BY <2>1, <2>3, SubIn
    <2>5. DOMAIN c = 1 .. Len(c) /\ DOMAIN index = 1 .. Len(index)
      BY <2>1, <2>3
    <2>6. IdsOf(c) \subseteq IdsOf(index)
      BY <2>4, <2>5 DEF IdsOf
    <2>7. \A i \in 1 .. Len(index) : index[i].id \in 1 .. MaxMemories
      <3>1. \A m \in MemoryFound : m.id \in 1 .. MaxMemories
        BY DEF MemoryFound
      <3> QED BY <2>1, <3>1
    <2> QED BY <2>5, <2>6, <2>7 DEF c, IdsOf
  <1> HIDE DEF scope, meant, steady
  <1>6. search' \in SearchRecord
    <2>1. front \in AllFronts /\ mode \in AllModes
      BY SearchAssumption DEF SearchAssumption
    <2> QED BY <1>3, <1>4, <1>5, <2>1 DEF SearchRecord
  <1>7. Shape'
    BY <1>1, <1>3, <1>5, <1>6 DEF Shape
  <1>8. search'.steady = IdsOf(Matches(search'.scope, search'.soft))
    <2>1. search'.steady = steady /\ search'.scope = scope /\ search'.soft = soft
      BY <1>3
    <2> QED BY <2>1 DEF steady
  <1> QED BY <1>1, <1>3, <1>4, <1>7, <1>8

LEMMA EndIs ==
    ASSUME Shape, FailSearch \/ EndSearch
    PROVE  Shape' /\ search' = NotSearching
  <1>1. NotSearching \in SearchRecord /\ NotSearching.steady = {} /\ NotSearching.got = {}
    BY DEF NotSearching, SearchRecord, Everyone, Scope, AllFronts, AllModes
  <1> QED BY <1>1 DEF Shape, FailSearch, EndSearch

\* A query is answered, or relaxed for want of any strict match.
LEMMA QueryIs ==
    ASSUME Shape, QueryIndex
    PROVE  /\ search.pc = "query" /\ UNCHANGED <<index, created>>
           /\ \E a \in Page(search.mode, Matches(search.scope, search.soft), search.offset) :
                \/ /\ search' = [search EXCEPT !.pc = "relax", !.none = TRUE]
                   /\ search.soft /\ search.mode # "list" /\ search.mode # "recency"
                   /\ Shown(index, search) = <<>>
                \/ TakePage(a, Matches(search.scope, search.soft) = <<>>)
  <1> DEFINE ms == Matches(search.scope, search.soft)
  <1>1. search.pc = "query" /\ UNCHANGED <<index, created>>
    BY DEF QueryIndex
  <1>2. PICK a \in Page(search.mode, ms, search.offset) :
          IF Relaxes(a) THEN search' = [search EXCEPT !.pc = "relax", !.none = @ \/ ms = <<>>]
          ELSE TakePage(a, ms = <<>>)
    BY DEF QueryIndex
  <1>3. CASE ~Relaxes(a)
    BY <1>1, <1>2, <1>3
  <1>4. CASE Relaxes(a)
    <2>1. search.soft /\ search.mode \in {"semantic", "listing"} /\ a.total = 0
      BY <1>4 DEF Relaxes
    <2>2. /\ search.mode = "semantic"
             => a.total = IF search.offset + Limit < Len(Shown(index, search))
                          THEN search.offset + Limit ELSE Len(Shown(index, search))
          /\ search.mode = "listing" => a.total = Len(Shown(index, search))
      BY PageIs
    <2>3. Shown(index, search) \in Seq(MemoryFound) /\ search.offset \in Nat
      BY ShownIs DEF Shape, SearchRecord
    <2>4. Len(Shown(index, search)) \in Nat /\ Limit \in Nat /\ Limit > 0
      BY <2>3, SearchAssumption DEF SearchAssumption
    <2>5. Len(Shown(index, search)) = 0
      BY <2>1, <2>2, <2>3, <2>4
    <2>6. Shown(index, search) = <<>>
      BY <2>3, <2>5
    <2>7. Shown(index, search) = ms
      BY <2>1, MatchesAre DEF Shown, View
    <2>8. ms = <<>>
      BY <2>6, <2>7
    <2>9. search' = [search EXCEPT !.pc = "relax", !.none = TRUE]
      <3>1. (search.none \/ ms = <<>>) = TRUE
        BY <2>8
      <3>2. search' = [search EXCEPT !.pc = "relax", !.none = search.none \/ ms = <<>>]
        BY <1>2, <1>4
      <3> QED BY <3>1, <3>2
    <2> QED BY <1>1, <2>1, <2>6, <2>9
  <1> QED BY <1>3, <1>4

LEMMA ShapeInvariant == SearchSpec => []Shape
  <1>1. SearchInit => Shape
    <2>1. NotSearching \in SearchRecord /\ NotSearching.steady = {} /\ NotSearching.got = {}
      BY DEF NotSearching, SearchRecord, Everyone, Scope, AllFronts, AllModes
    <2>2. <<>> \in Seq(MemoryFound) /\ Len(<<>>) = 0 /\ Distinct(<<>>)
      BY DEF Distinct
    <2> QED BY <2>1, <2>2, SearchAssumption DEF SearchInit, Shape, SearchAssumption
  <1>2. ASSUME Shape, [SearchNext]_searchVars PROVE Shape'
    <2>1. CASE CreateMemory
      BY <1>2, <2>1, CreateIs
    <2>2. CASE DeleteMemory
      BY <1>2, <2>2, DeleteIs
    <2>3. CASE StartSearch
      BY <1>2, <2>3, StartIs
    <2>4. CASE QueryIndex
      <3>1. UNCHANGED <<index, created>> /\ search.pc = "query"
        BY <1>2, <2>4, QueryIs
      <3>2. PICK a \in Page(search.mode, Matches(search.scope, search.soft), search.offset) :
              \/ search' = [search EXCEPT !.pc = "relax", !.none = TRUE]
              \/ TakePage(a, Matches(search.scope, search.soft) = <<>>)
        BY <1>2, <2>4, QueryIs
      <3>3. CASE search' = [search EXCEPT !.pc = "relax", !.none = TRUE]
        <4>1. /\ search' \in SearchRecord /\ search'.pc = "relax" /\ search'.got = search.got
              /\ search'.steady = search.steady
          BY <1>2, <3>3 DEF Shape, SearchRecord
        <4> QED BY <1>2, <3>1, <4>1 DEF Shape
      <3>4. CASE TakePage(a, Matches(search.scope, search.soft) = <<>>)
        BY <1>2, <3>1, <3>4, PageAnswers, TakenShape
      <3> QED BY <3>2, <3>3, <3>4
    <2>5. CASE Fallback
      <3>1. PICK a \in RankedPage(Matches(search.scope, FALSE), search.offset)
                       \cup {PageOf(<<>>, 0, AnyOne)} : TakePage(a, FALSE)
        BY <2>5 DEF Fallback
      <3>2. UNCHANGED <<index, created>>
        BY <2>5 DEF Fallback
      <3> QED BY <1>2, <3>1, <3>2, RelaxedIs, TakenShape
    <2>6. CASE FailSearch \/ EndSearch
      BY <1>2, <2>6, EndIs
    <2>7. CASE UNCHANGED searchVars
      BY <1>2, <2>7 DEF searchVars, Shape
    <2> QED BY <1>2, <2>1, <2>2, <2>3, <2>4, <2>5, <2>6, <2>7 DEF SearchNext
  <1>3. Shape /\ [SearchNext]_searchVars => Shape'
    BY <1>2
  <1> QED BY <1>1, <1>3, PTL DEF SearchSpec

LEMMA DistinctCount ==
    ASSUME NEW ms \in Seq(MemoryFound), Distinct(ms)
    PROVE  Cardinality(IdsOf(ms)) = Len(ms)
  <1> DEFINE f == [k \in 1 .. Len(ms) |-> ms[k].id]
  <1>1. IdsOf(ms) = {ms[k].id : k \in 1 .. Len(ms)}
    BY DEF IdsOf
  <1>2. f \in [1 .. Len(ms) -> IdsOf(ms)]
    BY <1>1
  <1>3. \A j, k \in 1 .. Len(ms) : f[j] = f[k] => j = k
    BY DEF Distinct
  <1>4. \A id \in IdsOf(ms) : \E k \in 1 .. Len(ms) : f[k] = id
    BY <1>1
  <1> HIDE DEF f
  <1>5. f \in Bijection(1 .. Len(ms), IdsOf(ms))
    BY <1>2, <1>3, <1>4 DEF Bijection, Injection, Surjection, IsInjective
  <1>6. ExistsBijection(1 .. Len(ms), IdsOf(ms)) /\ Len(ms) \in Nat
    BY <1>5 DEF ExistsBijection
  <1> QED BY <1>6, FS_CountingElements

\* Every memory in the index has its own id, and what is called steady is in the index.
THEOREM SearchTypes == SearchSpec => []SearchTypeOK
  <1>1. Shape => SearchTypeOK
    BY DistinctCount DEF Shape, SearchTypeOK, SearchRecord
  <1> QED BY <1>1, ShapeInvariant, PTL

-----------------------------------------------------------------------------
(***************************************************************************)
(* Whose memories, and which of them.                                      *)
(***************************************************************************)
\* An index that changes under a search changes nothing of the search but its history.
LEMMA IndexMoves ==
    ASSUME Shape, CreateMemory \/ DeleteMemory
    PROVE  /\ search'.pc = search.pc /\ search'.front = search.front /\ search'.mode = search.mode
           /\ search'.meant = search.meant /\ search'.scope = search.scope
           /\ search'.soft = search.soft /\ search'.offset = search.offset
           /\ search'.got = search.got /\ search'.twice = search.twice
           /\ search'.none = search.none
           /\ CreateMemory => /\ search'.steady = search.steady /\ search'.went = search.went
                              /\ search'.came = (search.pc # "idle")
           /\ ~CreateMemory => /\ search'.steady \subseteq search.steady
                               /\ search'.came = search.came /\ search'.went = (search.pc # "idle")
  <1>1. search \in SearchRecord
    BY DEF Shape
  <1>2. CASE CreateMemory
    <2>1. search' = [search EXCEPT !.came = search.pc # "idle"]
      BY <1>2, CreateIs
    <2> QED BY <1>1, <1>2, <2>1 DEF SearchRecord
  <1>3. CASE ~CreateMemory
    <2>1. PICK id :
            search' = [search EXCEPT !.steady = @ \ {id}, !.went = search.pc # "idle"]
      BY <1>3, DeleteIs
    <2> QED BY <1>1, <1>3, <2>1 DEF SearchRecord
  <1> QED BY <1>2, <1>3

LEMMA RelaxMoves ==
    ASSUME Shape, search' = [search EXCEPT !.pc = "relax", !.none = TRUE]
    PROVE  /\ search'.pc = "relax" /\ search'.none = TRUE
           /\ search'.front = search.front /\ search'.mode = search.mode
           /\ search'.meant = search.meant /\ search'.scope = search.scope
           /\ search'.soft = search.soft /\ search'.offset = search.offset
           /\ search'.got = search.got /\ search'.twice = search.twice
           /\ search'.steady = search.steady
           /\ search'.came = search.came /\ search'.went = search.went
  BY DEF Shape, SearchRecord

\* Nobody is shown memories of another namespace or user than was meant: every caller sends
\* the filters it means, and both queries of a search keep them.  Assumed: no memory prompt is
\* asked for with long_term_search = True, which drops the namespace.
THEOREM SearchesKeepTheirScope ==
    ASSUME "promptAny" \notin Fronts
    PROVE  SearchSpec => []ScopeIsKept
  <1>1. SearchInit => ScopeIsMeant
    BY DEF SearchInit, NotSearching, ScopeIsMeant
  <1>2. ASSUME Shape, ScopeIsMeant, [SearchNext]_searchVars PROVE ScopeIsMeant'
    <2>1. CASE CreateMemory \/ DeleteMemory
      BY <1>2, <2>1, IndexMoves DEF ScopeIsMeant
    <2>2. CASE StartSearch
      BY <1>2, <2>2, StartIs DEF ScopeIsMeant
    <2>3. ASSUME NEW a, NEW none \in BOOLEAN, Answer(a), TakePage(a, none),
                 \A k \in 1 .. Len(a.page) : InScope(a.page[k], search.scope)
          PROVE  ScopeIsMeant'
      <3>1. /\ search'.got = search.got \cup {a.page[k] : k \in 1 .. Len(a.page)}
            /\ search'.meant = search.meant /\ search'.scope = search.scope
        BY <1>2, <2>3, TakenIs
      <3> QED BY <1>2, <2>3, <3>1 DEF ScopeIsMeant
    <2>4. CASE QueryIndex
      <3>1. PICK a \in Page(search.mode, Matches(search.scope, search.soft), search.offset) :
              \/ search' = [search EXCEPT !.pc = "relax", !.none = TRUE]
              \/ TakePage(a, Matches(search.scope, search.soft) = <<>>)
        BY <1>2, <2>4, QueryIs
      <3>2. CASE search' = [search EXCEPT !.pc = "relax", !.none = TRUE]
        BY <1>2, <3>2, RelaxMoves DEF ScopeIsMeant
      <3>3. CASE TakePage(a, Matches(search.scope, search.soft) = <<>>)
        <4>1. \A k \in 1 .. Len(a.page) : a.page[k] \in Fits(search.scope, search.soft)
          BY <1>2, PageIs
        <4>2. \A k \in 1 .. Len(a.page) : InScope(a.page[k], search.scope)
          BY <4>1 DEF Fits
        <4> QED BY <1>2, <2>3, <3>3, <4>2, PageAnswers
      <3> QED BY <3>1, <3>2, <3>3
    <2>5. CASE Fallback
      <3>1. PICK a \in RankedPage(Matches(search.scope, FALSE), search.offset)
                       \cup {PageOf(<<>>, 0, AnyOne)} : TakePage(a, FALSE)
        BY <2>5 DEF Fallback
      <3>2. Answer(a) /\ \A k \in 1 .. Len(a.page) : a.page[k] \in OfOwner(search.scope)
        BY <1>2, RelaxedIs
      <3>3. \A k \in 1 .. Len(a.page) : InScope(a.page[k], search.scope)
        BY <3>2 DEF OfOwner
      <3> QED BY <2>3, <3>1, <3>2, <3>3
    <2>6. CASE FailSearch \/ EndSearch
      BY <1>2, <2>6, EndIs DEF ScopeIsMeant, NotSearching
    <2>7. CASE UNCHANGED searchVars
      BY <1>2, <2>7 DEF searchVars, ScopeIsMeant
    <2> QED BY <1>2, <2>1, <2>2, <2>4, <2>5, <2>6, <2>7 DEF SearchNext
  <1>3. Shape /\ ScopeIsMeant /\ [SearchNext]_searchVars => ScopeIsMeant'
    BY <1>2
  <1>4. ScopeIsMeant => ScopeIsKept
    BY DEF ScopeIsMeant, ScopeIsKept
  <1> QED BY <1>1, <1>3, <1>4, ShapeInvariant, PTL DEF SearchSpec

\* A memory that does not match the soft filters is shown only if at some moment of the search
\* nothing did: only an empty answer is relaxed, and total is zero only when nothing matches.
THEOREM OnlyNothingIsRelaxed == SearchSpec => []RelaxedOnlyIfNone
  <1>1. SearchInit => RelaxedOnNothing
    BY DEF SearchInit, NotSearching, RelaxedOnNothing
  <1>2. ASSUME Shape, RelaxedOnNothing, [SearchNext]_searchVars PROVE RelaxedOnNothing'
    <2>1. CASE CreateMemory \/ DeleteMemory
      BY <1>2, <2>1, IndexMoves DEF RelaxedOnNothing
    <2>2. CASE StartSearch
      BY <1>2, <2>2, StartIs DEF RelaxedOnNothing
    <2>3. CASE QueryIndex
      <3>1. PICK a \in Page(search.mode, Matches(search.scope, search.soft), search.offset) :
              \/ search' = [search EXCEPT !.pc = "relax", !.none = TRUE]
              \/ TakePage(a, Matches(search.scope, search.soft) = <<>>)
        BY <1>2, <2>3, QueryIs
      <3>2. CASE search' = [search EXCEPT !.pc = "relax", !.none = TRUE]
        BY <1>2, <3>2, RelaxMoves DEF RelaxedOnNothing
      <3>3. CASE TakePage(a, Matches(search.scope, search.soft) = <<>>)
        <4>1. \A k \in 1 .. Len(a.page) : a.page[k] \in Fits(search.scope, search.soft)
          BY <1>2, PageIs
        <4>2. \A k \in 1 .. Len(a.page) : search.soft => a.page[k].topical
          BY <4>1 DEF Fits
        <4>3. /\ search'.pc \in {"query", "done"} /\ search'.soft = search.soft
              /\ search'.got = search.got \cup {a.page[k] : k \in 1 .. Len(a.page)}
              /\ search.none => search'.none
          <5>1. ASSUME NEW none \in BOOLEAN, TakePage(a, none)
                PROVE  /\ search'.pc \in {"query", "done"} /\ search'.soft = search.soft
                       /\ search'.got = search.got \cup {a.page[k] : k \in 1 .. Len(a.page)}
                       /\ search.none => search'.none
            BY <1>2, <5>1, PageAnswers, TakenIs
          <5> QED BY <3>3, <5>1
        <4> QED BY <1>2, <4>2, <4>3 DEF RelaxedOnNothing
      <3> QED BY <3>1, <3>2, <3>3
    <2>4. CASE Fallback
      <3>1. PICK a \in RankedPage(Matches(search.scope, FALSE), search.offset)
                       \cup {PageOf(<<>>, 0, AnyOne)} : TakePage(a, FALSE)
        BY <2>4 DEF Fallback
      <3>2. search'.soft = search.soft /\ (search.none => search'.none)
        BY <1>2, <3>1, RelaxedIs, TakenIs
      <3>3. search.pc = "relax"
        BY <2>4 DEF Fallback
      <3> QED BY <1>2, <3>2, <3>3 DEF RelaxedOnNothing
    <2>5. CASE FailSearch \/ EndSearch
      BY <1>2, <2>5, EndIs DEF RelaxedOnNothing, NotSearching
    <2>6. CASE UNCHANGED searchVars
      BY <1>2, <2>6 DEF searchVars, RelaxedOnNothing
    <2> QED BY <1>2, <2>1, <2>2, <2>3, <2>4, <2>5, <2>6 DEF SearchNext
  <1>3. Shape /\ RelaxedOnNothing /\ [SearchNext]_searchVars => RelaxedOnNothing'
    BY <1>2
  <1>4. RelaxedOnNothing => RelaxedOnlyIfNone
    BY DEF RelaxedOnNothing, RelaxedOnlyIfNone
  <1> QED BY <1>1, <1>3, <1>4, ShapeInvariant, PTL DEF SearchSpec

-----------------------------------------------------------------------------
(***************************************************************************)
(* Nothing twice.                                                          *)
(***************************************************************************)
LEMMA ShownSame ==
    ASSUME NEW ms, NEW s, NEW t, s.mode = t.mode, s.scope = t.scope, s.soft = t.soft
    PROVE  Shown(ms, s) = Shown(ms, t) /\ Owned(ms, s) = Owned(ms, t)
  BY DEF Shown, Owned

\* A page that was ahead of the caller holds nothing the caller has.
LEMMA PageIsNew ==
    ASSUME Shape, NEW a, NEW none \in BOOLEAN, Answer(a), TakePage(a, none),
           \A k \in 1 .. Len(a.page) : a.page[k] \notin search.got, NothingTwice
    PROVE  NothingTwice'
  <1>1. /\ search'.came = search.came
        /\ search'.twice <=> (search.twice \/ \E k \in 1 .. Len(a.page) :
                                                a.page[k].id \in {m.id : m \in search.got})
    BY TakenIs
  <1>2. ASSUME NEW k \in 1 .. Len(a.page), NEW m \in search.got, a.page[k].id = m.id PROVE FALSE
    <2>1. PICK i \in 1 .. Len(index) : a.page[k] = index[i]
      BY DEF Answer
    <2>2. index[i] = m
      BY <1>2, <2>1 DEF Shape
    <2> QED BY <1>2, <2>1, <2>2
  <1> QED BY <1>1, <1>2 DEF NothingTwice

LEMMA QueryKeepsBehind ==
    ASSUME Shape, GotIsBehind, NothingTwice, QueryIndex
    PROVE  GotIsBehind' /\ NothingTwice'
  <1> DEFINE v == Shown(index, search)
  <1>1. PICK a \in Page(search.mode, Matches(search.scope, search.soft), search.offset) :
          \/ /\ search' = [search EXCEPT !.pc = "relax", !.none = TRUE]
             /\ search.soft /\ search.mode # "list" /\ search.mode # "recency"
             /\ v = <<>>
          \/ TakePage(a, Matches(search.scope, search.soft) = <<>>)
    BY QueryIs
  <1>2. /\ search.pc = "query" /\ index' = index /\ Answer(a)
        /\ index \in Seq(MemoryFound) /\ Distinct(index)
        /\ search.offset \in Nat /\ v \in Seq(MemoryFound) /\ Distinct(v)
    BY QueryIs, PageAnswers, ShownIs DEF Shape, SearchRecord
  <1>3. Asking
    BY <1>2 DEF Asking
  <1>4. CASE /\ search' = [search EXCEPT !.pc = "relax", !.none = TRUE]
             /\ search.soft /\ search.mode # "list" /\ search.mode # "recency"
             /\ v = <<>>
    <2>1. /\ search'.pc = "relax" /\ search'.mode = search.mode /\ search'.scope = search.scope
          /\ search'.soft = search.soft /\ search'.offset = search.offset
          /\ search'.got = search.got /\ search'.twice = search.twice /\ search'.came = search.came
      BY <1>4, RelaxMoves
    <2>2. Shown(index', search') = v /\ Owned(index', search') = Owned(index, search)
      BY <1>2, <2>1, ShownSame
    <2>3. ASSUME ~search.came PROVE search.got \cap Ahead(Owned(index, search), search.offset) = {}
      <3>1. CASE \E m \in search.got : ~m.topical
        BY <1>3, <1>4, <2>3, <3>1 DEF GotIsBehind
      <3>2. CASE \A m \in search.got : m.topical
        <4>1. ASSUME NEW m \in search.got, m \in Ahead(Owned(index, search), search.offset)
              PROVE  FALSE
          <5>1. PICK k \in search.offset + 1 .. Len(Owned(index, search)) :
                       m = Owned(index, search)[k]
            BY <4>1 DEF Ahead
          <5>2. k \in 1 .. Len(Owned(index, search))
            BY <1>2
          <5>3. m \in OfOwner(search.scope) /\ \E i \in 1 .. Len(index) : m = index[i]
            BY <1>2, <5>1, <5>2, OwnedIs
          <5>4. m \in Fits(search.scope, search.soft)
            BY <3>2, <4>1, <5>3 DEF OfOwner, Fits
          <5>5. \E j \in 1 .. Len(v) : v[j] = m
            BY <1>2, <5>3, <5>4, ShownIs
          <5> QED BY <1>4, <5>5
        <4> QED BY <4>1
      <3> QED BY <3>1, <3>2
    <2>4. Ahead(v, search.offset) = {}
      BY <1>2, <1>4 DEF Ahead
    <2>5. GotIsBehind'
      BY <1>4, <2>1, <2>2, <2>3, <2>4 DEF GotIsBehind, Asking
    <2> QED BY <2>1, <2>5 DEF NothingTwice
  <1>5. ASSUME NEW none \in BOOLEAN, TakePage(a, none) PROVE GotIsBehind' /\ NothingTwice'
    <2> DEFINE page == {a.page[k] : k \in 1 .. Len(a.page)}
               going == GoesOn(a) /\ a.page # <<>>
    <2>1. /\ search'.pc = IF going THEN "query" ELSE "done"
          /\ search'.offset = IF going THEN NextOffset(a) ELSE search.offset
          /\ search'.mode = search.mode /\ search'.scope = search.scope
          /\ search'.soft = search.soft /\ search'.got = search.got \cup page
          /\ search'.came = search.came
      BY <1>2, <1>5, TakenIs
    <2>2. Shown(index', search') = v /\ Owned(index', search') = Owned(index, search)
      BY <1>2, <2>1, ShownSame
    <2>3. /\ a.page \in Seq(MemoryFound)
          /\ \A k \in 1 .. Len(a.page) : a.page[k] \in Fits(search.scope, search.soft)
          /\ search.mode # "recency" => IsPage(a.page, v, search.offset)
          /\ search.mode = "recency" => (search.offset >= Limit => a.page = <<>>)
      BY PageIs
    <2>4. /\ search.mode # "recency" /\ going => NextOffset(a) = search.offset + Len(a.page)
          /\ search.mode = "recency" /\ going => NextOffset(a) >= Limit
      BY FollowingIs
    <2>5. search.mode # "recency"
            => /\ Ahead(v, search.offset + Len(a.page)) \subseteq Ahead(v, search.offset)
               /\ \A k \in 1 .. Len(a.page) :
                    /\ a.page[k] \in Ahead(v, search.offset)
                    /\ a.page[k] \notin Ahead(v, search.offset + Len(a.page))
      <3> HIDE DEF v
      <3> QED BY <1>2, <2>3, PageEnds
    <2> HIDE DEF v
    <2>6. ASSUME search.came PROVE GotIsBehind' /\ NothingTwice'
      <3>1. search'.came
        BY <2>1, <2>6
      <3>2. NothingTwice'
        BY <3>1 DEF NothingTwice
      <3>3. search'.mode = "recency" /\ search'.pc = "query" => search'.offset >= Limit
        BY <2>1, <2>4
      <3>4. search'.pc # "relax"
        BY <2>1
      <3> QED BY <3>1, <3>2, <3>3, <3>4 DEF GotIsBehind, Asking
    <2>7. ASSUME ~search.came PROVE GotIsBehind' /\ NothingTwice'
      <3>1. \A k \in 1 .. Len(a.page) : a.page[k] \notin search.got
        <4>1. CASE search.mode # "recency"
          <5>1. search.got \cap Ahead(v, search.offset) = {}
            BY <1>3, <2>7, <4>1 DEF GotIsBehind, v
          <5> QED BY <2>5, <4>1, <5>1
        <4>2. CASE search.mode = "recency"
          <5>1. search.got = {} \/ search.offset >= Limit
            BY <1>3, <4>2 DEF GotIsBehind
          <5> QED BY <2>3, <4>2, <5>1
        <4> QED BY <4>1, <4>2
      <3>2. NothingTwice'
        BY <1>2, <1>5, <3>1, PageIsNew
      <3>3. search'.mode = "recency" /\ search'.pc = "query" => search'.offset >= Limit
        BY <2>1, <2>4
      <3>4. search'.mode # "recency" /\ search'.pc = "query"
              => search'.got \cap Ahead(v, search'.offset) = {}
        <4>1. SUFFICES ASSUME search.mode # "recency", going
                       PROVE  (search.got \cup page)
                                 \cap Ahead(v, search.offset + Len(a.page)) = {}
          BY <2>1, <2>4
        <4>2. search.got \cap Ahead(v, search.offset) = {}
          BY <1>3, <2>7, <4>1 DEF GotIsBehind, v
        <4> QED BY <2>5, <4>1, <4>2
      <3>5. ASSUME search'.pc = "query", search'.soft, NEW m \in search'.got, ~m.topical
            PROVE  FALSE
        <4>1. \A k \in 1 .. Len(a.page) : a.page[k].topical
          BY <2>1, <2>3, <3>5 DEF Fits
        <4>2. m \in search.got /\ search.soft
          BY <2>1, <3>5, <4>1
        <4>3. v = <<>>
          BY <1>3, <2>7, <3>5, <4>2 DEF GotIsBehind, v
        <4>4. a.page = <<>>
          <5>1. search.mode # "recency" => Len(a.page) = 0
            BY <1>2, <2>3, <4>3 DEF IsPage, PageSize
          <5>2. \A k \in 1 .. Len(a.page) : \E i \in 1 .. Len(index) : a.page[k] = index[i]
            BY <1>2 DEF Answer
          <5>3. ASSUME NEW k \in 1 .. Len(a.page) PROVE FALSE
            <6>1. PICK i \in 1 .. Len(index) : a.page[k] = index[i]
              BY <5>2
            <6>2. index[i] \in Fits(search.scope, search.soft)
              BY <2>3, <6>1
            <6>3. \E j \in 1 .. Len(Shown(index, search)) : Shown(index, search)[j] = index[i]
              BY <1>2, <6>2, ShownIs
            <6> QED BY <4>3, <6>3 DEF v
          <5> QED BY <2>3, <5>3
        <4> QED BY <2>1, <3>5, <4>4
      <3>6. search'.pc # "relax"
        BY <2>1
      <3>7. GotIsBehind'
        BY <2>2, <3>3, <3>4, <3>5, <3>6 DEF GotIsBehind, Asking
      <3> QED BY <3>2, <3>7
    <2> QED BY <2>6, <2>7
  <1> QED BY <1>1, <1>4, <1>5

\* A memory that comes excuses everything; one that goes leaves fewer ahead.
LEMMA CreateKeepsBehind ==
    ASSUME Shape, GotIsBehind, NothingTwice, CreateMemory
    PROVE  GotIsBehind' /\ NothingTwice'
  <1>1. /\ search'.pc = search.pc /\ search'.mode = search.mode /\ search'.offset = search.offset
        /\ search'.got = search.got /\ search'.twice = search.twice /\ search'.soft = search.soft
        /\ search'.came = (search.pc # "idle")
    BY IndexMoves
  <1>2. CASE search.pc = "idle"
    <2>1. ~search.twice
      BY <1>2 DEF Shape, NotSearching
    <2> QED BY <1>1, <1>2, <2>1 DEF GotIsBehind, NothingTwice, Asking
  <1>3. CASE search.pc # "idle"
    <2>1. search'.came
      BY <1>1, <1>3
    <2>2. NothingTwice'
      BY <2>1 DEF NothingTwice
    <2>3. SUFFICES ASSUME Asking PROVE GotIsBehind'
      BY <1>1, <2>2 DEF GotIsBehind, Asking
    <2> QED BY <1>1, <2>1, <2>3 DEF GotIsBehind
  <1> QED BY <1>2, <1>3

\* What a memory that goes leaves of the two views.
LEMMA DeleteShrinks ==
    ASSUME Shape, DeleteMemory
    PROVE  /\ Ahead(Shown(index', search'), search.offset)
                \subseteq Ahead(Shown(index, search), search.offset)
           /\ Ahead(Owned(index', search'), search.offset)
                \subseteq Ahead(Owned(index, search), search.offset)
           /\ Shown(index, search) = <<>> => Shown(index', search') = <<>>
  <1>1. /\ index \in Seq(MemoryFound) /\ Distinct(index) /\ search.offset \in Nat
        /\ index' \in Seq(MemoryFound) /\ Distinct(index') /\ Sub(index', index)
    <2>1. Shape' /\ Sub(index', index)
      BY DeleteIs
    <2> QED BY <2>1 DEF Shape, SearchRecord
  <1>2. /\ Shown(index', search') = Shown(index', search)
        /\ Owned(index', search') = Owned(index', search)
    BY IndexMoves, ShownSame
  <1>3. /\ Shown(index, search) \in Seq(MemoryFound) /\ Shown(index', search) \in Seq(MemoryFound)
        /\ Owned(index, search) \in Seq(MemoryFound) /\ Owned(index', search) \in Seq(MemoryFound)
    BY <1>1, ShownIs, OwnedIs
  <1>4. /\ Sub(Shown(index', search), Shown(index, search))
        /\ Sub(Owned(index', search), Owned(index, search))
    BY <1>1, ShownKeeps
  <1>5. /\ Ahead(Shown(index', search), search.offset)
             \subseteq Ahead(Shown(index, search), search.offset)
        /\ Ahead(Owned(index', search), search.offset)
             \subseteq Ahead(Owned(index, search), search.offset)
    BY <1>1, <1>3, <1>4, SubAhead
  <1>6. Len(Shown(index', search)) <= Len(Shown(index, search))
    BY <1>3, <1>4, SubIn
  <1>7. ASSUME Shown(index, search) = <<>> PROVE Shown(index', search) = <<>>
    <2>1. Len(Shown(index', search)) = 0
      BY <1>3, <1>6, <1>7
    <2> QED BY <1>3, <2>1
  <1> QED BY <1>2, <1>5, <1>7

LEMMA DeleteKeepsBehind ==
    ASSUME Shape, GotIsBehind, NothingTwice, DeleteMemory
    PROVE  GotIsBehind' /\ NothingTwice'
  <1>1. /\ search'.pc = search.pc /\ search'.mode = search.mode /\ search'.offset = search.offset
        /\ search'.got = search.got /\ search'.twice = search.twice /\ search'.soft = search.soft
    BY IndexMoves
  <1>2. search'.came = search.came
    <2>1. ~CreateMemory
      <3>1. created \in 0 .. MaxMemories /\ created' = created
        BY DEF DeleteMemory, Shape
      <3>2. CreateMemory => created' = created + 1
        BY DEF CreateMemory
      <3> QED BY <3>1, <3>2
    <2> QED BY <2>1, IndexMoves
  <1>3. NothingTwice'
    BY <1>1, <1>2 DEF NothingTwice
  <1>4. GotIsBehind'
    <2>1. SUFFICES ASSUME Asking PROVE GotIsBehind'
      BY <1>1 DEF GotIsBehind, Asking
    <2>2. search'.mode = "recency"
            => (search'.offset = 0 /\ search'.got = {}) \/ search'.offset >= Limit
      BY <1>1, <2>1 DEF GotIsBehind
    <2>3. ~search'.came /\ search'.mode # "recency"
            => search'.got \cap Ahead(Shown(index', search'), search'.offset) = {}
      BY <1>1, <1>2, <2>1, DeleteShrinks DEF GotIsBehind
    <2>4. ASSUME ~search'.came, search'.soft,
                 search'.pc = "relax" \/ \E m \in search'.got : ~m.topical
          PROVE  /\ search'.mode # "list" /\ Shown(index', search') = <<>>
                 /\ search'.got \cap Ahead(Owned(index', search'), search'.offset) = {}
      <3>1. /\ search.mode # "list" /\ Shown(index, search) = <<>>
            /\ search.got \cap Ahead(Owned(index, search), search.offset) = {}
        BY <1>1, <1>2, <2>1, <2>4 DEF GotIsBehind
      <3> QED BY <1>1, <3>1, DeleteShrinks
    <2>5. search'.pc = "relax" => search'.soft /\ search'.mode # "recency"
      BY <1>1, <2>1 DEF GotIsBehind
    <2> QED BY <2>2, <2>3, <2>4, <2>5 DEF GotIsBehind
  <1> QED BY <1>3, <1>4

\* A relaxed page was ahead of the caller too, and there is still nothing strict to show.
LEMMA FallbackKeepsBehind ==
    ASSUME Shape, GotIsBehind, NothingTwice, Fallback
    PROVE  GotIsBehind' /\ NothingTwice'
  <1> DEFINE v == Shown(index, search)
             w == Owned(index, search)
  <1>1. PICK a \in RankedPage(Matches(search.scope, FALSE), search.offset)
                   \cup {PageOf(<<>>, 0, AnyOne)} : TakePage(a, FALSE)
    BY DEF Fallback
  <1>2. /\ search.pc = "relax" /\ Asking /\ index' = index
        /\ index \in Seq(MemoryFound) /\ Distinct(index) /\ search.offset \in Nat
        /\ w \in Seq(MemoryFound) /\ Distinct(w)
    BY OwnedIs DEF Fallback, Asking, Shape, SearchRecord
  <1> DEFINE page == {a.page[k] : k \in 1 .. Len(a.page)}
             going == GoesOn(a) /\ a.page # <<>>
  <1>3. /\ Answer(a) /\ a.page \in Seq(MemoryFound)
        /\ a.page # <<>> => IsPage(a.page, w, search.offset)
        /\ going => NextOffset(a) = search.offset + Len(a.page)
    BY RelaxedIs DEF Answer
  <1>4. /\ search'.pc = IF going THEN "query" ELSE "done"
        /\ search'.offset = IF going THEN NextOffset(a) ELSE search.offset
        /\ search'.mode = search.mode /\ search'.scope = search.scope
        /\ search'.soft = search.soft /\ search'.got = search.got \cup page
        /\ search'.came = search.came
    BY <1>1, <1>3, TakenIs
  <1>5. Shown(index', search') = v /\ Owned(index', search') = w
    BY <1>2, <1>4, ShownSame
  <1>6. a.page # <<>>
          => /\ Ahead(w, search.offset + Len(a.page)) \subseteq Ahead(w, search.offset)
             /\ \A k \in 1 .. Len(a.page) :
                  /\ a.page[k] \in Ahead(w, search.offset)
                  /\ a.page[k] \notin Ahead(w, search.offset + Len(a.page))
    <2> HIDE DEF w
    <2> QED BY <1>2, <1>3, PageEnds
  <1>7. search.soft /\ search.mode # "recency" /\ search'.pc # "relax"
    BY <1>2, <1>4 DEF GotIsBehind
  <1>8. CASE search.came
    BY <1>4, <1>7, <1>8 DEF GotIsBehind, NothingTwice, Asking
  <1>9. CASE ~search.came
    <2>1. /\ search.mode # "list" /\ v = <<>>
          /\ search.got \cap Ahead(w, search.offset) = {}
      BY <1>2, <1>7, <1>9 DEF GotIsBehind
    <2>2. NothingTwice'
      <3> HIDE DEF w
      <3>1. \A k \in 1 .. Len(a.page) : a.page[k] \notin search.got
        <4>1. CASE a.page = <<>>
          BY <1>3, <4>1
        <4>2. CASE a.page # <<>>
          BY <1>6, <2>1, <4>2
        <4> QED BY <4>1, <4>2
      <3> QED BY <1>1, <1>2, <1>3, <3>1, PageIsNew
    <2>3. Ahead(v, search'.offset) = {}
      <3>1. Len(v) = 0
        BY <2>1
      <3>2. search'.offset \in Nat
        BY <1>2, <1>3, <1>4 DEF Answer
      <3> HIDE DEF v
      <3> QED BY <3>1, <3>2 DEF Ahead
    <2>4. ASSUME search'.pc = "query"
          PROVE  (search.got \cup page) \cap Ahead(w, search'.offset) = {}
      <3> HIDE DEF w
      <3>1. going /\ search'.offset = search.offset + Len(a.page)
        BY <1>3, <1>4, <2>4
      <3> QED BY <1>6, <2>1, <3>1
    <2> HIDE DEF v, w
    <2>5. GotIsBehind'
      BY <1>4, <1>5, <1>7, <2>1, <2>3, <2>4 DEF GotIsBehind, Asking
    <2> QED BY <2>2, <2>5
  <1> QED BY <1>8, <1>9

\* No memory is shown twice as long as none is created: pages are consecutive pieces of a
\* view that only shrinks, the relaxed pages of one that begins when the other is empty.
THEOREM PagesDoNotRepeat == SearchSpec => []NothingTwice
  <1>1. SearchInit => GotIsBehind /\ NothingTwice
    BY DEF SearchInit, NotSearching, GotIsBehind, NothingTwice, Asking
  <1>2. ASSUME Shape, GotIsBehind /\ NothingTwice, [SearchNext]_searchVars
        PROVE  (GotIsBehind /\ NothingTwice)'
    <2>1. CASE CreateMemory
      BY <1>2, <2>1, CreateKeepsBehind
    <2>2. CASE DeleteMemory
      BY <1>2, <2>2, DeleteKeepsBehind
    <2>3. CASE StartSearch
      <3>1. /\ search'.pc = "query" /\ search'.got = {} /\ search'.offset = 0
            /\ search'.twice = FALSE
        BY <1>2, <2>3, StartIs
      <3> QED BY <3>1 DEF GotIsBehind, NothingTwice
    <2>4. CASE QueryIndex
      BY <1>2, <2>4, QueryKeepsBehind
    <2>5. CASE Fallback
      BY <1>2, <2>5, FallbackKeepsBehind
    <2>6. CASE FailSearch \/ EndSearch
      <3>1. search'.pc = "idle" /\ search'.twice = FALSE
        BY <1>2, <2>6, EndIs DEF NotSearching
      <3> QED BY <3>1 DEF GotIsBehind, NothingTwice, Asking
    <2>7. CASE UNCHANGED searchVars
      BY <1>2, <2>7 DEF searchVars, GotIsBehind, NothingTwice, Asking
    <2> QED BY <1>2, <2>1, <2>2, <2>3, <2>4, <2>5, <2>6, <2>7 DEF SearchNext
  <1> QED BY <1>1, <1>2, ShapeInvariant, PTL DEF SearchSpec

-----------------------------------------------------------------------------
(***************************************************************************)
(* The pages reach everything.                                             *)
(***************************************************************************)
\* A memory that comes leaves all that was ahead of the caller ahead of it.
LEMMA CreateKeepsAhead ==
    ASSUME Shape, SteadyIsAhead, CreateMemory
    PROVE  SteadyIsAhead'
  <1>1. /\ search'.pc = search.pc /\ search'.mode = search.mode /\ search'.offset = search.offset
        /\ search'.front = search.front /\ search'.got = search.got
        /\ search'.steady = search.steady /\ search'.went = search.went
    BY IndexMoves
  <1>2. Shown(index', search') = Shown(index', search)
    BY IndexMoves, ShownSame
  <1>3. /\ index \in Seq(MemoryFound) /\ Distinct(index) /\ search.offset \in Nat
        /\ index' \in Seq(MemoryFound) /\ Distinct(index') /\ Sub(index, index')
    <2>1. Shape' /\ Sub(index, index')
      BY CreateIs
    <2> QED BY <2>1 DEF Shape, SearchRecord
  <1>4. Ahead(Shown(index, search), search.offset)
          \subseteq Ahead(Shown(index', search), search.offset)
    BY <1>3, ShownIs, ShownKeeps, SubAhead
  <1>5. Ahead(Shown(index, search), search.offset)
          \subseteq Ahead(Shown(index', search'), search'.offset)
    BY <1>1, <1>2, <1>4
  <1>6. SUFFICES ASSUME ~search.went PROVE SteadyIsAhead'
    BY <1>1 DEF SteadyIsAhead
  <1>7. ASSUME search'.pc = "query", search'.mode # "recency", NEW id \in search'.steady,
               \A m \in search'.got : m.id # id
        PROVE  \E m \in Ahead(Shown(index', search'), search'.offset) : m.id = id
    <2>1. \E m \in Ahead(Shown(index, search), search.offset) : m.id = id
      BY <1>1, <1>6, <1>7 DEF SteadyIsAhead
    <2> QED BY <1>5, <2>1
  <1>8. /\ search'.pc = "relax" => \A id \in search'.steady : \E m \in search'.got : m.id = id
        /\ search'.pc = "done" /\ <<search'.front, search'.mode>> \in ReliablePaging
             => \A id \in search'.steady : \E m \in search'.got : m.id = id
    BY <1>1, <1>6 DEF SteadyIsAhead
  <1> QED BY <1>7, <1>8 DEF SteadyIsAhead

\* At first everything is ahead.
LEMMA StartIsAhead ==
    ASSUME Shape, StartSearch
    PROVE  SteadyIsAhead'
  <1> DEFINE c == Chosen(index, Fits(search'.scope, search'.soft))
             v == Shown(index, search')
  <1>1. /\ index' = index /\ search'.pc = "query" /\ search'.offset = 0
        /\ search'.steady = IdsOf(c)
        /\ index \in Seq(MemoryFound) /\ Distinct(index)
    BY StartIs, MatchesAre DEF Shape
  <1>2. ASSUME NEW id \in search'.steady
        PROVE  \E m \in Ahead(v, 0) : m.id = id
    <2>1. /\ c \in Seq(MemoryFound) /\ Sub(c, index)
          /\ \A k \in 1 .. Len(c) : c[k] \in Fits(search'.scope, search'.soft)
      BY <1>1, ChosenMembers
    <2>2. PICK k \in 1 .. Len(c) : c[k].id = id
      <3> HIDE DEF c
      <3> QED BY <1>1, <1>2, <2>1 DEF IdsOf
    <2>3. PICK i \in 1 .. Len(index) : c[k] = index[i]
      <3> HIDE DEF c
      <3> QED BY <1>1, <2>1, SubIn
    <2>4. index[i] \in Fits(search'.scope, search'.soft)
      BY <2>1, <2>3
    <2>5. \E j \in 1 .. Len(Shown(index, search')) : Shown(index, search')[j] = index[i]
      BY <1>1, <2>4, ShownIs
    <2>6. PICK j \in 1 .. Len(v) : v[j] = index[i]
      BY <2>5
    <2> HIDE DEF c, v
    <2>7. v[j] \in Ahead(v, 0)
      BY DEF Ahead
    <2> QED BY <2>2, <2>3, <2>6, <2>7
  <1> QED BY <1>1, <1>2 DEF SteadyIsAhead

\* A page moves what it holds from ahead of the caller into its hands; a caller that reaches
\* the end as the code says has nothing ahead of it.
LEMMA QueryKeepsAhead ==
    ASSUME Shape, SteadyIsAhead, QueryIndex
    PROVE  SteadyIsAhead'
  <1> DEFINE v == Shown(index, search)
  <1>1. PICK a \in Page(search.mode, Matches(search.scope, search.soft), search.offset) :
          \/ /\ search' = [search EXCEPT !.pc = "relax", !.none = TRUE]
             /\ search.soft /\ search.mode # "list" /\ search.mode # "recency"
             /\ v = <<>>
          \/ TakePage(a, Matches(search.scope, search.soft) = <<>>)
    BY QueryIs
  <1>2. /\ search.pc = "query" /\ index' = index /\ Answer(a)
        /\ index \in Seq(MemoryFound) /\ Distinct(index)
        /\ search.offset \in Nat /\ v \in Seq(MemoryFound) /\ Distinct(v)
    BY QueryIs, PageAnswers, ShownIs DEF Shape, SearchRecord
  <1>3. ASSUME ~search.went, search.mode # "recency"
        PROVE  \A id \in search.steady :
                 \/ \E m \in search.got : m.id = id
                 \/ \E m \in Ahead(v, search.offset) : m.id = id
    BY <1>2, <1>3 DEF SteadyIsAhead
  <1>4. CASE /\ search' = [search EXCEPT !.pc = "relax", !.none = TRUE]
             /\ search.soft /\ search.mode # "list" /\ search.mode # "recency"
             /\ v = <<>>
    <2>1. /\ search'.pc = "relax" /\ search'.got = search.got
          /\ search'.steady = search.steady /\ search'.went = search.went
      BY <1>4, RelaxMoves
    <2>2. Ahead(v, search.offset) = {}
      BY <1>2, <1>4 DEF Ahead
    <2> HIDE DEF v
    <2> QED BY <1>3, <1>4, <2>1, <2>2 DEF SteadyIsAhead
  <1>5. ASSUME NEW none \in BOOLEAN, TakePage(a, none) PROVE SteadyIsAhead'
    <2> DEFINE page == {a.page[k] : k \in 1 .. Len(a.page)}
               going == GoesOn(a) /\ a.page # <<>>
    <2>1. /\ search'.pc = IF going THEN "query" ELSE "done"
          /\ search'.offset = IF going THEN NextOffset(a) ELSE search.offset
          /\ search'.mode = search.mode /\ search'.scope = search.scope
          /\ search'.soft = search.soft /\ search'.got = search.got \cup page
          /\ search'.steady = search.steady /\ search'.went = search.went
          /\ search'.front = search.front
      BY <1>2, <1>5, TakenIs
    <2>2. Shown(index', search') = v
      BY <1>2, <2>1, ShownSame
    <2>3. SUFFICES ASSUME ~search.went, search.mode # "recency"
                   PROVE  SteadyIsAhead'
      BY <2>1 DEF SteadyIsAhead, ReliablePaging
    <2>4. IsPage(a.page, v, search.offset)
      BY <2>3, PageIs
    <2>5. ASSUME NEW id \in search.steady, \A m \in search'.got : m.id # id
          PROVE  \E m \in Ahead(v, search.offset + Len(a.page)) : m.id = id
      <3>1. PICK m \in Ahead(v, search.offset) : m.id = id
        BY <1>3, <2>1, <2>3, <2>5
      <3>2. m \in Ahead(v, search.offset + Len(a.page)) \/ \E k \in 1 .. Len(a.page) : a.page[k] = m
        <4> HIDE DEF v
        <4> QED BY <1>2, <2>4, <3>1, PageEnds
      <3> QED BY <2>1, <2>5, <3>1, <3>2
    <2>6. /\ going => NextOffset(a) = search.offset + Len(a.page)
          /\ ~going /\ <<search.front, search.mode>> \in ReliablePaging
               => Len(v) <= search.offset + Len(a.page)
      BY <2>3, FollowingIs
    <2>7. ASSUME ~going, <<search.front, search.mode>> \in ReliablePaging
          PROVE  Ahead(v, search.offset + Len(a.page)) = {}
      <3>1. Len(a.page) \in Nat /\ Len(v) \in Nat /\ Len(v) <= search.offset + Len(a.page)
        BY <1>2, <2>6, <2>7 DEF Answer
      <3> HIDE DEF v
      <3> QED BY <1>2, <3>1 DEF Ahead
    <2> HIDE DEF v, page
    <2>8. search'.pc = "query"
            => \A id \in search'.steady :
                 \/ \E m \in search'.got : m.id = id
                 \/ \E m \in Ahead(v, search'.offset) : m.id = id
      <3>1. search'.pc = "query" => search'.offset = search.offset + Len(a.page)
        BY <2>1, <2>6
      <3> QED BY <2>1, <2>5, <3>1
    <2>9. search'.pc = "done" /\ <<search'.front, search'.mode>> \in ReliablePaging
            => \A id \in search'.steady : \E m \in search'.got : m.id = id
      BY <2>1, <2>5, <2>7
    <2>10. search'.pc # "relax"
      BY <2>1
    <2> QED BY <2>2, <2>8, <2>9, <2>10 DEF SteadyIsAhead
  <1> QED BY <1>1, <1>4, <1>5

\* A relaxed search has all strict matches already.
LEMMA FallbackKeepsAhead ==
    ASSUME Shape, SteadyIsAhead, Fallback
    PROVE  SteadyIsAhead'
  <1>1. PICK a \in RankedPage(Matches(search.scope, FALSE), search.offset)
                   \cup {PageOf(<<>>, 0, AnyOne)} : TakePage(a, FALSE)
    BY DEF Fallback
  <1>2. Answer(a)
    BY RelaxedIs
  <1>3. /\ search'.pc # "relax" /\ search.got \subseteq search'.got
        /\ search'.steady = search.steady /\ search'.went = search.went
    BY <1>1, <1>2, TakenIs
  <1>4. ~search.went => \A id \in search.steady : \E m \in search.got : m.id = id
    BY DEF SteadyIsAhead, Fallback
  <1> QED BY <1>3, <1>4 DEF SteadyIsAhead

\* Following the pages to the end, the way each client does, reaches every match that was there
\* when the search began, as long as none was deleted: whatever memories come meanwhile, what
\* was ahead of the caller stays ahead of it.
THEOREM PagesReachEverything == SearchSpec => []PagesReachAll
  <1>1. SearchInit => SteadyIsAhead
    BY DEF SearchInit, NotSearching, SteadyIsAhead
  <1>2. ASSUME Shape, SteadyIsAhead, [SearchNext]_searchVars PROVE SteadyIsAhead'
    <2>1. CASE CreateMemory
      BY <1>2, <2>1, CreateKeepsAhead
    <2>2. CASE DeleteMemory
      <3>1. CASE search.pc = "idle"
        <4>1. search'.pc = "idle"
          BY <1>2, <2>2, <3>1, IndexMoves
        <4> QED BY <4>1 DEF SteadyIsAhead
      <3>2. CASE search.pc # "idle"
        <4>1. search'.went
          BY <1>2, <2>2, <3>2 DEF DeleteMemory, Shape, SearchRecord
        <4> QED BY <4>1 DEF SteadyIsAhead
      <3> QED BY <3>1, <3>2
    <2>3. CASE StartSearch
      BY <1>2, <2>3, StartIsAhead
    <2>4. CASE QueryIndex
      BY <1>2, <2>4, QueryKeepsAhead
    <2>5. CASE Fallback
      BY <1>2, <2>5, FallbackKeepsAhead
    <2>6. CASE FailSearch \/ EndSearch
      <3>1. search'.pc = "idle"
        BY <1>2, <2>6, EndIs DEF NotSearching
      <3> QED BY <3>1 DEF SteadyIsAhead
    <2>7. CASE UNCHANGED searchVars
      BY <1>2, <2>7 DEF searchVars, SteadyIsAhead
    <2> QED BY <1>2, <2>1, <2>2, <2>3, <2>4, <2>5, <2>6, <2>7 DEF SearchNext
  <1>3. SteadyIsAhead => PagesReachAll
    BY DEF SteadyIsAhead, PagesReachAll
  <1> QED BY <1>1, <1>2, <1>3, ShapeInvariant, PTL DEF SearchSpec
=============================================================================
