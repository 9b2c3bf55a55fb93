------------------------------ MODULE Iteration ------------------------------
(***************************************************************************)
(* Lemmas about a step applied again and again: induction over an          *)
(* interval of numbers, stated with a set, and the functions that a        *)
(* recursion over such an interval defines.                                *)
(***************************************************************************)
EXTENDS Integers, WellFoundedInduction, TLAPS

\* A set that has 0 and with a number the next one, up to n, has all of them.
LEMMA UpTo ==
  ASSUME NEW n \in Nat, NEW S, 0 \in S, \A k \in 1..n : k - 1 \in S => k \in S
  PROVE  \A k \in 0..n : k \in S
<1> DEFINE R == OpToRel(<, Nat)
           M == {k \in 0..n : k \notin S}
<1>1. IsWellFoundedOn(R, Nat)
  BY NatLessThanWellFounded
<1>2. R = {p \in Nat \X Nat : p[1] < p[2]}
  BY DEF OpToRel
<1> HIDE DEF R
<1>3. SUFFICES ASSUME M # {} PROVE FALSE
  OBVIOUS
<1>4. M \subseteq Nat
  OBVIOUS
<1>5. PICK m \in M : \A k \in M : <<k, m>> \notin R
  <2> HIDE DEF M
  <2> QED BY ONLY <1>1, <1>3, <1>4, WFMin
<1>6. m \in 1..n /\ m - 1 \in 0..n
  BY <1>5
<1>7. m - 1 \notin S
  BY <1>6
<1>8. m - 1 \in M
  BY <1>6, <1>7
<1>9. <<m - 1, m>> \in R
  BY <1>2, <1>6
<1> QED BY <1>5, <1>8, <1>9

\* f begins with base and goes on with step.
Iterates(f, base, step, n) ==
  f = [k \in 0..n |-> IF k = 0 THEN base ELSE step[<<k, f[k - 1]>>]]

\* There is such a function.
LEMMA IteratesExists ==
  ASSUME NEW n \in Nat, NEW base, NEW step
  PROVE  \E f : Iterates(f, base, step, n)
<1> DEFINE S == {m \in Nat : \E f : Iterates(f, base, step, m)}
<1>1. 0 \in S
  <2> DEFINE f == [k \in 0..0 |-> base]
  <2>1. Iterates(f, base, step, 0)
    BY DEF Iterates
  <2> QED BY <2>1
<1>2. ASSUME NEW m \in 1..n, m - 1 \in S PROVE m \in S
  <2>1. PICK f : Iterates(f, base, step, m - 1)
    BY <1>2
  <2> DEFINE g == [k \in 0..m |-> IF k = m THEN step[<<m, f[m - 1]>>] ELSE f[k]]
  <2>2. m # 0 /\ m \in Nat /\ m - 1 \in 0..m /\ m - 1 # m
    OBVIOUS
  <2>3. \A k \in 0..m : k # m => k \in 0..(m - 1)
    OBVIOUS
  <2>4. \A k \in 0..(m - 1) : f[k] = IF k = 0 THEN base ELSE step[<<k, f[k - 1]>>]
    BY <2>1 DEF Iterates
  <2>5. \A k \in 0..m : k # m => g[k] = f[k]
    OBVIOUS
  <2>6. g[m] = step[<<m, f[m - 1]>>]
    BY <2>2
  <2> HIDE DEF g
  <2>7. ASSUME NEW k \in 0..m
        PROVE  g[k] = IF k = 0 THEN base ELSE step[<<k, g[k - 1]>>]
    <3>1. CASE k = m
      <4>1. g[m - 1] = f[m - 1]
        BY <2>2, <2>5
      <4> QED BY ONLY <2>2, <2>6, <3>1, <4>1
    <3>2. CASE k # m /\ k = 0
      BY ONLY <2>3, <2>4, <2>5, <3>2, k \in 0..m
    <3>3. CASE k # m /\ k # 0
      <4>1. k - 1 \in 0..m /\ k - 1 # m /\ k \in 0..(m - 1)
        BY <3>3
      <4>2. g[k - 1] = f[k - 1] /\ g[k] = f[k]
        BY ONLY <2>5, <3>3, <4>1, k \in 0..m
      <4>3. f[k] = step[<<k, f[k - 1]>>]
        BY ONLY <2>4, <3>3, <4>1
      <4> QED BY ONLY <3>3, <4>2, <4>3
    <3> QED BY <3>1, <3>2, <3>3
  <2>8. g = [k \in 0..m |-> IF k = 0 THEN base ELSE step[<<k, g[k - 1]>>]]
    <3>1. g = [k \in 0..m |-> g[k]]
      BY DEF g
    <3> QED BY ONLY <2>7, <3>1
  <2>9. Iterates(g, base, step, m)
    BY ONLY <2>8 DEF Iterates
  <2> QED BY <2>2, <2>9
<1> HIDE DEF S
<1>3. n \in S
  BY <1>1, <1>2, UpTo
<1> QED BY <1>3 DEF S

\* Every step leads from M into M.
StepsWithin(step, n, M) == \A k \in 1..n : \A x \in M : step[<<k, x>>] \in M

\* Its values stay where the steps lead.
LEMMA IteratesTyped ==
  ASSUME NEW n \in Nat, NEW M, NEW base \in M, NEW step, StepsWithin(step, n, M),
         NEW f, Iterates(f, base, step, n)
  PROVE  /\ f \in [0..n -> M] /\ f[0] = base
         /\ \A k \in 1..n : f[k] = step[<<k, f[k - 1]>>]
<1>1. f = [k \in 0..n |-> IF k = 0 THEN base ELSE step[<<k, f[k - 1]>>]]
  BY DEF Iterates
<1>2. \A k \in 0..n : f[k] = IF k = 0 THEN base ELSE step[<<k, f[k - 1]>>]
  BY ONLY <1>1
<1>3. 0 \in 0..n /\ \A k \in 1..n : k \in 0..n /\ k # 0 /\ k - 1 \in 0..n
  OBVIOUS
<1>4. f[0] = base /\ \A k \in 1..n : f[k] = step[<<k, f[k - 1]>>]
  BY ONLY <1>2, <1>3
<1> DEFINE S == {k \in 0..n : f[k] \in M}
<1>5. 0 \in S
  BY <1>3, <1>4
<1>6. ASSUME NEW k \in 1..n, k - 1 \in S PROVE k \in S
  <2>1. f[k - 1] \in M
    BY <1>6
  <2>2. step[<<k, f[k - 1]>>] \in M
    BY <2>1 DEF StepsWithin
  <2> QED BY <1>3, <1>4, <2>2
<1> HIDE DEF S
<1>7. \A k \in 0..n : k \in S
  BY ONLY <1>5, <1>6, UpTo, n \in Nat
<1>8. \A k \in 0..n : f[k] \in M
  BY <1>7 DEF S
<1>9. f = [k \in 0..n |-> f[k]]
  BY ONLY <1>1
<1>10. f \in [0..n -> M]
  BY ONLY <1>8, <1>9
<1> QED BY <1>4, <1>10

\* What the values of such a function are, if every step leads from T[k - 1] to T[k].
LEMMA IteratesIn ==
  ASSUME NEW n \in Nat, NEW f, NEW T, f[0] \in T[0],
         \A k \in 1..n : f[k - 1] \in T[k - 1] => f[k] \in T[k]
  PROVE  \A k \in 0..n : f[k] \in T[k]
<1> DEFINE S == {k \in 0..n : f[k] \in T[k]}
<1>1. 0 \in S /\ \A k \in 1..n : k - 1 \in S => k \in S
  OBVIOUS
<1> HIDE DEF S
<1>2. \A k \in 0..n : k \in S
  BY <1>1, UpTo
<1> QED BY <1>2 DEF S

=============================================================================
