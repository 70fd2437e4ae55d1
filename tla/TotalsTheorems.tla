--------------------------- MODULE TotalsTheorems ---------------------------
(***************************************************************************)
(* What module Totals' sums satisfy: a total over finitely many keys is a  *)
(* natural number, it is 0 when every value is, adding n to one value adds *)
(* n to the total, and moving the values to other keys adds nothing; and   *)
(* what module Medians' values by rank are among.                          *)
(***************************************************************************)
EXTENDS Medians, FiniteSetTheorems, TLAPS

\* The units of one key are finitely many, one for each unit of its value.
LEMMA UnitsOfKey ==
    ASSUME NEW x, NEW a \in Nat, NEW b \in Nat, a <= b + 1
    PROVE  /\ IsFiniteSet({x} \X (a .. b))
           /\ Cardinality({x} \X (a .. b)) = b - a + 1
<1>1. IsFiniteSet({x}) /\ Cardinality({x}) = 1
  BY FS_Singleton
<1>2. IsFiniteSet(a .. b) /\ Cardinality(a .. b) = IF a > b THEN 0 ELSE b - a + 1
  <2>1. a \in Int /\ b \in Int
    OBVIOUS
  <2>2. QED
    BY <2>1, FS_Interval, Zenon
<1>3. Cardinality(a .. b) = b - a + 1 /\ b - a + 1 \in Nat
  BY <1>2
<1>4. /\ IsFiniteSet({x} \X (a .. b))
      /\ Cardinality({x} \X (a .. b)) = Cardinality({x}) * Cardinality(a .. b)
  BY <1>1, <1>2, FS_Product, Zenon
<1>5. QED
  BY <1>1, <1>3, <1>4

\* A sum over a finite set of keys counts finitely many units.
LEMMA UnitsFinite ==
    ASSUME NEW S, IsFiniteSet(S), NEW f \in [S -> Nat]
    PROVE  IsFiniteSet(Units(f))
<1> DEFINE unitsOf == [x \in S |-> {x} \X (1 .. f[x])]
           Blocks == {{x} \X (1 .. f[x]) : x \in S}
<1>1. unitsOf \in Surjection(S, Blocks)
  <2>1. unitsOf \in [S -> Blocks]
    OBVIOUS
  <2>2. \A B \in Blocks : \E x \in S : unitsOf[x] = B
    OBVIOUS
  <2>3. QED
    BY <2>1, <2>2 DEF Surjection
<1>2. IsFiniteSet(Blocks)
  BY <1>1, FS_Surjection
<1>3. \A B \in Blocks : IsFiniteSet(B)
  <2>1. SUFFICES ASSUME NEW x \in S PROVE IsFiniteSet({x} \X (1 .. f[x]))
    OBVIOUS
  <2>2. 1 \in Nat /\ f[x] \in Nat /\ 1 <= f[x] + 1
    OBVIOUS
  <2>3. QED
    BY <2>2, UnitsOfKey
<1>4. IsFiniteSet(UNION Blocks)
  BY <1>2, <1>3, FS_UNION
<1>5. QED
  BY <1>4 DEF Units

\* The total is a natural number.
LEMMA TotalType ==
    ASSUME NEW S, IsFiniteSet(S), NEW f \in [S -> Nat]
    PROVE  Total(f) \in Nat
BY UnitsFinite, FS_CardinalityType DEF Total

\* Nothing sums to nothing.
LEMMA TotalZero ==
    ASSUME NEW S
    PROVE  Total([x \in S |-> 0]) = 0
<1>1. \A x \in S : {x} \X (1 .. 0) = {}
  OBVIOUS
<1>2. Units([x \in S |-> 0]) = {}
  BY <1>1 DEF Units
<1>3. QED
  BY <1>2, FS_EmptySet DEF Total

\* Adding n to the value of one key adds n to the total.
LEMMA TotalAdd ==
    ASSUME NEW S, IsFiniteSet(S), NEW f \in [S -> Nat], NEW k \in S, NEW n \in Nat
    PROVE  Total([f EXCEPT ![k] = @ + n]) = Total(f) + n
<1> DEFINE g == [f EXCEPT ![k] = @ + n]
           new == {k} \X (f[k] + 1 .. f[k] + n)
<1>0. f[k] \in Nat /\ g \in [S -> Nat] /\ g[k] = f[k] + n
  OBVIOUS
<1>1. Units(g) = Units(f) \cup new
  <2>1. \A x \in S \ {k} : g[x] = f[x]
    OBVIOUS
  <2>2. 1 .. g[k] = (1 .. f[k]) \cup (f[k] + 1 .. f[k] + n)
    BY <1>0
  <2>3. {k} \X (1 .. g[k]) = ({k} \X (1 .. f[k])) \cup new
    BY <2>2
  <2>4. DOMAIN f = S /\ DOMAIN g = S
    OBVIOUS
  <2>5. Units(g) = (UNION {{x} \X (1 .. g[x]) : x \in S \ {k}}) \cup ({k} \X (1 .. g[k]))
    BY <2>4 DEF Units
  <2>6. Units(f) = (UNION {{x} \X (1 .. f[x]) : x \in S \ {k}}) \cup ({k} \X (1 .. f[k]))
    BY <2>4 DEF Units
  <2>7. {{x} \X (1 .. g[x]) : x \in S \ {k}} = {{x} \X (1 .. f[x]) : x \in S \ {k}}
    BY <2>1
  <2>8. QED
    BY <2>3, <2>5, <2>6, <2>7
<1>2. Units(f) \cap new = {}
  <2>1. SUFFICES ASSUME NEW u \in Units(f), u \in new PROVE FALSE
    OBVIOUS
  <2>2. PICK x \in S : u \in {x} \X (1 .. f[x])
    BY <2>1 DEF Units
  <2>3. u[1] = x /\ u[1] = k /\ u[2] \in 1 .. f[x] /\ u[2] \in f[k] + 1 .. f[k] + n
    BY <2>1, <2>2
  <2>4. QED
    BY <2>3, <1>0
<1>3. IsFiniteSet(Units(f)) /\ Cardinality(Units(f)) \in Nat
  BY UnitsFinite, FS_CardinalityType
<1>4. IsFiniteSet(new) /\ Cardinality(new) = n
  <2> DEFINE lo == f[k] + 1
             hi == f[k] + n
  <2>1. lo \in Nat /\ hi \in Nat /\ lo <= hi + 1 /\ hi - lo + 1 = n
    BY <1>0
  <2>2. new = {k} \X (lo .. hi)
    OBVIOUS
  <2> HIDE DEF lo, hi, new
  <2>3. /\ IsFiniteSet({k} \X (lo .. hi))
        /\ Cardinality({k} \X (lo .. hi)) = hi - lo + 1
    BY <2>1, UnitsOfKey
  <2>4. QED
    BY <2>1, <2>2, <2>3
<1>5. Cardinality(Units(f) \cup new)
        = Cardinality(Units(f)) + Cardinality(new) - Cardinality(Units(f) \cap new)
  BY <1>3, <1>4, FS_Union
<1>6. Cardinality(Units(f) \cap new) = 0
  BY <1>2, FS_EmptySet
<1>7. Cardinality(Units(g)) = Cardinality(Units(f)) + n - 0
  BY <1>1, <1>4, <1>5, <1>6, Zenon
<1>8. Cardinality(Units(g)) = Cardinality(Units(f)) + n
  BY <1>7, <1>3
<1>9. QED
  BY <1>8 DEF Total

\* Replacing one value moves the total by the difference.
LEMMA TotalReplace ==
    ASSUME NEW S, IsFiniteSet(S), NEW f \in [S -> Nat], NEW k \in S, NEW v \in Nat
    PROVE  Total([f EXCEPT ![k] = v]) = Total(f) - f[k] + v
<1> DEFINE base == [f EXCEPT ![k] = 0]
           g == [f EXCEPT ![k] = v]
<1>1. base \in [S -> Nat] /\ f[k] \in Nat
  OBVIOUS
<1>2. f = [base EXCEPT ![k] = @ + f[k]] /\ g = [base EXCEPT ![k] = @ + v]
  <2>1. base[k] = 0 /\ 0 + f[k] = f[k] /\ 0 + v = v
    OBVIOUS
  <2>2. f = [base EXCEPT ![k] = f[k]] /\ g = [base EXCEPT ![k] = v]
    OBVIOUS
  <2>3. QED
    BY <2>1, <2>2
<1>3. Total(base) \in Nat
  BY <1>1, TotalType
<1> HIDE DEF base, g
<1>4. Total([base EXCEPT ![k] = @ + f[k]]) = Total(base) + f[k]
  BY <1>1, TotalAdd, ZenonT(40)
<1>5. Total([base EXCEPT ![k] = @ + v]) = Total(base) + v
  BY <1>1, TotalAdd, ZenonT(40)
<1>6. Total(f) = Total(base) + f[k] /\ Total(g) = Total(base) + v
  BY <1>2, <1>4, <1>5
<1>7. QED
  BY <1>1, <1>3, <1>6 DEF g

\* Values that all move one key up sum to at most what they did; the last one
\* is lost.
LEMMA TotalShift ==
    ASSUME NEW n \in Nat, NEW f \in [0 .. n -> Nat]
    PROVE  Total([a \in 0 .. n |-> IF a = 0 THEN 0 ELSE f[a - 1]]) <= Total(f)
<1> DEFINE g == [a \in 0 .. n |-> IF a = 0 THEN 0 ELSE f[a - 1]]
           moved == [u \in Units(g) |-> <<u[1] - 1, u[2]>>]
<1>1. IsFiniteSet(Units(f))
  <2>1. 0 \in Int /\ n \in Int
    OBVIOUS
  <2>2. IsFiniteSet(0 .. n)
    BY <2>1, FS_Interval, Zenon
  <2>3. QED
    BY <2>2, UnitsFinite
<1>2. \A u \in Units(g) : /\ u = <<u[1], u[2]>>
                          /\ u[1] \in 1 .. n /\ u[2] \in 1 .. f[u[1] - 1]
  <2>1. SUFFICES ASSUME NEW u \in Units(g)
                 PROVE  u = <<u[1], u[2]>> /\ u[1] \in 1 .. n /\ u[2] \in 1 .. f[u[1] - 1]
    OBVIOUS
  <2>2. PICK a \in 0 .. n : u \in {a} \X (1 .. g[a])
    BY DEF Units
  <2>3. u = <<u[1], u[2]>> /\ u[1] = a /\ u[2] \in 1 .. g[a]
    BY <2>2
  <2>4. a # 0
    BY <2>3
  <2>5. QED
    BY <2>3, <2>4
<1>3. \A u \in Units(g) : <<u[1] - 1, u[2]>> \in Units(f)
  <2>1. SUFFICES ASSUME NEW u \in Units(g)
                 PROVE  <<u[1] - 1, u[2]>> \in Units(f)
    BY Zenon
  <2>2. u[1] - 1 \in 0 .. n /\ u[2] \in 1 .. f[u[1] - 1]
    BY <1>2
  <2>3. <<u[1] - 1, u[2]>> \in {u[1] - 1} \X (1 .. f[u[1] - 1])
    BY <2>2
  <2>4. DOMAIN f = 0 .. n
    OBVIOUS
  <2>5. QED
    BY <2>2, <2>3, <2>4 DEF Units
<1>4. moved \in [Units(g) -> Units(f)]
  BY <1>3
<1>5. \A u, v \in Units(g) : moved[u] = moved[v] => u = v
  <2>1. SUFFICES ASSUME NEW u \in Units(g), NEW v \in Units(g), moved[u] = moved[v]
                 PROVE  u = v
    OBVIOUS
  <2>2. u[1] - 1 = v[1] - 1 /\ u[2] = v[2]
    BY <2>1
  <2>3. u[1] = v[1]
    BY <1>2, <2>2
  <2>4. QED
    BY <1>2, <2>2, <2>3
<1>6. moved \in Injection(Units(g), Units(f))
  BY <1>4, <1>5 DEF Injection, IsInjective
<1>7. Cardinality(Units(g)) <= Cardinality(Units(f))
  BY <1>1, <1>6, FS_Injection
<1>8. QED
  BY <1>7 DEF Total

-----------------------------------------------------------------------------
(* Sums over some of the keys.                                             *)

\* The sum over the keys of S is the total of the function restricted to S.
LEMMA TotalOverRestricts ==
    ASSUME NEW f, NEW S
    PROVE  TotalOver(f, S) = Total([x \in S |-> f[x]])
<1> DEFINE g == [x \in S |-> f[x]]
<1>1. DOMAIN g = S /\ \A x \in S : g[x] = f[x]
  OBVIOUS
<1>2. UNION {{x} \X (1 .. f[x]) : x \in S} = Units(g)
  <2> HIDE DEF g
  <2>1. {{x} \X (1 .. f[x]) : x \in S} = {{x} \X (1 .. g[x]) : x \in S}
    BY <1>1
  <2>2. QED
    BY <1>1, <2>1 DEF Units
<1>3. QED
  BY <1>2 DEF TotalOver, Total

\* So a total is the sum over all keys.
LEMMA TotalIsOverAll ==
    ASSUME NEW S, NEW f \in [S -> Nat]
    PROVE  Total(f) = TotalOver(f, S)
<1>1. f = [x \in S |-> f[x]]
  OBVIOUS
<1>2. QED
  BY <1>1, TotalOverRestricts, Zenon

\* It is a natural number, and 0 when the values are.
LEMMA TotalOverType ==
    ASSUME NEW D, NEW f \in [D -> Nat], NEW S \in SUBSET D, IsFiniteSet(S)
    PROVE  TotalOver(f, S) \in Nat
<1>1. [x \in S |-> f[x]] \in [S -> Nat]
  OBVIOUS
<1>2. Total([x \in S |-> f[x]]) \in Nat
  BY <1>1, TotalType, Zenon
<1>3. QED
  BY <1>2, TotalOverRestricts, Zenon

\* The sum only depends on the values at its keys.
LEMMA TotalOverSame ==
    ASSUME NEW f, NEW g, NEW S, \A x \in S : f[x] = g[x]
    PROVE  TotalOver(f, S) = TotalOver(g, S)
<1>1. {{x} \X (1 .. f[x]) : x \in S} = {{x} \X (1 .. g[x]) : x \in S}
  OBVIOUS
<1>2. QED
  BY <1>1 DEF TotalOver

LEMMA TotalOverZero ==
    ASSUME NEW f, NEW S, \A x \in S : f[x] = 0
    PROVE  TotalOver(f, S) = 0
<1>1. [x \in S |-> f[x]] = [x \in S |-> 0]
  OBVIOUS
<1>2. QED
  BY <1>1, TotalOverRestricts, TotalZero, Zenon

\* Replacing the value of one of its keys moves the sum by the difference.
LEMMA TotalOverReplace ==
    ASSUME NEW D, NEW f \in [D -> Nat], NEW k \in D, NEW v \in Nat,
           NEW S \in SUBSET D, IsFiniteSet(S), k \in S
    PROVE  TotalOver([f EXCEPT ![k] = v], S) = TotalOver(f, S) - f[k] + v
<1> DEFINE g == [x \in S |-> f[x]]
           h == [f EXCEPT ![k] = v]
<1>1. g \in [S -> Nat] /\ g[k] = f[k]
  OBVIOUS
<1>2. [x \in S |-> h[x]] = [g EXCEPT ![k] = v]
  OBVIOUS
<1>3. TotalOver(f, S) = Total(g) /\ TotalOver(h, S) = Total([x \in S |-> h[x]])
  BY TotalOverRestricts, Zenon
<1> HIDE DEF g, h
<1>4. Total([g EXCEPT ![k] = v]) = Total(g) - g[k] + v
  BY <1>1, TotalReplace, Zenon
<1>5. TotalOver(h, S) = TotalOver(f, S) - f[k] + v
  BY <1>1, <1>2, <1>3, <1>4, Zenon
<1>6. QED
  BY <1>5 DEF h

\* The units of a sum are those of its parts.
LEMMA TotalOverUnion ==
    ASSUME NEW D, NEW f \in [D -> Nat], NEW S \in SUBSET D, NEW T \in SUBSET D,
           IsFiniteSet(S), IsFiniteSet(T), S \cap T = {}
    PROVE  TotalOver(f, S \cup T) = TotalOver(f, S) + TotalOver(f, T)
<1> DEFINE Of(X) == UNION {{x} \X (1 .. f[x]) : x \in X}
<1>1. Of(S \cup T) = Of(S) \cup Of(T)
  OBVIOUS
<1>2. Of(S) \cap Of(T) = {}
  <2>1. \A X : \A u \in Of(X) : u[1] \in X
    OBVIOUS
  <2>2. QED
    BY <2>1
<1>3. ASSUME NEW X \in SUBSET D, IsFiniteSet(X)
      PROVE  IsFiniteSet(Of(X)) /\ Cardinality(Of(X)) \in Nat
  <2> DEFINE g == [x \in X |-> f[x]]
  <2>1. g \in [X -> Nat] /\ DOMAIN g = X
    OBVIOUS
  <2>2. Of(X) = Units(g)
    <3>1. \A x \in X : g[x] = f[x]
      OBVIOUS
    <3> HIDE DEF g
    <3>2. {{x} \X (1 .. f[x]) : x \in X} = {{x} \X (1 .. g[x]) : x \in X}
      BY <3>1
    <3>3. QED
      BY <2>1, <3>2 DEF Units
  <2>3. IsFiniteSet(Units(g))
    BY <1>3, <2>1, UnitsFinite, Zenon
  <2>4. QED
    BY <2>2, <2>3, FS_CardinalityType, Zenon
<1>4. /\ IsFiniteSet(Of(S)) /\ Cardinality(Of(S)) \in Nat
      /\ IsFiniteSet(Of(T)) /\ Cardinality(Of(T)) \in Nat
  BY <1>3
<1> HIDE DEF Of
<1>5. Cardinality(Of(S) \cup Of(T)) = Cardinality(Of(S)) + Cardinality(Of(T)) - Cardinality(Of(S) \cap Of(T))
  BY <1>4, FS_Union, Zenon
<1>6. Cardinality(Of(S) \cap Of(T)) = 0
  BY <1>2, FS_EmptySet
<1>7. Cardinality(Of(S \cup T)) = Cardinality(Of(S)) + Cardinality(Of(T))
  <2>1. Cardinality(Of(S \cup T)) = Cardinality(Of(S)) + Cardinality(Of(T)) - 0
    BY <1>1, <1>5, <1>6, Zenon
  <2>2. \A a, b \in Nat : a + b - 0 = a + b
    OBVIOUS
  <2>3. QED
    BY <1>4, <2>1, <2>2, Zenon
<1>8. QED
  BY <1>7 DEF TotalOver, Of

\* So the sum over more keys is not smaller.
LEMMA TotalOverSubset ==
    ASSUME NEW D, NEW f \in [D -> Nat], NEW S \in SUBSET D, NEW T \in SUBSET S,
           IsFiniteSet(S)
    PROVE  TotalOver(f, T) <= TotalOver(f, S)
<1> DEFINE U == S \ T
<1>1. /\ T \in SUBSET D /\ U \in SUBSET D /\ T \cap U = {} /\ S = T \cup U
      /\ T \subseteq S /\ U \subseteq S
  OBVIOUS
<1> HIDE DEF U
<1>2. IsFiniteSet(T) /\ IsFiniteSet(U)
  BY <1>1, FS_Subset, Zenon
<1>3. TotalOver(f, S) = TotalOver(f, T) + TotalOver(f, U)
  <2>1. TotalOver(f, T \cup U) = TotalOver(f, T) + TotalOver(f, U)
    BY <1>1, <1>2, TotalOverUnion, SMT
  <2>2. QED
    BY <1>1, <2>1, Zenon
<1>4. TotalOver(f, T) \in Nat /\ TotalOver(f, U) \in Nat
  BY <1>1, <1>2, TotalOverType, Zenon
<1>5. QED
  BY <1>3, <1>4

\* The sum over one key is its value.
LEMMA TotalOverSingle ==
    ASSUME NEW D, NEW f \in [D -> Nat], NEW k \in D
    PROVE  TotalOver(f, {k}) = f[k]
<1>1. f[k] \in Nat
  OBVIOUS
<1>2. UNION {{x} \X (1 .. f[x]) : x \in {k}} = {k} \X (1 .. f[k])
  OBVIOUS
<1>3. PICK n \in Nat : n = f[k]
  BY <1>1
<1>4. Cardinality({k} \X (1 .. n)) = n
  <2>1. 1 \in Nat /\ 1 <= n + 1 /\ n - 1 + 1 = n
    OBVIOUS
  <2>2. Cardinality({k} \X (1 .. n)) = n - 1 + 1
    BY <2>1, UnitsOfKey, Zenon
  <2>3. QED
    BY <2>1, <2>2
<1>5. QED
  BY <1>2, <1>3, <1>4 DEF TotalOver

\* Smaller values have a smaller sum.
LEMMA TotalOverSmaller ==
    ASSUME NEW D, NEW f \in [D -> Nat], NEW g \in [D -> Nat], NEW S \in SUBSET D,
           IsFiniteSet(S), \A x \in S : g[x] <= f[x]
    PROVE  TotalOver(g, S) <= TotalOver(f, S)
<1> DEFINE Of(h) == UNION {{x} \X (1 .. h[x]) : x \in S}
           restricted == [x \in S |-> f[x]]
<1>1. Of(g) \subseteq Of(f)
  <2>1. SUFFICES ASSUME NEW x \in S PROVE {x} \X (1 .. g[x]) \subseteq {x} \X (1 .. f[x])
    OBVIOUS
  <2>2. f[x] \in Nat /\ g[x] \in Nat /\ g[x] <= f[x]
    OBVIOUS
  <2>3. QED
    BY <2>2
<1>2. IsFiniteSet(Of(f))
  <2>1. restricted \in [S -> Nat]
    OBVIOUS
  <2>2. Units(restricted) = Of(f)
    BY DEF Units
  <2>3. IsFiniteSet(Units(restricted))
    BY <2>1, UnitsFinite, Zenon
  <2>4. QED
    BY <2>2, <2>3, Zenon
<1>3. Cardinality(Of(g)) <= Cardinality(Of(f))
  <2> HIDE DEF Of
  <2>1. QED
    BY <1>1, <1>2, FS_Subset
<1>4. QED
  BY <1>3 DEF TotalOver

\* Setting the values at the keys of S to 0 takes their sum away.
LEMMA TotalRemoved ==
    ASSUME NEW D, IsFiniteSet(D), NEW f \in [D -> Nat], NEW S \in SUBSET D
    PROVE  Total([x \in D |-> IF x \in S THEN 0 ELSE f[x]]) = Total(f) - TotalOver(f, S)
<1> DEFINE g == [x \in D |-> IF x \in S THEN 0 ELSE f[x]]
           T == D \ S
<1>1. /\ g \in [D -> Nat] /\ D \in SUBSET D /\ T \in SUBSET D /\ S \cap T = {} /\ S \cup T = D
      /\ S \subseteq D /\ T \subseteq D
  OBVIOUS
<1>2. IsFiniteSet(S) /\ IsFiniteSet(T)
  BY <1>1, FS_Subset
<1>3. /\ TotalOver(f, S) \in Nat /\ TotalOver(f, T) \in Nat
      /\ TotalOver(g, S) \in Nat /\ TotalOver(g, T) \in Nat
  BY <1>1, <1>2, TotalOverType
<1>4. Total(f) = TotalOver(f, D) /\ Total(g) = TotalOver(g, D)
  BY <1>1, TotalIsOverAll
<1>5. \A h \in [D -> Nat] : TotalOver(h, S \cup T) = TotalOver(h, S) + TotalOver(h, T)
  BY <1>1, <1>2, TotalOverUnion
<1>6. TotalOver(g, S) = 0
  <2>1. \A x \in S : g[x] = 0
    OBVIOUS
  <2> HIDE DEF g
  <2>2. QED
    BY <2>1, TotalOverZero, Zenon
<1>7. TotalOver(g, T) = TotalOver(f, T)
  <2>1. \A x \in T : g[x] = f[x]
    OBVIOUS
  <2> HIDE DEF g, T
  <2>2. QED
    BY <2>1, TotalOverSame, Zenon
<1>8. QED
  <2> HIDE DEF g, T
  <2>1. Total(f) = TotalOver(f, S) + TotalOver(f, T)
    BY <1>1, <1>4, <1>5
  <2>2. Total(g) = TotalOver(g, S) + TotalOver(g, T)
    BY <1>1, <1>4, <1>5
  <2>3. Total(g) = Total(f) - TotalOver(f, S)
    BY <1>3, <1>6, <1>7, <2>1, <2>2
  <2>4. QED
    BY <2>3 DEF g


-----------------------------------------------------------------------------
(* Totals that count the members of a set.                                 *)

\* A natural number that a finite set reaches counts some of its members.
LEMMA MembersCounted ==
    ASSUME NEW T, IsFiniteSet(T), NEW n \in Nat, n <= Cardinality(T)
    PROVE  Injection(1 .. n, T) # {}
<1>1. PICK h : h \in Bijection(1 .. Cardinality(T), T)
  BY FS_CardinalityType DEF ExistsBijection
<1>2. Cardinality(T) \in Nat
  BY FS_CardinalityType
<1>3. h \in [1 .. Cardinality(T) -> T]
  BY <1>1 DEF Bijection, Injection
<1>4. \A i, j \in 1 .. Cardinality(T) : h[i] = h[j] => i = j
  BY <1>1, <1>3 DEF Bijection, Injection, IsInjective
<1>5. 1 .. n \subseteq 1 .. Cardinality(T)
  BY <1>2
<1>6. [i \in 1 .. n |-> h[i]] \in Injection(1 .. n, T)
  BY <1>3, <1>4, <1>5 DEF Injection, IsInjective
<1>7. QED
  BY <1>6

\* When every value of f is reached by a set of its own, and these sets are
\* disjoint parts of S, the total of f is at most the size of S.
LEMMA TotalWithin ==
    ASSUME NEW S, IsFiniteSet(S), NEW D, NEW f \in [D -> Nat], NEW part \in [D -> SUBSET S],
           \A x \in D : f[x] <= Cardinality(part[x]),
           \A x, y \in D : x # y => part[x] \cap part[y] = {}
    PROVE  Total(f) <= Cardinality(S)
<1> DEFINE counted == [x \in D |-> CHOOSE h : h \in Injection(1 .. f[x], part[x])]
           member == [u \in Units(f) |-> counted[u[1]][u[2]]]
<1>1. \A x \in D : counted[x] \in Injection(1 .. f[x], part[x])
  <2>1. SUFFICES ASSUME NEW x \in D
                 PROVE  counted[x] \in Injection(1 .. f[x], part[x])
    OBVIOUS
  <2>2. IsFiniteSet(part[x]) /\ f[x] \in Nat /\ f[x] <= Cardinality(part[x])
    BY FS_Subset
  <2>3. \E h : h \in Injection(1 .. f[x], part[x])
    BY <2>2, MembersCounted
  <2>4. counted[x] = CHOOSE h : h \in Injection(1 .. f[x], part[x])
    OBVIOUS
  <2>5. QED
    BY <2>3, <2>4, Zenon
<1>2. \A x \in D : /\ counted[x] \in [1 .. f[x] -> part[x]]
                   /\ \A i, j \in 1 .. f[x] : counted[x][i] = counted[x][j] => i = j
  <2> HIDE DEF counted
  <2>1. SUFFICES ASSUME NEW x \in D
                 PROVE  /\ counted[x] \in [1 .. f[x] -> part[x]]
                        /\ \A i, j \in 1 .. f[x] : counted[x][i] = counted[x][j] => i = j
    OBVIOUS
  <2>2. counted[x] \in Injection(1 .. f[x], part[x])
    BY <1>1
  <2>3. counted[x] \in [1 .. f[x] -> part[x]] /\ IsInjective(counted[x])
    BY <2>2 DEF Injection
  <2>4. QED
    BY <2>3 DEF IsInjective
<1>3. \A u \in Units(f) : u = <<u[1], u[2]>> /\ u[1] \in D /\ u[2] \in 1 .. f[u[1]]
  BY DEF Units
<1> HIDE DEF counted
<1>4. \A u \in Units(f) : member[u] \in part[u[1]]
  BY <1>2, <1>3
<1>5. member \in [Units(f) -> S]
  BY <1>3, <1>4
<1>6. \A u, v \in Units(f) : member[u] = member[v] => u = v
  <2>1. SUFFICES ASSUME NEW u \in Units(f), NEW v \in Units(f), member[u] = member[v]
                 PROVE  u = v
    OBVIOUS
  <2>2. u[1] = v[1]
    <3>1. member[u] \in part[u[1]] \cap part[v[1]]
      BY <1>4, <2>1, ZenonT(40)
    <3>2. QED
      BY <1>3, <3>1, ZenonT(40)
  <2>3. counted[u[1]][u[2]] = counted[u[1]][v[2]]
    BY <2>1, <2>2
  <2>4. u[2] = v[2]
    BY <1>2, <1>3, <2>2, <2>3
  <2>5. QED
    BY <1>3, <2>2, <2>4
<1>7. member \in Injection(Units(f), S)
  <2> HIDE DEF member
  <2>1. DOMAIN member = Units(f)
    BY <1>5
  <2>2. IsInjective(member)
    BY <1>6, <2>1, Zenon DEF IsInjective
  <2>3. QED
    BY <1>5, <2>2 DEF Injection
<1>8. Cardinality(Units(f)) <= Cardinality(S)
  BY <1>7, FS_Injection
<1>9. QED
  BY <1>8 DEF Total

-----------------------------------------------------------------------------
(* Moving every value to the next key.                                     *)

\* With a key more at the end nothing is lost.
LEMMA TotalMoved ==
    ASSUME NEW n \in Nat, NEW f \in [0 .. n -> Nat]
    PROVE  Total([a \in 0 .. n + 1 |-> IF a = 0 THEN 0 ELSE f[a - 1]]) = Total(f)
<1> DEFINE g == [a \in 0 .. n + 1 |-> IF a = 0 THEN 0 ELSE f[a - 1]]
           moved == [u \in Units(f) |-> <<u[1] + 1, u[2]>>]
<1>1. IsFiniteSet(Units(f))
  <2>1. 0 \in Int /\ n \in Int
    OBVIOUS
  <2>2. IsFiniteSet(0 .. n)
    BY <2>1, FS_Interval, Zenon
  <2>3. QED
    BY <2>2, UnitsFinite
<1>2. \A u : u \in Units(f) <=> /\ u = <<u[1], u[2]>>
                                /\ u[1] \in 0 .. n /\ u[2] \in 1 .. f[u[1]]
  BY DEF Units
<1>3. \A u : u \in Units(g) <=> /\ u = <<u[1], u[2]>>
                                /\ u[1] \in 1 .. n + 1 /\ u[2] \in 1 .. f[u[1] - 1]
  <2>1. DOMAIN g = 0 .. n + 1 /\ g[0] = 0 /\ \A a \in 1 .. n + 1 : g[a] = f[a - 1]
    OBVIOUS
  <2> HIDE DEF g
  <2>2. \A u : u \in Units(g) <=> \E a \in 0 .. n + 1 : u \in {a} \X (1 .. g[a])
    BY <2>1 DEF Units
  <2>3. \A u, a : u \in {a} \X (1 .. g[a]) <=> u = <<u[1], u[2]>> /\ u[1] = a /\ u[2] \in 1 .. g[a]
    OBVIOUS
  <2>4. \A u : u \in Units(g) <=> u = <<u[1], u[2]>> /\ u[1] \in 0 .. n + 1 /\ u[2] \in 1 .. g[u[1]]
    <3> SUFFICES ASSUME NEW u
                 PROVE  u \in Units(g) <=> u = <<u[1], u[2]>> /\ u[1] \in 0 .. n + 1 /\ u[2] \in 1 .. g[u[1]]
      OBVIOUS
    <3>1. u \in Units(g) <=>
            \E a \in 0 .. n + 1 : u = <<u[1], u[2]>> /\ u[1] = a /\ u[2] \in 1 .. g[a]
      BY <2>2, <2>3, Zenon
    <3>2. QED
      BY <3>1
  <2>5. \A i : i \notin 1 .. g[0]
    BY <2>1
  <2>6. \A a \in 0 .. n + 1 : a = 0 \/ a \in 1 .. n + 1
    OBVIOUS
  <2>7. 1 .. n + 1 \subseteq 0 .. n + 1
    OBVIOUS
  <2>8. QED
    BY <2>1, <2>4, <2>5, <2>6, <2>7, Zenon
<1>4. moved \in [Units(f) -> Units(g)]
  <2>1. SUFFICES ASSUME NEW u \in Units(f)
                 PROVE  <<u[1] + 1, u[2]>> \in Units(g)
    OBVIOUS
  <2>2. u[1] + 1 \in 1 .. n + 1 /\ (u[1] + 1) - 1 = u[1] /\ u[2] \in 1 .. f[u[1]]
    BY <1>2
  <2> HIDE DEF g
  <2>3. QED
    BY <1>3, <2>2
<1>5. \A u, v \in Units(f) : moved[u] = moved[v] => u = v
  <2>1. SUFFICES ASSUME NEW u \in Units(f), NEW v \in Units(f), moved[u] = moved[v]
                 PROVE  u = v
    OBVIOUS
  <2>2. u[1] + 1 = v[1] + 1 /\ u[2] = v[2]
    BY <2>1
  <2>3. u[1] = v[1]
    BY <1>2, <2>2
  <2>4. QED
    BY <1>2, <2>2, <2>3
<1>6. \A v \in Units(g) : \E u \in Units(f) : moved[u] = v
  <2>1. SUFFICES ASSUME NEW v \in Units(g)
                 PROVE  \E u \in Units(f) : moved[u] = v
    OBVIOUS
  <2>2. v = <<v[1], v[2]>> /\ v[1] \in 1 .. n + 1 /\ v[2] \in 1 .. f[v[1] - 1]
    BY <1>3
  <2>3. v[1] - 1 \in 0 .. n /\ (v[1] - 1) + 1 = v[1]
    BY <2>2
  <2>4. <<v[1] - 1, v[2]>> \in Units(f)
    BY <1>2, <2>2, <2>3
  <2>5. moved[<<v[1] - 1, v[2]>>] = v
    BY <2>2, <2>3, <2>4
  <2>6. QED
    BY <2>4, <2>5
<1>7. moved \in Bijection(Units(f), Units(g))
  <2> HIDE DEF moved, g
  <2>1. moved \in Injection(Units(f), Units(g))
    BY <1>4, <1>5 DEF Injection, IsInjective
  <2>2. moved \in Surjection(Units(f), Units(g))
    BY <1>4, <1>6 DEF Surjection
  <2>3. QED
    BY <2>1, <2>2 DEF Bijection
<1>8. Cardinality(Units(g)) = Cardinality(Units(f))
  <2> HIDE DEF moved, g
  <2>1. ExistsBijection(Units(f), Units(g))
    BY <1>7 DEF ExistsBijection
  <2>2. QED
    BY <1>1, <2>1, FS_Bijection
<1>9. QED
  BY <1>8 DEF Total

-----------------------------------------------------------------------------
(* Sums of functions.                                                      *)

\* What is in the units of a function.
LEMMA UnitsMembers ==
    ASSUME NEW S, NEW f \in [S -> Nat]
    PROVE  \A u : u \in Units(f) <=> u = <<u[1], u[2]>> /\ u[1] \in S /\ u[2] \in 1 .. f[u[1]]
BY DEF Units

\* The total of a sum is the sum of the totals.
LEMMA TotalPlus ==
    ASSUME NEW S, IsFiniteSet(S), NEW f \in [S -> Nat], NEW g \in [S -> Nat]
    PROVE  Total([x \in S |-> f[x] + g[x]]) = Total(f) + Total(g)
<1> DEFINE h == [x \in S |-> f[x] + g[x]]
           moved == [u \in Units(g) |-> <<u[1], f[u[1]] + u[2]>>]
           more == Units(h) \ Units(f)
<1>0. h \in [S -> Nat] /\ \A x \in S : h[x] = f[x] + g[x]
  OBVIOUS
<1>1. IsFiniteSet(Units(f)) /\ IsFiniteSet(Units(g)) /\ IsFiniteSet(Units(h))
  BY <1>0, UnitsFinite
<1>2. /\ \A u : u \in Units(f) <=> u = <<u[1], u[2]>> /\ u[1] \in S /\ u[2] \in 1 .. f[u[1]]
      /\ \A u : u \in Units(g) <=> u = <<u[1], u[2]>> /\ u[1] \in S /\ u[2] \in 1 .. g[u[1]]
      /\ \A u : u \in Units(h) <=> u = <<u[1], u[2]>> /\ u[1] \in S /\ u[2] \in 1 .. h[u[1]]
  <2> HIDE DEF h
  <2>1. QED
    BY <1>0, UnitsMembers
<1> HIDE DEF h
<1>3. Units(f) \subseteq Units(h)
  <2>1. SUFFICES ASSUME NEW u \in Units(f) PROVE u \in Units(h)
    OBVIOUS
  <2>2. u = <<u[1], u[2]>> /\ u[1] \in S /\ u[2] \in 1 .. f[u[1]]
    BY <1>2
  <2>3. u[2] \in 1 .. h[u[1]]
    BY <1>0, <2>2
  <2>4. QED
    BY <1>2, <2>2, <2>3
<1>4. \A u : u \in more <=> /\ u = <<u[1], u[2]>> /\ u[1] \in S
                            /\ u[2] \in f[u[1]] + 1 .. f[u[1]] + g[u[1]]
  <2>1. SUFFICES ASSUME NEW u
                 PROVE  u \in more <=> /\ u = <<u[1], u[2]>> /\ u[1] \in S
                                       /\ u[2] \in f[u[1]] + 1 .. f[u[1]] + g[u[1]]
    OBVIOUS
  <2>2. u[1] \in S => (u[2] \in 1 .. h[u[1]] /\ u[2] \notin 1 .. f[u[1]]
                        <=> u[2] \in f[u[1]] + 1 .. f[u[1]] + g[u[1]])
    BY <1>0
  <2>3. QED
    BY <1>2, <2>2
<1>5. moved \in [Units(g) -> more]
  <2>1. SUFFICES ASSUME NEW u \in Units(g) PROVE <<u[1], f[u[1]] + u[2]>> \in more
    OBVIOUS
  <2>2. u[1] \in S /\ u[2] \in 1 .. g[u[1]] /\ f[u[1]] \in Nat /\ g[u[1]] \in Nat
    BY <1>2
  <2>3. f[u[1]] + u[2] \in f[u[1]] + 1 .. f[u[1]] + g[u[1]]
    BY <2>2
  <2> HIDE DEF more
  <2>4. QED
    BY <1>4, <2>2, <2>3
<1>6. \A u, v \in Units(g) : moved[u] = moved[v] => u = v
  <2>1. SUFFICES ASSUME NEW u \in Units(g), NEW v \in Units(g), moved[u] = moved[v]
                 PROVE  u = v
    OBVIOUS
  <2>2. u[1] = v[1] /\ f[u[1]] + u[2] = f[v[1]] + v[2]
    BY <2>1
  <2>3. u[2] = v[2]
    BY <1>2, <2>2
  <2>4. QED
    BY <1>2, <2>2, <2>3
<1>7. \A v \in more : \E u \in Units(g) : moved[u] = v
  <2>1. SUFFICES ASSUME NEW v \in more PROVE \E u \in Units(g) : moved[u] = v
    OBVIOUS
  <2>2. /\ v = <<v[1], v[2]>> /\ v[1] \in S
        /\ v[2] \in f[v[1]] + 1 .. f[v[1]] + g[v[1]]
    BY <1>4
  <2>3. v[2] - f[v[1]] \in 1 .. g[v[1]] /\ f[v[1]] + (v[2] - f[v[1]]) = v[2]
    BY <2>2
  <2>4. <<v[1], v[2] - f[v[1]]>> \in Units(g)
    BY <1>2, <2>2, <2>3
  <2>5. moved[<<v[1], v[2] - f[v[1]]>>] = v
    BY <2>2, <2>3, <2>4
  <2>6. QED
    BY <2>4, <2>5
<1>8. Cardinality(more) = Cardinality(Units(g))
  <2> HIDE DEF moved, more
  <2>1. moved \in Injection(Units(g), more)
    BY <1>5, <1>6 DEF Injection, IsInjective
  <2>2. moved \in Surjection(Units(g), more)
    BY <1>5, <1>7 DEF Surjection
  <2>3. ExistsBijection(Units(g), more)
    BY <2>1, <2>2 DEF Bijection, ExistsBijection
  <2>4. QED
    BY <1>1, <2>3, FS_Bijection
<1>9. Cardinality(Units(h)) = Cardinality(Units(f)) + Cardinality(more)
  <2>1. Units(h) = Units(f) \cup more /\ Units(f) \cap more = {}
    BY <1>3
  <2>2. IsFiniteSet(more)
    BY <1>1, FS_Subset
  <2> HIDE DEF more
  <2>3. Cardinality(Units(h)) = Cardinality(Units(f)) + Cardinality(more) - Cardinality({})
    BY <1>1, <2>1, <2>2, FS_Union
  <2>4. Cardinality({}) = 0
    BY FS_EmptySet
  <2>5. Cardinality(Units(f)) \in Nat /\ Cardinality(more) \in Nat
    BY <1>1, <2>2, FS_CardinalityType
  <2>6. QED
    BY <2>3, <2>4, <2>5
<1>10. QED
  BY <1>8, <1>9 DEF Total, h

\* A hundred times the values make a hundred times the total.
LEMMA TotalHundred ==
    ASSUME NEW S, IsFiniteSet(S), NEW f \in [S -> Nat]
    PROVE  Total([x \in S |-> 100 * f[x]]) = 100 * Total(f)
<1> DEFINE Times(n) == [x \in S |-> n * f[x]]
<1>1. \A n \in Nat : Times(n) \in [S -> Nat]
  OBVIOUS
<1>2. \A n \in Nat : Total(Times(n)) \in Nat
  <2> HIDE DEF Times
  <2>1. QED
    BY <1>1, TotalType
<1>3. ASSUME NEW m \in Nat, NEW n \in Nat
      PROVE  Total(Times(m + n)) = Total(Times(m)) + Total(Times(n))
  <2>1. Times(m + n) = [x \in S |-> Times(m)[x] + Times(n)[x]]
    <3>1. \A x \in S : (m + n) * f[x] = m * f[x] + n * f[x]
      OBVIOUS
    <3>2. QED
      BY <3>1
  <2>2. Times(m) \in [S -> Nat] /\ Times(n) \in [S -> Nat]
    BY <1>1
  <2> HIDE DEF Times
  <2>3. Total([x \in S |-> Times(m)[x] + Times(n)[x]]) = Total(Times(m)) + Total(Times(n))
    BY <2>2, TotalPlus
  <2>4. QED
    BY <2>1, <2>3, Zenon
<1>4. Times(1) = f
  OBVIOUS
<1> HIDE DEF Times
<1>5. /\ Total(Times(2)) = 2 * Total(f) /\ Total(Times(4)) = 4 * Total(f)
      /\ Total(Times(5)) = 5 * Total(f) /\ Total(Times(10)) = 10 * Total(f)
      /\ Total(Times(20)) = 20 * Total(f) /\ Total(Times(25)) = 25 * Total(f)
      /\ Total(Times(50)) = 50 * Total(f) /\ Total(Times(100)) = 100 * Total(f)
  <2>1. /\ Total(Times(1 + 1)) = Total(Times(1)) + Total(Times(1))
        /\ Total(Times(2 + 2)) = Total(Times(2)) + Total(Times(2))
        /\ Total(Times(4 + 1)) = Total(Times(4)) + Total(Times(1))
        /\ Total(Times(5 + 5)) = Total(Times(5)) + Total(Times(5))
        /\ Total(Times(10 + 10)) = Total(Times(10)) + Total(Times(10))
        /\ Total(Times(20 + 5)) = Total(Times(20)) + Total(Times(5))
        /\ Total(Times(25 + 25)) = Total(Times(25)) + Total(Times(25))
        /\ Total(Times(50 + 50)) = Total(Times(50)) + Total(Times(50))
    BY <1>3
  <2>2. /\ 1 + 1 = 2 /\ 2 + 2 = 4 /\ 4 + 1 = 5 /\ 5 + 5 = 10 /\ 10 + 10 = 20
        /\ 20 + 5 = 25 /\ 25 + 25 = 50 /\ 50 + 50 = 100
    OBVIOUS
  <2>3. Total(f) \in Nat
    BY TotalType
  <2>4. QED
    BY <1>4, <2>1, <2>2, <2>3
<1>6. QED
  BY <1>5 DEF Times

\* Counting hundreds and the rest apart gives the total.
LEMMA SumIsTotal ==
    ASSUME NEW S, IsFiniteSet(S), NEW f \in [S -> Nat]
    PROVE  SumOf(f) = Total(f)
<1> DEFINE hundreds == [x \in S |-> f[x] \div 100]
           rest == [x \in S |-> f[x] % 100]
           whole == [x \in S |-> 100 * hundreds[x]]
<1>1. \A n \in Nat : n \div 100 \in Nat /\ n % 100 \in Nat /\ n = 100 * (n \div 100) + (n % 100)
  <2>1. SUFFICES ASSUME NEW n \in Nat
                 PROVE  n \div 100 \in Nat /\ n % 100 \in Nat /\ n = 100 * (n \div 100) + (n % 100)
    OBVIOUS
  <2>2. n \div 100 \in Int
    OBVIOUS
  <2>3. n % 100 \in 0 .. 99
    OBVIOUS
  <2>4. n = 100 * (n \div 100) + (n % 100)
    OBVIOUS
  <2>5. n \div 100 \in Nat
    BY <2>2, <2>3, <2>4
  <2>6. QED
    BY <2>3, <2>4, <2>5
<1>2. hundreds \in [S -> Nat] /\ rest \in [S -> Nat] /\ whole \in [S -> Nat]
  BY <1>1
<1>3. f = [x \in S |-> whole[x] + rest[x]]
  <2>1. \A x \in S : f[x] = whole[x] + rest[x]
    BY <1>1
  <2>2. QED
    BY <2>1
<1>4. SumOf(f) = 100 * Total(hundreds) + Total(rest)
  BY DEF SumOf
<1>5. Total(whole) = 100 * Total(hundreds)
  <2> HIDE DEF hundreds
  <2>1. QED
    BY <1>2, TotalHundred
<1> HIDE DEF whole, rest, hundreds
<1>6. Total([x \in S |-> whole[x] + rest[x]]) = Total(whole) + Total(rest)
  BY <1>2, TotalPlus
<1>7. QED
  BY <1>3, <1>4, <1>5, <1>6, Zenon

\* Values of b at most make a total of b for each key at most.
LEMMA TotalAtMost ==
    ASSUME NEW S, IsFiniteSet(S), NEW b \in Nat, NEW f \in [S -> 0 .. b]
    PROVE  Total(f) <= b * Cardinality(S) /\ Cardinality(S) \in Nat
<1>1. f \in [S -> Nat]
  OBVIOUS
<1>2. Units(f) \subseteq S \X (1 .. b)
  <2>1. SUFFICES ASSUME NEW u \in Units(f) PROVE u \in S \X (1 .. b)
    OBVIOUS
  <2>2. u = <<u[1], u[2]>> /\ u[1] \in S /\ u[2] \in 1 .. f[u[1]]
    BY <1>1, UnitsMembers
  <2>3. u[2] \in 1 .. b
    BY <2>2
  <2>4. QED
    BY <2>2, <2>3
<1>3. IsFiniteSet(1 .. b) /\ Cardinality(1 .. b) = b
  <2>1. 1 \in Int /\ b \in Int
    OBVIOUS
  <2>2. IsFiniteSet(1 .. b) /\ Cardinality(1 .. b) = IF 1 > b THEN 0 ELSE b - 1 + 1
    BY <2>1, FS_Interval, Zenon
  <2>3. QED
    BY <2>2
<1>4. Cardinality(S) \in Nat
  BY FS_CardinalityType
<1>5. IsFiniteSet(S \X (1 .. b)) /\ Cardinality(S \X (1 .. b)) = Cardinality(S) * b
  BY <1>3, FS_Product
<1>6. Cardinality(Units(f)) <= Cardinality(S) * b
  <2> DEFINE pairs == S \X (1 .. b)
  <2>1. IsFiniteSet(pairs) /\ Units(f) \in SUBSET pairs /\ Cardinality(pairs) = Cardinality(S) * b
    BY <1>2, <1>5
  <2> HIDE DEF pairs
  <2>2. Cardinality(Units(f)) <= Cardinality(pairs)
    BY <2>1, FS_Subset
  <2>3. QED
    BY <2>1, <2>2
<1>7. QED
  BY <1>4, <1>6 DEF Total

-----------------------------------------------------------------------------
(* Values by their rank.                                                   *)

\* A set of natural numbers that is not empty has a least element.
LEMMA LeastExists ==
    ASSUME NEW S \in SUBSET Nat, S # {}
    PROVE  \E i \in S : \A j \in S : i <= j
<1>1. PICK i \in S : \A j \in S : ~ (<<j, i>> \in OpToRel(<, Nat))
  BY NatLessThanWellFounded, WFMin, Zenon
<1>2. \A j \in S : ~ (j < i)
  BY <1>1 DEF OpToRel
<1>3. QED
  BY <1>2

\* Some key has a least count.
LEMMA LeastAt ==
    ASSUME NEW S, S # {}, NEW rank \in [S -> Nat]
    PROVE  \E x \in S : \A y \in S : rank[x] <= rank[y]
<1> DEFINE counts == {rank[x] : x \in S}
<1>1. counts \in SUBSET Nat /\ counts # {}
  OBVIOUS
<1>2. PICK n \in counts : \A m \in counts : n <= m
  <2> HIDE DEF counts
  <2>1. QED
    BY <1>1, LeastExists
<1>3. QED
  BY <1>2

\* How many keys have a smaller value, and how many one that is not larger.
Smaller(f, v) == Cardinality({x \in DOMAIN f : f[x] < v})
UpTo(f, v) == Cardinality({x \in DOMAIN f : f[x] <= v})

\* A set without one of its members has fewer.
LEMMA FewerMembers ==
    ASSUME NEW S, IsFiniteSet(S), NEW T \in SUBSET S, NEW x \in S \ T
    PROVE  Cardinality(T) < Cardinality(S)
<1>1. Cardinality(T) <= Cardinality(S) /\ Cardinality(T) # Cardinality(S) /\ IsFiniteSet(T)
  BY FS_Subset
<1>2. Cardinality(T) \in Nat /\ Cardinality(S) \in Nat
  BY <1>1, FS_CardinalityType
<1>3. QED
  BY <1>1, <1>2

\* Among finitely many values one is the greatest.
LEMMA GreatestExists ==
    ASSUME NEW D, IsFiniteSet(D), D # {}, NEW f \in [D -> Int]
    PROVE  \E x \in D : \A y \in D : f[y] <= f[x]
<1> DEFINE Above(x) == {y \in D : f[y] > f[x]}
           rank == [x \in D |-> Cardinality(Above(x))]
<1>1. \A x \in D : Above(x) \in SUBSET D /\ IsFiniteSet(Above(x)) /\ Cardinality(Above(x)) \in Nat
  <2>1. SUFFICES ASSUME NEW x \in D
                 PROVE  IsFiniteSet(Above(x)) /\ Cardinality(Above(x)) \in Nat
    OBVIOUS
  <2>2. Above(x) \in SUBSET D
    OBVIOUS
  <2> HIDE DEF Above
  <2>3. QED
    BY <2>2, FS_Subset, FS_CardinalityType
<1>2. \A x \in D : rank[x] = Cardinality(Above(x)) /\ rank[x] \in Nat
  BY <1>1
<1>3. rank \in [D -> Nat]
  BY <1>1
<1>4. PICK x \in D : \A y \in D : rank[x] <= rank[y]
  <2> HIDE DEF rank
  <2>1. QED
    BY <1>3, LeastAt
<1>5. SUFFICES ASSUME NEW y \in D, f[y] > f[x] PROVE FALSE
  BY <1>4
<1>6. Above(y) \in SUBSET Above(x) /\ y \in Above(x) \ Above(y)
  <2>1. \A z \in D : f[z] \in Int
    OBVIOUS
  <2>2. \A z \in D : f[z] > f[y] => f[z] > f[x]
    BY <1>5, <2>1
  <2>3. ~(f[y] > f[y])
    BY <2>1
  <2>4. QED
    BY <1>5, <2>2, <2>3
<1>7. Cardinality(Above(y)) < Cardinality(Above(x))
  <2> HIDE DEF Above
  <2>1. QED
    BY <1>1, <1>6, FewerMembers
<1>8. rank[x] <= rank[y]
  BY <1>4
<1>9. QED
  BY <1>2, <1>7, <1>8

\* What sorting puts at a rank is one of the values.
LEMMA NthAmong ==
    ASSUME NEW D, IsFiniteSet(D), NEW f \in [D -> Int], NEW k \in Nat, k < Cardinality(D)
    PROVE  Nth(f, k) \in Range(f)
<1> DEFINE Below(x) == {y \in D : f[y] <= f[x]}
           Under(x) == {y \in D : f[y] < f[x]}
           reached == {x \in D : k < Cardinality(Below(x))}
           rank == [x \in reached |-> Cardinality(Below(x))]
<1>1. \A x \in D : /\ Below(x) \in SUBSET D /\ Under(x) \in SUBSET D
                   /\ Cardinality(Below(x)) \in Nat /\ Cardinality(Under(x)) \in Nat
                   /\ IsFiniteSet(Under(x))
  <2>1. SUFFICES ASSUME NEW x \in D
                 PROVE  /\ Below(x) \in SUBSET D /\ Under(x) \in SUBSET D
                        /\ Cardinality(Below(x)) \in Nat /\ Cardinality(Under(x)) \in Nat
                        /\ IsFiniteSet(Under(x))
    OBVIOUS
  <2>2. Below(x) \in SUBSET D /\ Under(x) \in SUBSET D
    OBVIOUS
  <2> HIDE DEF Below, Under
  <2>3. QED
    BY <2>2, FS_Subset, FS_CardinalityType
<1>2. D # {}
  BY FS_EmptySet
<1>3. PICK top \in D : \A y \in D : f[y] <= f[top]
  BY <1>2, GreatestExists
<1>4. top \in reached
  <2>1. Below(top) = D
    BY <1>3
  <2>2. QED
    BY <2>1
<1>5. rank \in [reached -> Nat] /\ reached # {} /\ reached \subseteq D
  BY <1>1, <1>4
<1>6. PICK x \in reached : \A y \in reached : rank[x] <= rank[y]
  <2> HIDE DEF rank, reached
  <2>1. QED
    BY <1>5, LeastAt
<1>7. x \in D /\ k < Cardinality(Below(x))
  OBVIOUS
<1>8. Cardinality(Under(x)) <= k
  <2>1. SUFFICES ASSUME k < Cardinality(Under(x)) PROVE FALSE
    BY <1>1, <1>7
  <2>2. Under(x) # {} /\ f \in [Under(x) \cup D -> Int]
    <3>1. Under(x) # {}
      <4> HIDE DEF Under
      <4>1. QED
        BY <2>1, FS_EmptySet
    <3>2. Under(x) \cup D = D
      OBVIOUS
    <3>3. QED
      BY <3>1, <3>2
  <2>3. PICK next \in Under(x) : \A y \in Under(x) : f[y] <= f[next]
    <3> DEFINE low == [y \in Under(x) |-> f[y]]
    <3>1. low \in [Under(x) -> Int]
      OBVIOUS
    <3>2. \A y \in Under(x) : low[y] = f[y]
      OBVIOUS
    <3>3. IsFiniteSet(Under(x))
      BY <1>1, <1>7
    <3> HIDE DEF low, Under
    <3>4. \E next \in Under(x) : \A y \in Under(x) : low[y] <= low[next]
      BY <2>2, <3>1, <3>3, GreatestExists
    <3>5. QED
      BY <3>2, <3>4
  <2>4. next \in D /\ f[next] < f[x] /\ f[next] \in Int /\ f[x] \in Int
    BY <1>7
  <2>5. Below(next) = Under(x)
    <3>1. \A y \in D : f[y] \in Int
      OBVIOUS
    <3>2. \A y \in D : f[y] <= f[next] <=> f[y] < f[x]
      BY <2>3, <2>4, <3>1
    <3>3. QED
      BY <3>2
  <2>6. next \in reached /\ rank[next] = Cardinality(Under(x)) /\ rank[x] = Cardinality(Below(x))
    BY <2>1, <2>4, <2>5
  <2>7. rank[x] <= rank[next]
    BY <1>6, <2>6
  <2>8. Under(x) \in SUBSET Below(x) /\ x \in Below(x) \ Under(x)
    <3>1. \A y \in D : f[y] < f[x] => f[y] <= f[x]
      BY <2>4
    <3>2. QED
      BY <2>4, <1>7, <3>1
  <2>9. IsFiniteSet(Below(x))
    <3>1. Below(x) \in SUBSET D
      OBVIOUS
    <3> HIDE DEF Below
    <3>2. QED
      BY <3>1, FS_Subset
  <2>10. Cardinality(Under(x)) < Cardinality(Below(x))
    <3> HIDE DEF Under, Below
    <3>1. QED
      BY <2>8, <2>9, FewerMembers
  <2>11. QED
    BY <1>1, <1>7, <2>6, <2>7, <2>10
<1>9. DOMAIN f = D /\ f[x] \in Range(f)
  BY <1>7 DEF Range
<1>10. /\ Cardinality({y \in DOMAIN f : f[y] < f[x]}) <= k
       /\ Cardinality({y \in DOMAIN f : f[y] <= f[x]}) > k
  BY <1>1, <1>7, <1>8, <1>9
<1>11. \E v \in Range(f) : /\ Cardinality({y \in DOMAIN f : f[y] < v}) <= k
                           /\ Cardinality({y \in DOMAIN f : f[y] <= v}) > k
  BY <1>9, <1>10
<1>12. QED
  BY <1>11 DEF Nth

\* The median of integers is one.
LEMMA MedianType ==
    ASSUME NEW D, IsFiniteSet(D), D # {}, NEW f \in [D -> Int]
    PROVE  Median(f) \in Int
<1>1. PICK n \in Nat : n = Cardinality(D)
  BY FS_CardinalityType
<1>2. n # 0
  BY <1>1, FS_EmptySet
<1>3. Range(f) \subseteq Int /\ DOMAIN f = D
  BY DEF Range
<1>4. ASSUME NEW k \in Nat, k < n PROVE Nth(f, k) \in Int
  BY <1>1, <1>3, <1>4, NthAmong
<1>5. PICK half \in Nat : half = n \div 2 /\ half < n /\ (n % 2 # 1 => half >= 1)
  <2>1. n \div 2 \in Nat /\ n \div 2 < n
    BY <1>2
  <2>2. n % 2 # 1 => n \div 2 >= 1
    BY <1>2
  <2>3. QED
    BY <2>1, <2>2
<1>6. CASE n % 2 = 1
  BY <1>1, <1>3, <1>4, <1>5, <1>6 DEF Median
<1>7. CASE n % 2 # 1
  <2>1. PICK lower \in Nat : lower = half - 1 /\ lower < n
    BY <1>5, <1>7
  <2>2. PICK a \in Int, b \in Int : a = Nth(f, lower) /\ b = Nth(f, half)
    BY <1>4, <1>5, <2>1
  <2>3. Median(f) = (a + b) \div 2
    BY <1>1, <1>3, <1>5, <1>7, <2>1, <2>2 DEF Median
  <2>4. QED
    BY <2>3
<1>8. QED
  BY <1>6, <1>7
=============================================================================
