-------------------------- MODULE AirPlayPlayProofs --------------------------
(***************************************************************************)
(* Proofs about AirPlayPlay and the HAP HTTP client it speaks through, for *)
(* any number of requests that time out or are never answered, and any     *)
(* messages of one part or two: that a request which returns an answer     *)
(* returns its own, that every frame opens, that nobody waits for what has *)
(* come, and that the receiver is asked nothing before what it needs.      *)
(***************************************************************************)
EXTENDS AirPlayPlay, FiniteSetTheorems, SequenceTheorems, TLAPS

-----------------------------------------------------------------------------
(* How many come before: sets of places in a text. *)

(* Counting up to its elements numbers a finite set of naturals. *)
LEMMA Numbering ==
  ASSUME NEW S \in SUBSET Nat, IsFiniteSet(S)
  PROVE  /\ \A e \in S : Cardinality({d \in S : d <= e}) \in 1 .. Cardinality(S)
         /\ \A e, f \in S : Cardinality({d \in S : d <= e})
                              = Cardinality({d \in S : d <= f}) => e = f
         /\ \A k \in 1 .. Cardinality(S) :
              \E e \in S : Cardinality({d \in S : d <= e}) = k
<1> DEFINE Below(e) == {d \in S : d <= e}
           c == Cardinality(S)
           rank == [e \in S |-> Cardinality(Below(e))]
<1>1. c \in Nat /\ IsFiniteSet(1 .. c) /\ Cardinality(1 .. c) = c
  BY FS_CardinalityType, FS_Interval
<1>2. ASSUME NEW e \in S
      PROVE  Below(e) \in SUBSET S /\ IsFiniteSet(Below(e))
             /\ Cardinality(Below(e)) \in 1 .. c
  <2>1. Below(e) \in SUBSET S /\ e \in Below(e)
    OBVIOUS
  <2>2. IsFiniteSet(Below(e)) /\ Cardinality(Below(e)) <= c
    BY <2>1, FS_Subset
  <2>3. Cardinality(Below(e)) \in Nat /\ Cardinality(Below(e)) # 0
    BY <2>1, <2>2, FS_CardinalityType, FS_EmptySet
  <2> QED BY <1>1, <2>1, <2>2, <2>3
<1>3. ASSUME NEW e \in S, NEW f \in S, e < f
      PROVE  Cardinality(Below(e)) # Cardinality(Below(f))
  <2>1. Below(e) \in SUBSET Below(f) /\ f \in Below(f) /\ f \notin Below(e)
    <3>1. e \in Nat /\ f \in Nat /\ \A d \in S : d \in Nat /\ (d <= e => d <= f)
      BY <1>3
    <3>2. ~(f <= e) /\ f <= f
      BY <1>3, <3>1
    <3>3. \A d \in Below(e) : d \in Below(f)
      BY <3>1
    <3> QED BY <3>2, <3>3
  <2>2. IsFiniteSet(Below(f))
    BY <1>2
  <2> QED BY <2>1, <2>2, FS_Subset
<1>4. \A e, f \in S : Cardinality(Below(e)) = Cardinality(Below(f)) => e = f
  <2> SUFFICES ASSUME NEW e \in S, NEW f \in S, e # f
               PROVE  Cardinality(Below(e)) # Cardinality(Below(f))
    OBVIOUS
  <2>1. e < f \/ f < e
    OBVIOUS
  <2> QED BY <1>3, <2>1
<1>5. rank \in Injection(S, 1 .. c)
  <2>1. rank \in [S -> 1 .. c]
    BY <1>2
  <2> QED BY <1>4, <2>1 DEF Injection, IsInjective
<1>6. rank \in Surjection(S, 1 .. c)
  BY <1>1, <1>5, FS_Injection
<1>7. \A k \in 1 .. c : \E e \in S : Cardinality(Below(e)) = k
  BY <1>6 DEF Surjection
<1> QED BY <1>2, <1>4, <1>7

Moved(B, m) == {m + b : b \in B}

(* A set and another that is moved past it count together. *)
LEMMA Counting ==
  ASSUME NEW A \in SUBSET Nat, NEW B \in SUBSET Nat, NEW m \in Nat,
         IsFiniteSet(A), IsFiniteSet(B),
         \A a \in A : a <= m, \A b \in B : b > 0
  PROVE  Cardinality(A \cup Moved(B, m)) = Cardinality(A) + Cardinality(B)
<1> DEFINE C == Moved(B, m)
           move == [b \in B |-> m + b]
<1>1. move \in Bijection(B, C)
  <2>1. move \in [B -> C]
    BY DEF Moved
  <2>2. \A a, b \in B : move[a] = move[b] => a = b
    OBVIOUS
  <2>3. \A c \in C : \E b \in B : move[b] = c
    BY DEF Moved
  <2>4. move \in Injection(B, C)
    BY <2>1, <2>2 DEF Injection, IsInjective
  <2>5. move \in Surjection(B, C)
    BY <2>1, <2>3 DEF Surjection
  <2> QED BY <2>4, <2>5 DEF Bijection
<1>2. IsFiniteSet(C) /\ Cardinality(C) = Cardinality(B)
  BY <1>1, FS_Bijection DEF ExistsBijection
<1>3. A \cap C = {}
  BY DEF Moved
<1>4. Cardinality(A \cup C) = Cardinality(A) + Cardinality(C) - Cardinality(A \cap C)
  BY <1>2, FS_Union
<1>5. Cardinality(A) \in Nat /\ Cardinality(B) \in Nat
  BY FS_CardinalityType
<1> QED BY <1>2, <1>3, <1>4, <1>5, FS_EmptySet

-----------------------------------------------------------------------------
(* Texts: where messages end, and which they are. *)

LEMMA UnitTypes ==
  \A u \in Units : /\ u.a \in Answers /\ u.part \in 1 .. 2 /\ u.nonce \in Nat
                   /\ u.a.of \in 1 .. 2 /\ u.a.n \in Nat /\ u.a.status \in Statuses
BY DEF Units, Answers, Parts

LEMMA UnitsAssociate ==
  ASSUME NEW P \in Seq(Units), NEW Q \in Seq(Units), NEW R \in Seq(Units)
  PROVE  (P \o Q) \o R = P \o (Q \o R)
BY ConcatAssociative

LEMMA EndsFinite ==
  ASSUME NEW T \in Seq(Units)
  PROVE  /\ Ends(T) \in SUBSET (1 .. Len(T))
         /\ Ends(T) \in SUBSET Nat
         /\ IsFiniteSet(Ends(T))
         /\ Cardinality(Ends(T)) \in Nat
<1>1. Len(T) \in Nat /\ DOMAIN T = 1 .. Len(T)
  OBVIOUS
<1>2. Ends(T) \in SUBSET (1 .. Len(T))
  BY <1>1 DEF Ends
<1>3. IsFiniteSet(1 .. Len(T))
  BY <1>1, FS_Interval
<1>4. IsFiniteSet(Ends(T))
  BY <1>2, <1>3, FS_Subset
<1>5. Ends(T) \in SUBSET Nat
  BY <1>1, <1>2
<1> QED BY <1>2, <1>4, <1>5, FS_CardinalityType

(* The messages of a text are those that end in it, in their order. *)
LEMMA WholeNumbered ==
  ASSUME NEW T \in Seq(Units)
  PROVE  /\ Whole(T) \in Seq(Answers)
         /\ Len(Whole(T)) = Cardinality(Ends(T))
         /\ \A e \in Ends(T) : /\ Rank(T, e) \in 1 .. Len(Whole(T))
                               /\ Whole(T)[Rank(T, e)] = T[e].a
         /\ \A k \in 1 .. Len(Whole(T)) : \E e \in Ends(T) : Rank(T, e) = k
<1> DEFINE E == Ends(T)
           c == Cardinality(E)
           at(k) == CHOOSE e \in E : Rank(T, e) = k
<1>1. E \in SUBSET Nat /\ IsFiniteSet(E) /\ c \in Nat /\ E \in SUBSET (1 .. Len(T))
  BY EndsFinite
<1>2. /\ \A e \in E : Rank(T, e) \in 1 .. c
      /\ \A e, f \in E : Rank(T, e) = Rank(T, f) => e = f
      /\ \A k \in 1 .. c : \E e \in E : Rank(T, e) = k
  BY <1>1, Numbering DEF Rank
<1>3. Whole(T) = [k \in 1 .. c |-> T[at(k)].a]
  BY DEF Whole
<1> HIDE DEF E, c
<1>4. \A k \in 1 .. c : at(k) \in E /\ Rank(T, at(k)) = k
  BY <1>2
<1>5. \A e \in E : at(Rank(T, e)) = e
  BY <1>2, <1>4
<1>6. \A e \in E : T[e].a \in Answers
  BY <1>1, UnitTypes DEF E
<1> HIDE DEF at
<1>7. \A k \in 1 .. c : T[at(k)].a \in Answers
  BY <1>4, <1>6
<1>8. Whole(T) \in [1 .. c -> Answers]
  BY <1>3, <1>7
<1>9. Whole(T) \in Seq(Answers) /\ Len(Whole(T)) = c
  BY <1>1, <1>8
<1>10. ASSUME NEW e \in E
       PROVE  Rank(T, e) \in 1 .. c /\ Whole(T)[Rank(T, e)] = T[e].a
  BY <1>2, <1>3, <1>5
<1> QED BY <1>2, <1>9, <1>10 DEF E, c

(* Every part of a text follows the one before it: the parts of a message  *)
(* come together, and a message begins where another ends. *)
Tiled(T) ==
  \A i \in 1 .. Len(T) :
    /\ T[i].part <= T[i].a.of
    /\ T[i].part = 1 => i = 1 \/ T[i - 1].part = T[i - 1].a.of
    /\ T[i].part # 1 => i > 1 /\ T[i - 1].a = T[i].a /\ T[i].part = T[i - 1].part + 1

Complete(T) == T = <<>> \/ T[Len(T)].part = T[Len(T)].a.of

LEMMA EndsOfTiled ==
  ASSUME NEW T \in Seq(Units), Tiled(T)
  PROVE  Ends(T) = {i \in 1 .. Len(T) : T[i].part = T[i].a.of}
<1>1. Len(T) \in Nat /\ DOMAIN T = 1 .. Len(T) /\ \A i \in 1 .. Len(T) : T[i] \in Units
  OBVIOUS
<1>2. ASSUME NEW i \in 1 .. Len(T), T[i].part = T[i].a.of
      PROVE  /\ T[i].part <= i
             /\ \A p \in 1 .. T[i].part : /\ T[i - T[i].part + p].a = T[i].a
                                          /\ T[i - T[i].part + p].part = p
  <2>1. T[i].part \in 1 .. 2
    BY <1>1, UnitTypes
  <2>2. CASE T[i].part = 1
    <3>1. \A p \in 1 .. T[i].part : p = 1 /\ i - T[i].part + p = i
      BY <2>2
    <3> QED BY <2>2, <3>1
  <2>3. CASE T[i].part = 2
    <3>1. i > 1 /\ T[i - 1].a = T[i].a /\ T[i].part = T[i - 1].part + 1
      BY <2>3 DEF Tiled
    <3>2. i - 1 \in 1 .. Len(T)
      BY <1>1, <3>1
    <3>3. T[i - 1].part \in 1 .. 2
      BY <1>1, <3>2, UnitTypes
    <3>4. T[i - 1].part = 1
      BY <2>3, <3>1, <3>3
    <3>5. ASSUME NEW p \in 1 .. T[i].part
          PROVE  T[i - T[i].part + p].a = T[i].a /\ T[i - T[i].part + p].part = p
      <4>1. p = 1 \/ p = 2
        BY <2>3
      <4>2. CASE p = 1
        <5>1. i - T[i].part + p = i - 1
          BY <2>3, <4>2
        <5> QED BY <3>1, <3>4, <4>2, <5>1
      <4>3. CASE p = 2
        <5>1. i - T[i].part + p = i
          BY <2>3, <4>3
        <5> QED BY <2>3, <4>3, <5>1
      <4> QED BY <4>1, <4>2, <4>3
    <3> QED BY <2>3, <3>1, <3>5
  <2> QED BY <2>1, <2>2, <2>3
<1> QED BY <1>1, <1>2 DEF Ends

(* How far a text has been taken apart. *)
Parsed(T) == Max({0} \cup Ends(T))

LEMMA LastEnd ==
  ASSUME NEW T \in Seq(Units), Tiled(T)
  PROVE  /\ Parsed(T) \in 0 .. Len(T)
         /\ Parsed(T) # 0 => Parsed(T) \in Ends(T)
         /\ \A e \in Ends(T) : e <= Parsed(T)
         /\ Parsed(T) = 0 => Ends(T) = {}
<1>1. Len(T) \in Nat /\ \A i \in 1 .. Len(T) : T[i].part \in 1 .. 2 /\ T[i].a.of \in 1 .. 2
  BY UnitTypes
<1>0. Len(T) \in Nat
  OBVIOUS
<1>2. Ends(T) = {i \in 1 .. Len(T) : T[i].part = T[i].a.of}
  BY EndsOfTiled
<1> DEFINE n == Len(T)
<1>3. ASSUME NEW m \in 0 .. n, m = 0 \/ m \in Ends(T), \A e \in Ends(T) : e <= m
      PROVE  Parsed(T) = m
  <2>1. m \in {0} \cup Ends(T) /\ \A y \in {0} \cup Ends(T) : m >= y
    BY <1>3
  <2>2. ASSUME NEW x \in {0} \cup Ends(T), \A y \in {0} \cup Ends(T) : x >= y
        PROVE  x = m
    <3>1. x >= m /\ m >= x /\ x \in Nat /\ m \in Nat
      BY <1>1, <1>2, <2>1, <2>2
    <3> QED BY <3>1
  <2> HIDE DEF n
  <2> QED BY <2>1, <2>2, Zenon DEF Parsed, Max
<1>4. CASE n = 0
  <2>1. Ends(T) = {}
    BY <1>2, <1>4
  <2>2. Parsed(T) = 0
    BY <1>1, <1>3, <2>1
  <2> QED BY <1>1, <2>1, <2>2
<1>5. CASE n > 0 /\ n \in Ends(T)
  <2>1. \A e \in Ends(T) : e <= n
    BY <1>1, <1>2
  <2>2. Parsed(T) = n
    BY <1>1, <1>3, <1>5, <2>1
  <2> QED BY <1>1, <1>5, <2>1, <2>2
<1>6. CASE n > 0 /\ n \notin Ends(T)
  <2>1. n \in 1 .. n
    BY <1>1, <1>6
  <2>2. T[n].part # T[n].a.of
    BY <1>2, <1>6, <2>1
  <2>3. T[n].part <= T[n].a.of
    BY <2>1 DEF Tiled
  <2>4. T[n].part = 1
    BY <1>1, <2>1, <2>2, <2>3
  <2>5. n = 1 \/ T[n - 1].part = T[n - 1].a.of
    BY <2>1, <2>4 DEF Tiled
  <2>6. n - 1 = 0 \/ n - 1 \in Ends(T)
    <3>1. CASE n = 1
      BY <3>1
    <3>2. CASE n # 1
      <4>1. n - 1 \in 1 .. Len(T)
        <5>1. n \in Nat /\ n > 0
          BY <1>0, <1>6
        <5>2. \A x \in Nat : x > 0 /\ x # 1 => x - 1 \in 1 .. x
          OBVIOUS
        <5> HIDE DEF n
        <5>3. n - 1 \in 1 .. n
          BY <3>2, <5>1, <5>2
        <5> QED BY <5>3 DEF n
      <4>2. T[n - 1].part = T[n - 1].a.of
        BY <2>5, <3>2
      <4> QED BY <1>2, <4>1, <4>2, Zenon
    <3> QED BY <3>1, <3>2
  <2>7. \A e \in Ends(T) : e <= n - 1
    BY <1>1, <1>2, <1>6
  <2>8. Parsed(T) = n - 1
    BY <1>1, <1>3, <1>6, <2>6, <2>7
  <2>9. n - 1 = 0 => Ends(T) = {}
    <3>1. \A e \in Ends(T) : e \in Nat /\ e > 0
      BY <1>0, <1>2
    <3>2. ASSUME n - 1 = 0, NEW e \in Ends(T) PROVE FALSE
      <4>1. e <= 0
        BY <2>7, <3>2
      <4> QED BY <3>1, <4>1
    <3> QED BY <3>2, Zenon
  <2> QED BY <1>1, <1>6, <2>6, <2>7, <2>8, <2>9
<1> QED BY <1>1, <1>4, <1>5, <1>6

(* P is how T begins, U how it goes on beyond m. *)
Begins(P, T) == Len(P) <= Len(T) /\ \A i \in 1 .. Len(P) : P[i] = T[i]

GoesOn(U, T, m) ==
  /\ m \in Nat /\ m <= Len(T)
  /\ Len(U) = Len(T) - m
  /\ \A i \in 1 .. Len(U) : U[i] = T[m + i]

(* A text of which the beginning is taken away, up to the end of a message,*)
(* or of which the end has not come, is as well tiled. *)
LEMMA TiledSuffix ==
  ASSUME NEW T \in Seq(Units), Tiled(T), NEW m, m = 0 \/ m \in Ends(T),
         NEW U \in Seq(Units), GoesOn(U, T, m)
  PROVE  /\ Tiled(U)
         /\ Complete(T) => Complete(U)
         /\ \A i \in 1 .. Len(U) : i \in Ends(U) <=> m + i \in Ends(T)
<1>0. /\ Len(T) \in Nat /\ Len(U) \in Nat /\ m \in Nat /\ m <= Len(T)
      /\ Len(U) = Len(T) - m /\ \A i \in 1 .. Len(U) : U[i] = T[m + i]
  BY DEF GoesOn
<1>1. \A i \in 1 .. Len(T) : T[i].part \in 1 .. 2 /\ T[i].a.of \in 1 .. 2
  BY UnitTypes
<1>2. m # 0 => m \in 1 .. Len(T) /\ T[m].part = T[m].a.of
  BY EndsOfTiled
<1>3. ASSUME NEW i \in 1 .. Len(U)
      PROVE  /\ U[i].part <= U[i].a.of
             /\ U[i].part = 1 => i = 1 \/ U[i - 1].part = U[i - 1].a.of
             /\ U[i].part # 1 => i > 1 /\ U[i - 1].a = U[i].a /\ U[i].part = U[i - 1].part + 1
  <2>1. m + i \in 1 .. Len(T) /\ U[i] = T[m + i] /\ (m + i) - 1 = m + (i - 1)
    BY <1>0
  <2>2. i # 1 => i - 1 \in 1 .. Len(U) /\ U[i - 1] = T[m + (i - 1)]
    <3>1. i # 1 => i - 1 \in 1 .. Len(U)
      BY <1>0
    <3> QED BY <1>0, <3>1
  <2>3. U[i].part <= U[i].a.of
    BY <2>1 DEF Tiled
  <2>4. ASSUME U[i].part = 1, i # 1 PROVE U[i - 1].part = U[i - 1].a.of
    <3>1. m + i # 1
      BY <1>0, <2>4
    <3> QED BY <2>1, <2>2, <2>4, <3>1 DEF Tiled
  <2>5. ASSUME U[i].part # 1
        PROVE  i > 1 /\ U[i - 1].a = U[i].a /\ U[i].part = U[i - 1].part + 1
    <3>1. m + i > 1 /\ T[m + (i - 1)].a = T[m + i].a
          /\ T[m + i].part = T[m + (i - 1)].part + 1
      BY <2>1, <2>5 DEF Tiled
    <3>2. i # 1
      <4>1. CASE m = 0
        BY <3>1, <4>1
      <4>2. CASE m # 0
        <5> SUFFICES ASSUME i = 1 PROVE FALSE
          OBVIOUS
        <5>1. m + (i - 1) = m
          BY <1>0
        <5>2. T[m].part = T[m + i].a.of /\ T[m + i].part = T[m].part + 1
          BY <1>2, <3>1, <4>2, <5>1
        <5>3. T[m].part \in 1 .. 2
          BY <1>1, <1>2, <4>2
        <5> QED BY <2>1, <2>3, <5>2, <5>3
      <4> QED BY <4>1, <4>2
    <3> QED BY <2>1, <2>2, <3>1, <3>2
  <2> QED BY <2>3, <2>4, <2>5
<1>4. Tiled(U)
  BY <1>3 DEF Tiled
<1>5. ASSUME Complete(T) PROVE Complete(U)
  <2>1. CASE Len(U) = 0
    BY <2>1 DEF Complete
  <2>2. CASE Len(U) # 0
    <3>1. Len(U) \in 1 .. Len(U) /\ m + Len(U) = Len(T) /\ T # <<>>
      BY <1>0, <2>2
    <3>2. U[Len(U)] = T[Len(T)]
      BY <1>0, <3>1
    <3> QED BY <1>5, <3>1, <3>2 DEF Complete
  <2> QED BY <2>1, <2>2
<1>6. \A i \in 1 .. Len(U) : i \in Ends(U) <=> m + i \in Ends(T)
  <2>1. Ends(U) = {i \in 1 .. Len(U) : U[i].part = U[i].a.of}
    BY <1>4, EndsOfTiled
  <2>2. \A i \in 1 .. Len(U) : m + i \in 1 .. Len(T) /\ U[i] = T[m + i]
    BY <1>0
  <2>3. \A i \in 1 .. Len(U) : m + i \in Ends(T) <=> U[i].part = U[i].a.of
    BY <2>2, EndsOfTiled
  <2> QED BY <2>1, <2>3
<1> QED BY <1>4, <1>5, <1>6

LEMMA TiledPrefix ==
  ASSUME NEW T \in Seq(Units), Tiled(T),
         NEW P \in Seq(Units), Begins(P, T)
  PROVE  /\ Tiled(P)
         /\ \A i \in 1 .. Len(P) : i \in Ends(P) <=> i \in Ends(T)
<1>0. /\ Len(T) \in Nat /\ Len(P) \in Nat /\ Len(P) <= Len(T)
      /\ \A i \in 1 .. Len(P) : P[i] = T[i]
  BY DEF Begins
<1>1. ASSUME NEW i \in 1 .. Len(P)
      PROVE  /\ P[i].part <= P[i].a.of
             /\ P[i].part = 1 => i = 1 \/ P[i - 1].part = P[i - 1].a.of
             /\ P[i].part # 1 => i > 1 /\ P[i - 1].a = P[i].a /\ P[i].part = P[i - 1].part + 1
  <2>1. i \in 1 .. Len(T) /\ P[i] = T[i]
    BY <1>0
  <2>2. i # 1 => P[i - 1] = T[i - 1]
    <3>1. i # 1 => i - 1 \in 1 .. Len(P)
      BY <1>0
    <3> QED BY <1>0, <3>1
  <2>3. i > 1 => i # 1
    BY <1>0
  <2> QED BY <2>1, <2>2, <2>3, Zenon DEF Tiled
<1>2. Tiled(P)
  BY <1>1 DEF Tiled
<1>3. Ends(P) = {i \in 1 .. Len(P) : P[i].part = P[i].a.of}
  BY <1>2, EndsOfTiled
<1>4. \A i \in 1 .. Len(P) : i \in 1 .. Len(T) /\ P[i] = T[i]
  BY <1>0
<1>5. \A i \in 1 .. Len(P) : i \in Ends(T) <=> P[i].part = P[i].a.of
  BY <1>4, EndsOfTiled
<1> QED BY <1>2, <1>3, <1>5

(* What is left over of a text, once its messages have been taken. *)
LEMMA LeftOver ==
  ASSUME NEW P \in Seq(Units), Tiled(P)
  PROVE  /\ Unparsed(P) \in Seq(Units)
         /\ GoesOn(Unparsed(P), P, Parsed(P))
         /\ Ends(Unparsed(P)) = {}
<1> DEFINE m == Parsed(P)
           L == Unparsed(P)
<1>0. Len(P) \in Nat
  OBVIOUS
<1>1. /\ m \in 0 .. Len(P) /\ m \in Nat
      /\ m = 0 \/ m \in Ends(P)
      /\ \A e \in Ends(P) : e <= m
  <2>1. m \in 0 .. Len(P) /\ (m # 0 => m \in Ends(P)) /\ \A e \in Ends(P) : e <= m
    BY LastEnd
  <2> QED BY <1>0, <2>1
<1>2. L \in Seq(Units) /\ Len(L) = Len(P) - m /\ \A i \in 1 .. Len(L) : L[i] = P[m + i]
  <2>1. L = SubSeq(P, m + 1, Len(P))
    BY DEF Unparsed, Parsed
  <2> HIDE DEF L, m
  <2>2. \A i \in m + 1 .. Len(P) : P[i] \in Units
    BY <1>0, <1>1
  <2>3. /\ L \in Seq(Units)
        /\ Len(L) = IF m + 1 <= Len(P) THEN Len(P) - (m + 1) + 1 ELSE 0
        /\ \A i \in 1 .. Len(P) - (m + 1) + 1 : L[i] = P[(m + 1) + i - 1]
    BY <1>0, <1>1, <2>1, <2>2, SubSeqProperties
  <2>4. Len(L) = Len(P) - m
    BY <1>0, <1>1, <2>3
  <2>5. ASSUME NEW i \in 1 .. Len(L) PROVE L[i] = P[m + i]
    <3>1. (m + 1) + i - 1 = m + i /\ i \in 1 .. Len(P) - (m + 1) + 1
      BY <1>0, <1>1, <2>4
    <3> QED BY <2>3, <3>1
  <2> QED BY <2>3, <2>4, <2>5
<1> HIDE DEF m, L
<1>3. GoesOn(L, P, m)
  BY <1>0, <1>1, <1>2 DEF GoesOn
<1>4. \A i \in 1 .. Len(L) : i \in Ends(L) <=> m + i \in Ends(P)
  BY <1>1, <1>2, <1>3, TiledSuffix
<1>5. ASSUME NEW i \in Ends(L) PROVE FALSE
  <2>1. i \in 1 .. Len(L)
    BY <1>2, EndsFinite
  <2>2. m + i <= m
    BY <1>1, <1>4, <2>1
  <2> QED BY <1>1, <1>2, <2>1, <2>2
<1> QED BY <1>2, <1>3, <1>5 DEF m, L

(* The whole messages of a text are those of its beginning, and then those *)
(* of what follows the last of them. *)
LEMMA WholeInTwo ==
  ASSUME NEW T \in Seq(Units), Tiled(T),
         NEW P \in Seq(Units), Begins(P, T),
         NEW U \in Seq(Units), GoesOn(U, T, Parsed(P))
  PROVE  Whole(T) = Whole(P) \o Whole(U)
<1> DEFINE m == Parsed(P)
<1>0. /\ Len(P) \in Nat /\ Len(T) \in Nat /\ Len(U) \in Nat /\ m \in Nat /\ m <= Len(T)
      /\ Len(U) = Len(T) - m /\ Len(P) <= Len(T)
      /\ \A i \in 1 .. Len(U) : U[i] = T[m + i]
      /\ \A i \in 1 .. Len(P) : P[i] = T[i]
  BY DEF GoesOn, Begins
<1>1. Tiled(P) /\ \A i \in 1 .. Len(P) : i \in Ends(P) <=> i \in Ends(T)
  BY TiledPrefix
<1>2. m \in 0 .. Len(P) /\ (m = 0 \/ m \in Ends(P)) /\ \A e \in Ends(P) : e <= m
  BY <1>1, LastEnd
<1> HIDE DEF m
<1>3. /\ \A e \in Ends(P) : e \in 1 .. Len(P)
      /\ \A e \in Ends(U) : e \in 1 .. Len(U)
      /\ \A e \in Ends(T) : e \in 1 .. Len(T)
  BY EndsFinite
<1>4. \A i \in 1 .. Len(U) : m + i \in 1 .. Len(T) /\ U[i] = T[m + i]
  BY <1>0
<1>5. \A i \in 1 .. Len(U) : i \in Ends(U) <=> m + i \in Ends(T)
  <2>1. m = 0 \/ m \in Ends(T)
    BY <1>1, <1>2
  <2>2. GoesOn(U, T, m)
    BY DEF m
  <2> QED BY <2>1, <2>2, TiledSuffix
<1>6. Ends(T) = Ends(P) \cup Moved(Ends(U), m)
  <2>1. ASSUME NEW t \in Ends(T), t \notin Ends(P) PROVE t \in Moved(Ends(U), m)
    <3>1. t \in 1 .. Len(T)
      BY <1>0, EndsFinite
    <3>2. t > Len(P)
      BY <1>0, <1>1, <2>1, <3>1
    <3>3. t - m \in 1 .. Len(U) /\ m + (t - m) = t
      BY <1>0, <1>2, <1>4, <3>1, <3>2
    <3>4. t - m \in Ends(U)
      BY <1>5, <3>3
    <3> QED BY <3>3, <3>4 DEF Moved
  <2>2. \A e \in Ends(P) : e \in Ends(T)
    BY <1>1, <1>3
  <2>3. \A e \in Ends(U) : m + e \in Ends(T)
    BY <1>0, <1>3, <1>5
  <2> QED BY <2>1, <2>2, <2>3 DEF Moved
<1>7. /\ Ends(P) \in SUBSET Nat /\ IsFiniteSet(Ends(P)) /\ Cardinality(Ends(P)) \in Nat
      /\ Ends(U) \in SUBSET Nat /\ IsFiniteSet(Ends(U)) /\ Cardinality(Ends(U)) \in Nat
      /\ \A b \in Ends(U) : b > 0
      /\ \A a \in Ends(P) : a > 0
      /\ \A t \in Ends(T) : t \in Nat
  <2>1. Ends(U) \in SUBSET (1 .. Len(U)) /\ Ends(P) \in SUBSET (1 .. Len(P))
    BY <1>4, EndsFinite
  <2>2. \A b \in Ends(U) : b > 0
    BY <1>4, <2>1
  <2>3. \A a \in Ends(P) : a > 0
    BY <1>0, <2>1
  <2>4. Ends(T) \in SUBSET Nat
    BY <1>0, EndsFinite
  <2> QED BY <1>4, <2>2, <2>3, <2>4, EndsFinite
<1>8. Cardinality(Ends(T)) = Cardinality(Ends(P)) + Cardinality(Ends(U))
  <2>1. /\ Ends(P) \in SUBSET Nat /\ Ends(U) \in SUBSET Nat /\ m \in Nat
        /\ IsFiniteSet(Ends(P)) /\ IsFiniteSet(Ends(U))
    BY <1>0, <1>7
  <2>2. (\A a \in Ends(P) : a <= m) /\ \A b \in Ends(U) : b > 0
    BY <1>2, <1>7
  <2>3. Cardinality(Ends(P) \cup Moved(Ends(U), m)) = Cardinality(Ends(P)) + Cardinality(Ends(U))
    BY <2>1, <2>2, Counting, Zenon
  <2> QED BY <1>6, <2>3
<1>9. ASSUME NEW e \in Ends(P) PROVE e \in Ends(T) /\ Rank(T, e) = Rank(P, e)
  <2>1. \A d \in Ends(T) : d <= e => d \in Ends(P)
    <3>1. e \in 1 .. Len(P)
      BY <1>3
    <3>2. ASSUME NEW d \in Ends(T), d <= e PROVE d \in Ends(P)
      <4>1. d \in 1 .. Len(T)
        BY <1>0, EndsFinite
      <4>2. d \in 1 .. Len(P)
        BY <1>0, <3>1, <3>2, <4>1
      <4> QED BY <1>1, <4>2
    <3> QED BY <3>2
  <2>2. {d \in Ends(T) : d <= e} = {d \in Ends(P) : d <= e}
    BY <1>6, <2>1
  <2> QED BY <1>6, <2>2 DEF Rank
<1>10. ASSUME NEW e \in Ends(U)
       PROVE  m + e \in Ends(T) /\ Rank(T, m + e) = Cardinality(Ends(P)) + Rank(U, e)
  <2> DEFINE B == {d \in Ends(U) : d <= e}
  <2>1. B \in SUBSET Nat /\ IsFiniteSet(B) /\ \A b \in B : b > 0
    <3>1. B \in SUBSET Ends(U)
      OBVIOUS
    <3>2. IsFiniteSet(B)
      BY <1>7, <3>1, FS_Subset
    <3> QED BY <1>7, <3>1, <3>2
  <2>2. {d \in Ends(T) : d <= m + e} = Ends(P) \cup Moved(B, m)
    <3>1. \A a \in Ends(P) : a \in Ends(T) /\ a <= m + e
      BY <1>0, <1>2, <1>3, <1>7, <1>9
    <3>2. \A b \in Ends(U) : m + b \in Ends(T) /\ (m + b <= m + e <=> b <= e)
      BY <1>0, <1>6, <1>7 DEF Moved
    <3>3. \A d \in Ends(T) : d \in Ends(P) \/ \E b \in Ends(U) : d = m + b
      BY <1>6 DEF Moved
    <3> QED BY <3>1, <3>2, <3>3 DEF Moved
  <2> HIDE DEF B
  <2>3. (\A a \in Ends(P) : a <= m) /\ m \in Nat
        /\ Ends(P) \in SUBSET Nat /\ IsFiniteSet(Ends(P))
    BY <1>0, <1>2, <1>7
  <2>4. Cardinality(Ends(P) \cup Moved(B, m)) = Cardinality(Ends(P)) + Cardinality(B)
    BY <2>1, <2>3, Counting, Zenon
  <2>5. m + e \in Ends(T)
    BY <1>6 DEF Moved
  <2> QED BY <2>2, <2>4, <2>5 DEF Rank, B
<1>11. Whole(T) = Whole(P) \o Whole(U)
  <2> DEFINE WP == Whole(P)
             WU == Whole(U)
             WT == Whole(T)
             c == Cardinality(Ends(P))
  <2>1. /\ WP \in Seq(Answers) /\ Len(WP) = c
        /\ \A e \in Ends(P) : Rank(P, e) \in 1 .. Len(WP) /\ WP[Rank(P, e)] = P[e].a
        /\ \A k \in 1 .. Len(WP) : \E e \in Ends(P) : Rank(P, e) = k
    BY WholeNumbered
  <2>2. /\ WU \in Seq(Answers) /\ Len(WU) = Cardinality(Ends(U))
        /\ \A e \in Ends(U) : Rank(U, e) \in 1 .. Len(WU) /\ WU[Rank(U, e)] = U[e].a
        /\ \A k \in 1 .. Len(WU) : \E e \in Ends(U) : Rank(U, e) = k
    BY <1>4, WholeNumbered
  <2>3. /\ WT \in Seq(Answers) /\ Len(WT) = Cardinality(Ends(T))
        /\ \A e \in Ends(T) : WT[Rank(T, e)] = T[e].a
    BY <1>0, WholeNumbered
  <2>4. c \in Nat
    BY <1>7
  <2> HIDE DEF WP, WU, WT, c
  <2>5. /\ WP \o WU \in Seq(Answers) /\ Len(WP \o WU) = Len(WT)
        /\ \A k \in 1 .. Len(WP) : (WP \o WU)[k] = WP[k]
        /\ \A k \in 1 .. Len(WU) : (WP \o WU)[c + k] = WU[k]
    <3>1. /\ WP \o WU \in Seq(Answers) /\ Len(WP \o WU) = c + Len(WU)
          /\ \A k \in 1 .. c + Len(WU) :
               (WP \o WU)[k] = IF k <= c THEN WP[k] ELSE WU[k - c]
      <4>1. /\ WP \o WU \in Seq(Answers) /\ Len(WP \o WU) = Len(WP) + Len(WU)
            /\ \A k \in 1 .. Len(WP) + Len(WU) :
                 (WP \o WU)[k] = IF k <= Len(WP) THEN WP[k] ELSE WU[k - Len(WP)]
        BY <2>1, <2>2, ConcatProperties
      <4> QED BY <2>1, <4>1
    <3>2. Len(WU) \in Nat /\ Len(WT) = c + Len(WU)
      BY <1>8, <2>2, <2>3 DEF c
    <3>3. \A k \in 1 .. Len(WP) : k \in 1 .. c + Len(WU) /\ k <= c
      BY <2>1, <2>4, <3>2
    <3>4. \A k \in 1 .. Len(WU) : c + k \in 1 .. c + Len(WU) /\ ~(c + k <= c)
                                /\ (c + k) - c = k
      BY <2>4, <3>2
    <3> QED BY <3>1, <3>2, <3>3, <3>4
  <2>6. ASSUME NEW k \in 1 .. Len(WT) PROVE WT[k] = (WP \o WU)[k]
    <3>1. CASE k <= c
      <4>1. k \in 1 .. Len(WP)
        BY <2>1, <2>3, <3>1
      <4>2. PICK e \in Ends(P) : Rank(P, e) = k
        BY <2>1, <4>1
      <4>3. WP[k] = P[e].a
        BY <2>1, <4>2
      <4>4. WT[k] = T[e].a
        BY <1>9, <2>3, <4>2
      <4>5. T[e] = P[e]
        <5>1. e \in 1 .. Len(P)
          BY <1>3
        <5> QED BY <1>0, <5>1
      <4> QED BY <2>5, <4>1, <4>3, <4>4, <4>5
    <3>2. CASE k > c
      <4>1. k - c \in 1 .. Len(WU) /\ c + (k - c) = k
        BY <1>7, <1>8, <2>2, <2>3, <2>4, <3>2 DEF c
      <4>2. PICK e \in Ends(U) : Rank(U, e) = k - c
        BY <2>2, <4>1
      <4>3. WU[k - c] = U[e].a
        BY <2>2, <4>2
      <4>4. Rank(T, m + e) = k
        BY <1>10, <4>1, <4>2 DEF c
      <4>5. WT[k] = T[m + e].a
        BY <1>10, <2>3, <4>4
      <4>6. U[e] = T[m + e]
        BY <1>0, <1>3, <1>4
      <4>7. (WP \o WU)[c + (k - c)] = WU[k - c]
        BY <2>5, <4>1
      <4> QED BY <4>1, <4>3, <4>5, <4>6, <4>7
    <3>3. Len(WT) \in Nat
      BY <2>3
    <3>4. k <= c \/ k > c
      BY <2>4, <3>3
    <3> QED BY <3>1, <3>2, <3>4
  <2> QED BY <2>3, <2>5, <2>6, SeqEqual DEF WP, WU, WT
<1> QED BY <1>11

LEMMA WholeSplits ==
  ASSUME NEW P \in Seq(Units), NEW R \in Seq(Units), Tiled(P \o R)
  PROVE  /\ Unparsed(P) \o R \in Seq(Units) /\ Tiled(P) /\ Tiled(Unparsed(P) \o R)
         /\ Complete(P \o R) => Complete(Unparsed(P) \o R)
         /\ Whole(P \o R) = Whole(P) \o Whole(Unparsed(P) \o R)
         /\ GoesOn(Unparsed(P) \o R, P \o R, Parsed(P))
<1> DEFINE m == Parsed(P)
           L == Unparsed(P)
           T == P \o R
           U == L \o R
<1>0. Len(P) \in Nat /\ Len(R) \in Nat /\ T \in Seq(Units) /\ Len(T) = Len(P) + Len(R)
      /\ Tiled(T)
  OBVIOUS
<1>1. Begins(P, T)
  BY <1>0 DEF Begins
<1>2. Tiled(P) /\ \A i \in 1 .. Len(P) : i \in Ends(P) <=> i \in Ends(T)
  BY <1>0, <1>1, TiledPrefix
<1>3. m \in 0 .. Len(P) /\ (m = 0 \/ m \in Ends(P))
  BY <1>2, LastEnd
<1>4. L \in Seq(Units) /\ GoesOn(L, P, m)
  BY <1>2, LeftOver
<1>5. /\ U = L \o R /\ T = P \o R
      /\ \A i \in 1 .. Len(P) + Len(R) : T[i] = IF i <= Len(P) THEN P[i] ELSE R[i - Len(P)]
  BY ConcatProperties
<1> HIDE DEF m, L, T, U
<1>6. /\ m \in Nat /\ Len(L) = Len(P) - m /\ \A i \in 1 .. Len(L) : L[i] = P[m + i]
      /\ Len(L) \in Nat
  BY <1>4 DEF GoesOn
<1>7. /\ U \in Seq(Units) /\ Len(U) = Len(L) + Len(R)
      /\ \A i \in 1 .. Len(L) + Len(R) : U[i] = IF i <= Len(L) THEN L[i] ELSE R[i - Len(L)]
  BY <1>4, <1>5, ConcatProperties
<1>8. ASSUME NEW i \in 1 .. Len(U) PROVE U[i] = T[m + i]
  <2>1. m + i \in 1 .. Len(T)
    BY <1>0, <1>6, <1>7
  <2>2. CASE i <= Len(L)
    <3>1. U[i] = L[i] /\ i \in 1 .. Len(L) /\ m + i \in 1 .. Len(P)
      BY <1>0, <1>6, <1>7, <2>2
    <3>2. T[m + i] = P[m + i]
      BY <1>0, <1>1, <3>1 DEF Begins
    <3> QED BY <1>6, <3>1, <3>2
  <2>3. CASE i > Len(L)
    <3>1. U[i] = R[i - Len(L)]
      BY <1>0, <1>6, <1>7, <2>3
    <3>2. (m + i) - Len(P) = i - Len(L) /\ ~(m + i <= Len(P))
      BY <1>0, <1>6, <1>7, <2>3
    <3>3. T[m + i] = R[(m + i) - Len(P)]
      BY <1>0, <1>5, <2>1, <3>2
    <3> QED BY <3>1, <3>2, <3>3
  <2> QED BY <1>0, <1>6, <1>7, <2>2, <2>3
<1>9. GoesOn(U, T, m)
  BY <1>0, <1>6, <1>7, <1>8 DEF GoesOn
<1>10. m = 0 \/ m \in Ends(T)
  <2>1. m \in Ends(P) => m \in 1 .. Len(P)
    BY EndsFinite
  <2> QED BY <1>2, <1>3, <2>1
<1>11. Tiled(U) /\ (Complete(T) => Complete(U))
  BY <1>0, <1>7, <1>9, <1>10, TiledSuffix
<1>12. Whole(T) = Whole(P) \o Whole(U)
  BY <1>0, <1>1, <1>7, <1>9, WholeInTwo DEF m
<1> QED BY <1>2, <1>7, <1>9, <1>11, <1>12 DEF m, L, T, U

(* M is the message a, part by part. *)
Spells(M, a) ==
  /\ Len(M) = a.of
  /\ \A i \in 1 .. Len(M) : M[i].a = a /\ M[i].part = i

LEMMA WholeOfOne ==
  ASSUME NEW a \in Answers, NEW M \in Seq(Units), Spells(M, a)
  PROVE  Tiled(M) /\ Complete(M) /\ Whole(M) = <<a>>
<1>1. Len(M) \in 1 .. 2 /\ a.of = Len(M)
  BY DEF Spells, Answers, Parts
<1>2. \A i \in 1 .. Len(M) : M[i].a = a /\ M[i].part = i
  BY DEF Spells
<1>3. Tiled(M)
  <2>1. ASSUME NEW i \in 1 .. Len(M), i # 1 PROVE i > 1 /\ i - 1 \in 1 .. Len(M) /\ i = (i - 1) + 1
    BY <1>1, <2>1
  <2>2. \A i \in 1 .. Len(M) : i <= Len(M)
    BY <1>1
  <2> QED BY <1>1, <1>2, <2>1, <2>2 DEF Tiled
<1>4. Len(M) \in 1 .. Len(M)
  <2>1. \A n \in 1 .. 2 : n \in 1 .. n
    OBVIOUS
  <2> QED BY <1>1, <2>1, Zenon
<1>5. Complete(M)
  BY <1>1, <1>2, <1>4 DEF Complete
<1>6. Ends(M) = {Len(M)}
  <2>1. Ends(M) = {i \in 1 .. Len(M) : M[i].part = M[i].a.of}
    BY <1>3, EndsOfTiled
  <2>2. \A i \in 1 .. Len(M) : M[i].part = M[i].a.of <=> i = Len(M)
    BY <1>1, <1>2
  <2> QED BY <1>4, <2>1, <2>2
<1>7. Whole(M) \in Seq(Answers) /\ Len(Whole(M)) = 1 /\ Whole(M)[1] = a
  <2>1. Len(Whole(M)) = 1
    BY <1>6, WholeNumbered, FS_Singleton
  <2>2. Rank(M, Len(M)) \in 1 .. Len(Whole(M)) /\ Whole(M)[Rank(M, Len(M))] = M[Len(M)].a
    BY <1>6, WholeNumbered
  <2>3. Rank(M, Len(M)) = 1
    BY <2>1, <2>2
  <2> QED BY <1>2, <1>4, <2>1, <2>2, <2>3, WholeNumbered
<1> QED BY <1>3, <1>5, <1>7

(* One message more at the end of a text is one more to deliver. *)
LEMMA WholeOfMore ==
  ASSUME NEW T \in Seq(Units), Tiled(T), Complete(T),
         NEW a \in Answers, NEW M \in Seq(Units), Spells(M, a)
  PROVE  /\ T \o M \in Seq(Units) /\ Tiled(T \o M) /\ Complete(T \o M)
         /\ Whole(T \o M) = Whole(T) \o <<a>>
<1> DEFINE V == T \o M
<1>1. /\ Len(T) \in Nat /\ Len(M) \in 1 .. 2 /\ V \in Seq(Units) /\ Len(V) = Len(T) + Len(M)
      /\ a.of = Len(M)
  BY DEF Spells, Answers, Parts
<1>2. Tiled(M) /\ Whole(M) = <<a>>
  BY WholeOfOne
<1>3. \A i \in 1 .. Len(T) : V[i] = T[i]
  BY <1>1
<1>4. \A i \in 1 .. Len(M) : V[Len(T) + i] = M[i]
  BY <1>1
<1>5. \A i \in 1 .. Len(M) : M[i].a = a /\ M[i].part = i
  BY DEF Spells
<1> HIDE DEF V
<1>6. ASSUME NEW i \in 1 .. Len(V)
      PROVE  /\ V[i].part <= V[i].a.of
             /\ V[i].part = 1 => i = 1 \/ V[i - 1].part = V[i - 1].a.of
             /\ V[i].part # 1 => i > 1 /\ V[i - 1].a = V[i].a /\ V[i].part = V[i - 1].part + 1
  <2>1. CASE i <= Len(T)
    <3>1. i \in 1 .. Len(T) /\ (i # 1 => i - 1 \in 1 .. Len(T))
      BY <1>1, <2>1
    <3>2. V[i] = T[i] /\ (i # 1 => V[i - 1] = T[i - 1])
      BY <1>3, <3>1
    <3>3. i > 1 => i # 1
      BY <1>1
    <3> QED BY <3>1, <3>2, <3>3 DEF Tiled
  <2>2. CASE i > Len(T)
    <3>1. PICK j \in 1 .. Len(M) : i = Len(T) + j
      <4>1. i - Len(T) \in 1 .. Len(M) /\ i = Len(T) + (i - Len(T))
        BY <1>1, <2>2
      <4> QED BY <4>1
    <3>2. V[i].a = a /\ V[i].part = j
      BY <1>4, <1>5, <3>1
    <3>3. V[i].part <= V[i].a.of
      BY <1>1, <3>1, <3>2
    <3>4. CASE j = 1
      <4>1. CASE T = <<>>
        <5>1. i = 1
          BY <3>1, <3>4, <4>1
        <5> QED BY <3>2, <3>3, <3>4, <5>1
      <4>2. CASE T # <<>>
        <5>1. i - 1 = Len(T) /\ Len(T) \in 1 .. Len(T)
          BY <1>1, <3>1, <3>4, <4>2
        <5>2. V[i - 1].part = V[i - 1].a.of
          BY <1>3, <4>2, <5>1 DEF Complete
        <5> QED BY <3>2, <3>3, <3>4, <5>2
      <4> QED BY <4>1, <4>2
    <3>5. CASE j # 1
      <4>1. j - 1 \in 1 .. Len(M) /\ i - 1 = Len(T) + (j - 1) /\ i > 1 /\ j = (j - 1) + 1
        BY <1>1, <3>1, <3>5
      <4>2. V[Len(T) + (j - 1)] = M[j - 1] /\ M[j - 1].a = a /\ M[j - 1].part = j - 1
        BY <1>4, <1>5, <4>1
      <4>3. V[i - 1].a = a /\ V[i - 1].part = j - 1
        BY <4>1, <4>2
      <4> QED BY <3>2, <3>3, <3>5, <4>1, <4>3
    <3> QED BY <3>4, <3>5
  <2> QED BY <1>1, <2>1, <2>2
<1>7. Tiled(V)
  BY <1>6 DEF Tiled
<1>8. Complete(V)
  <2>1. Len(M) \in 1 .. Len(M) /\ Len(V) = Len(T) + Len(M)
    BY <1>1
  <2>2. V[Len(V)].part = V[Len(V)].a.of
    BY <1>1, <1>4, <1>5, <2>1
  <2> QED BY <2>2 DEF Complete
<1>9. Parsed(T) = Len(T)
  <2>1. Len(T) = 0 \/ Len(T) \in Ends(T)
    <3>1. T # <<>> => Len(T) \in 1 .. Len(T)
      BY <1>1
    <3>2. T # <<>> => T[Len(T)].part = T[Len(T)].a.of
      BY DEF Complete
    <3> QED BY <3>1, <3>2, EndsOfTiled
  <2>2. Parsed(T) \in 0 .. Len(T) /\ \A e \in Ends(T) : e <= Parsed(T)
    BY LastEnd
  <2> QED BY <1>1, <2>1, <2>2
<1>10. Begins(T, V) /\ GoesOn(M, V, Len(T))
  BY <1>1, <1>3, <1>4 DEF Begins, GoesOn
<1>11. Whole(V) = Whole(T) \o Whole(M)
  BY <1>1, <1>7, <1>9, <1>10, WholeInTwo
<1> QED BY <1>1, <1>2, <1>7, <1>8, <1>11 DEF V

-----------------------------------------------------------------------------
(* Frames: what is decrypted at once is decrypted as well bit by bit. *)

LEMMA FramesOf ==
  ASSUME NEW b \in Seq(Units)
  PROVE  /\ Frames(b) \in Nat /\ 2 * Frames(b) <= Len(b) /\ Len(b) < 2 * Frames(b) + 2
         /\ Decrypted(b) \in Seq(Units) /\ Len(Decrypted(b)) = Frames(b)
         /\ \A i \in 1 .. Frames(b) : Decrypted(b)[i] = b[2 * i] /\ 2 * i \in 1 .. Len(b)
         /\ Rest(b) \in Seq(Units) /\ Len(Rest(b)) = Len(b) - 2 * Frames(b)
         /\ \A i \in 1 .. Len(Rest(b)) : Rest(b)[i] = b[2 * Frames(b) + i]
                                         /\ 2 * Frames(b) + i \in 1 .. Len(b)
<1> DEFINE f == Frames(b)
<1>1. Len(b) \in Nat
  OBVIOUS
<1>2. f \in Nat /\ 2 * f <= Len(b) /\ Len(b) < 2 * f + 2
  BY <1>1 DEF Frames
<1>3. \A i \in 1 .. f : 2 * i \in 1 .. Len(b)
  BY <1>1, <1>2
<1> HIDE DEF f
<1>4. Decrypted(b) = [i \in 1 .. f |-> b[2 * i]]
  BY DEF Decrypted, f
<1>5. Decrypted(b) \in Seq(Units) /\ Len(Decrypted(b)) = f
  <2>1. \A i \in 1 .. f : b[2 * i] \in Units
    BY <1>3
  <2> QED BY <1>2, <1>4, <2>1
<1>6. /\ Rest(b) \in Seq(Units) /\ Len(Rest(b)) = Len(b) - 2 * f
      /\ \A i \in 1 .. Len(Rest(b)) : Rest(b)[i] = b[2 * f + i] /\ 2 * f + i \in 1 .. Len(b)
  <2> DEFINE g == 2 * f
  <2>1. Rest(b) = SubSeq(b, g + 1, Len(b))
    BY DEF Rest, f
  <2>2. g \in Nat /\ g <= Len(b)
    BY <1>1, <1>2
  <2> HIDE DEF g
  <2>3. \A i \in g + 1 .. Len(b) : b[i] \in Units
    BY <1>1, <2>2
  <2>4. /\ Rest(b) \in Seq(Units)
        /\ Len(Rest(b)) = IF g + 1 <= Len(b) THEN (Len(b) - (g + 1)) + 1 ELSE 0
        /\ \A i \in 1 .. (Len(b) - (g + 1)) + 1 : Rest(b)[i] = b[((g + 1) + i) - 1]
    <3>1. g + 1 \in Int /\ Len(b) \in Int
      BY <1>1, <2>2
    <3>2. /\ SubSeq(b, g + 1, Len(b)) \in Seq(Units)
          /\ Len(SubSeq(b, g + 1, Len(b))) = IF g + 1 <= Len(b) THEN Len(b) - (g + 1) + 1 ELSE 0
          /\ \A i \in 1 .. Len(b) - (g + 1) + 1 :
               SubSeq(b, g + 1, Len(b))[i] = b[(g + 1) + i - 1]
      BY <2>3, <3>1, SubSeqProperties
    <3> QED BY <1>1, <2>1, <2>2, <3>2
  <2>5. Len(Rest(b)) = Len(b) - g
    BY <1>1, <2>2, <2>4
  <2>6. ASSUME NEW i \in 1 .. Len(Rest(b)) PROVE Rest(b)[i] = b[g + i] /\ g + i \in 1 .. Len(b)
    <3>1. ((g + 1) + i) - 1 = g + i /\ i \in 1 .. (Len(b) - (g + 1)) + 1 /\ g + i \in 1 .. Len(b)
      BY <1>1, <2>2, <2>5
    <3> QED BY <2>4, <3>1
  <2> QED BY <2>4, <2>5, <2>6 DEF g
<1> QED BY <1>2, <1>3, <1>4, <1>5, <1>6 DEF f

LEMMA DecryptedSplits ==
  ASSUME NEW b \in Seq(Units), NEW r \in Seq(Units)
  PROVE  Decrypted(b \o r) = Decrypted(b) \o Decrypted(Rest(b) \o r)
<1> DEFINE f == Frames(b)
           c == Rest(b) \o r
           s == b \o r
<1>1. /\ f \in Nat /\ 2 * f <= Len(b)
      /\ Decrypted(b) \in Seq(Units) /\ Len(Decrypted(b)) = f
      /\ \A i \in 1 .. f : Decrypted(b)[i] = b[2 * i] /\ 2 * i \in 1 .. Len(b)
      /\ Rest(b) \in Seq(Units) /\ Len(Rest(b)) = Len(b) - 2 * f
      /\ \A i \in 1 .. Len(Rest(b)) : Rest(b)[i] = b[2 * f + i]
  BY FramesOf
<1> HIDE DEF f
<1>2. Len(b) \in Nat /\ Len(r) \in Nat /\ s \in Seq(Units) /\ Len(s) = Len(b) + Len(r)
  OBVIOUS
<1>3. c \in Seq(Units) /\ Len(c) = (Len(b) - 2 * f) + Len(r)
  <2>1. c \in Seq(Units) /\ Len(c) = Len(Rest(b)) + Len(r)
    BY <1>1, ConcatProperties
  <2> QED BY <1>1, <2>1
<1>4. ASSUME NEW i \in 1 .. Len(c) PROVE c[i] = s[2 * f + i]
  <2>1. CASE i <= Len(Rest(b))
    <3>1. i \in 1 .. Len(Rest(b)) /\ 2 * f + i \in 1 .. Len(b)
      BY <1>1, <1>2, <1>3, <2>1
    <3>2. c[i] = Rest(b)[i] /\ s[2 * f + i] = b[2 * f + i]
      BY <1>1, <1>2, <3>1
    <3> QED BY <1>1, <3>1, <3>2
  <2>2. CASE ~(i <= Len(Rest(b)))
    <3>1. /\ 2 * f + i \in 1 .. Len(b) + Len(r) /\ ~(2 * f + i <= Len(b))
          /\ (2 * f + i) - Len(b) = i - Len(Rest(b))
          /\ i \in 1 .. Len(Rest(b)) + Len(r)
      BY <1>1, <1>2, <1>3, <2>2
    <3>2. c[i] = r[i - Len(Rest(b))]
      BY <1>1, <2>2, <3>1, ConcatProperties
    <3>3. s[2 * f + i] = r[(2 * f + i) - Len(b)]
      BY <1>2, <3>1
    <3> QED BY <3>1, <3>2, <3>3
  <2> QED BY <2>1, <2>2
<1> HIDE DEF c, s
<1>5. /\ Frames(c) \in Nat /\ 2 * Frames(c) <= Len(c) /\ Len(c) < 2 * Frames(c) + 2
      /\ Decrypted(c) \in Seq(Units) /\ Len(Decrypted(c)) = Frames(c)
      /\ \A i \in 1 .. Frames(c) : Decrypted(c)[i] = c[2 * i] /\ 2 * i \in 1 .. Len(c)
  BY <1>3, FramesOf
<1>6. /\ Frames(s) \in Nat /\ 2 * Frames(s) <= Len(s) /\ Len(s) < 2 * Frames(s) + 2
      /\ Decrypted(s) \in Seq(Units) /\ Len(Decrypted(s)) = Frames(s)
      /\ \A i \in 1 .. Frames(s) : Decrypted(s)[i] = s[2 * i]
  BY <1>2, FramesOf
<1>7. Frames(s) = f + Frames(c)
  <2>1. ASSUME NEW x \in Nat, NEW y \in Nat, NEW z \in Nat, NEW l \in Nat, NEW k \in Nat,
               2 * x <= l + k, l + k < 2 * x + 2, 2 * y <= l,
               2 * z <= (l - 2 * y) + k, (l - 2 * y) + k < 2 * z + 2
        PROVE  x = y + z
    BY <2>1
  <2>2. /\ Frames(s) \in Nat /\ f \in Nat /\ Frames(c) \in Nat /\ Len(b) \in Nat /\ Len(r) \in Nat
        /\ 2 * Frames(s) <= Len(b) + Len(r) /\ Len(b) + Len(r) < 2 * Frames(s) + 2
        /\ 2 * f <= Len(b)
    <3>1. Frames(s) \in Nat /\ 2 * Frames(s) <= Len(s) /\ Len(s) < 2 * Frames(s) + 2
      BY <1>6
    <3>2. Len(s) = Len(b) + Len(r) /\ Len(b) \in Nat /\ Len(r) \in Nat
      BY <1>2
    <3>3. f \in Nat /\ 2 * f <= Len(b) /\ Frames(c) \in Nat
      BY <1>1, <1>5
    <3> QED BY <3>1, <3>2, <3>3
  <2>3. /\ 2 * Frames(c) <= (Len(b) - 2 * f) + Len(r)
        /\ (Len(b) - 2 * f) + Len(r) < 2 * Frames(c) + 2
    BY <1>3, <1>5
  <2> QED BY <2>1, <2>2, <2>3, Zenon
<1> DEFINE D == Decrypted(b) \o Decrypted(c)
<1>8. /\ D \in Seq(Units) /\ Len(D) = f + Frames(c)
      /\ \A i \in 1 .. f + Frames(c) :
           D[i] = IF i <= f THEN Decrypted(b)[i] ELSE Decrypted(c)[i - f]
  <2>1. /\ D \in Seq(Units) /\ Len(D) = Len(Decrypted(b)) + Len(Decrypted(c))
        /\ \A i \in 1 .. Len(Decrypted(b)) + Len(Decrypted(c)) :
             D[i] = IF i <= Len(Decrypted(b)) THEN Decrypted(b)[i]
                      ELSE Decrypted(c)[i - Len(Decrypted(b))]
    <3>1. Decrypted(b) \in Seq(Units) /\ Decrypted(c) \in Seq(Units)
      BY <1>1, <1>5
    <3> QED BY <3>1, ConcatProperties
  <2> QED BY <1>1, <1>5, <2>1
<1> HIDE DEF D
<1>9. ASSUME NEW i \in 1 .. Frames(s) PROVE Decrypted(s)[i] = D[i]
  <2>1. Decrypted(s)[i] = s[2 * i]
    BY <1>6
  <2>2. CASE i <= f
    <3>1. i \in 1 .. f
      BY <1>1, <1>6, <2>2
    <3>2. D[i] = Decrypted(b)[i]
      BY <1>7, <1>8, <2>2
    <3>3. s[2 * i] = b[2 * i]
      BY <1>1, <1>2, <3>1 DEF s
    <3> QED BY <1>1, <2>1, <3>1, <3>2, <3>3
  <2>3. CASE ~(i <= f)
    <3>1. i - f \in 1 .. Frames(c) /\ 2 * f + 2 * (i - f) = 2 * i
      BY <1>1, <1>5, <1>6, <1>7, <2>3
    <3>2. D[i] = Decrypted(c)[i - f]
      BY <1>7, <1>8, <2>3
    <3>3. Decrypted(c)[i - f] = c[2 * (i - f)] /\ 2 * (i - f) \in 1 .. Len(c)
      BY <1>5, <3>1
    <3>4. c[2 * (i - f)] = s[2 * f + 2 * (i - f)]
      BY <1>4, <3>3
    <3> QED BY <2>1, <3>1, <3>2, <3>3, <3>4
  <2> QED BY <2>2, <2>3
<1>10. Decrypted(s) = D
  BY <1>6, <1>7, <1>8, <1>9, SeqEqual
<1> QED BY <1>10 DEF s, c, D

-----------------------------------------------------------------------------
(* The inductive invariant.                                                *)

(* What the client has still to take apart: the units it has buffered, and *)
(* those on their way. *)
Stream == buffer \o toClient
Text == IF encrypted THEN plaintext \o Decrypted(Stream) ELSE Stream

(* A request goes by its name, and the posts are counted. *)
Counted ==
  /\ waiting => pc \in Labels
  /\ feedback < MaxFeedback \/ pc = "over"

(* The waiters stand in line, and the last of them is the current one's    *)
(* until it has its reply: the others are of requests that timed out.      *)
Lines ==
  /\ \A i, j \in 1 .. Len(waiters) : i < j => waiters[i] < waiters[j]
  /\ waiting /\ reply = NoReply => waiters # <<>> /\ waiters[Len(waiters)] = asked
  /\ waiting /\ reply # NoReply => \A i \in 1 .. Len(waiters) : waiters[i] # asked
  /\ ~waiting => reply = NoReply
  /\ Len(waiters) <= timeouts + (IF waiting /\ reply = NoReply THEN 1 ELSE 0)

(* Nothing but the order tells whose an answer is, and no answer can come  *)
(* to a request after its own: the waiter in any place is of the message   *)
(* that will come to it, or of an earlier one. *)
Matched ==
  link = "up" =>
    /\ ready = <<>>
    /\ Len(Whole(Text)) + Len(toPeer) <= Len(waiters)
    /\ unanswered = {} => Len(Whole(Text)) + Len(toPeer) = Len(waiters)
    /\ \A k \in 1 .. Len(Whole(Text)) : waiters[k] <= Whole(Text)[k].n
    /\ \A k \in 1 .. Len(toPeer) : waiters[Len(Whole(Text)) + k] <= toPeer[k].n
    /\ reply \in Answers => reply.n = asked
    /\ \A i \in 1 .. Len(Text) : Text[i].a.n <= asked

(* What is on its way to the receiver has been asked. *)
Owed ==
  /\ \A k \in 1 .. Len(toPeer) : toPeer[k].n \in 1 .. asked /\ toPeer[k].what \in Labels
  /\ link # "up" => toPeer = <<>>

(* No whole frame and no whole message stays in a buffer. *)
Leftover ==
  IF encrypted THEN Len(buffer) < 2 /\ Ends(plaintext) = {}
               ELSE Ends(buffer) = {} /\ plaintext = <<>>

(* Messages come one after the other, the last one to its end unless the   *)
(* connection has failed. *)
Boundary == Tiled(Text) /\ (link = "up" => Complete(Text))

(* The counter after a message. *)
After(m) == m.nonces[1] + PartsOf(m.what)

(* Once encryption is on at the client it is at the receiver, and the      *)
(* frames on their way, in both directions, are counted from what the one  *)
(* end expects to what the other will use next. *)
Incoming ==
  encrypted =>
    /\ peerEncrypted
    /\ \A j \in 1 .. Len(Stream) : Stream[j].nonce = readNonce + ((j - 1) \div 2)
    /\ link = "up" => Len(Stream) % 2 = 0 /\ peerWrite = readNonce + (Len(Stream) \div 2)

Outgoing ==
  encrypted =>
    /\ link = "up" /\ toPeer = <<>> => peerRead = writeNonce
    /\ toPeer # <<>> => toPeer[1].nonces[1] = peerRead /\ After(toPeer[Len(toPeer)]) = writeNonce
    /\ \A k \in 1 .. Len(toPeer) :
         /\ toPeer[k].nonces = Nonces(toPeer[k].what, toPeer[k].nonces[1])
         /\ k > 1 => toPeer[k].nonces[1] = After(toPeer[k - 1])

(* The receiver turns encryption on with the answer after which the client *)
(* does, and only an answer after which it does may hold an Error. *)
Agreed(status) ==
  /\ peerEncrypted = (TurnsOn(status) /\ ~declined)
  /\ declined => TurnsOn(status)

Quiet == toPeer = <<>> /\ Stream = <<>> /\ waiters = <<>> /\ ready = <<>>

Asking ==
  /\ reply = NoReply /\ waiters = <<asked>> /\ ready = <<>> /\ Stream = <<>>
  /\ link = "up" => ~peerEncrypted

Answering ==
  /\ reply = NoReply /\ waiters = <<asked>> /\ ready = <<>> /\ toPeer = <<>>
  /\ Stream # <<>>
  /\ \A i \in 1 .. Len(Stream) : Stream[i].a = Stream[1].a /\ Stream[i].part = i
  /\ Agreed(Stream[1].a.status)

(* Until then there is one request at a time, and one that fails is the    *)
(* last. *)
Plain ==
  ~encrypted =>
    /\ writeNonce = 0 /\ readNonce = 0 /\ peerWrite = 0 /\ peerRead = 0
    /\ pc \in Verify \cup {"auth-setup", "failed"}
    /\ Len(toPeer) <= 1
    /\ \A k \in 1 .. Len(toPeer) : toPeer[k].nonces = <<>>
    /\ toPeer # <<>> => ~peerEncrypted /\ ~declined
    /\ pc # "failed" /\ ~waiting => Quiet /\ ~peerEncrypted /\ ~declined
    /\ pc # "failed" /\ waiting =>
         \/ Asking
         \/ Answering
         \/ reply \in Answers /\ Quiet /\ Agreed(reply.status)
         \/ reply = FailedReply

(* Where the two ends share a session, pair-verify is over and not turned  *)
(* down. *)
Past ==
  encrypted =>
    /\ ~declined /\ pc \notin Verify \cup {"auth-setup"}
    /\ \A k \in 1 .. Len(toPeer) : toPeer[k].what \notin Verify

(* The answer to the current request, wherever it is, tells what the       *)
(* receiver made of it. *)
Current ==
  link = "up" /\ waiting =>
    /\ \A i \in 1 .. Len(Text) : Text[i].a.n = asked /\ Text[i].a.status = 200 => pc \in accepted
    /\ \A k \in 1 .. Len(toPeer) : toPeer[k].n = asked => toPeer[k].what = pc
    /\ reply \in Answers /\ reply.status = 200 => pc \in accepted

SetUp == {"SETUP NTP", "SETUP remote"} \cap accepted # {}
Inserted == "insert" \in accepted

(* The player goes on as far as the receiver has accepted. *)
Progress ==
  /\ link = "up" /\ pc = "RECORD" => SetUp
  /\ link = "up" /\ pc \in {"dateRange", "itemEnd", "setRate"} => Inserted
  /\ \A k \in 1 .. Len(toPeer) : /\ toPeer[k].what = "RECORD" => SetUp
                                 /\ toPeer[k].what = "setRate" => Inserted

Ind ==
  /\ TypeOK /\ Counted /\ Lines /\ Matched /\ Owed /\ Leftover /\ Boundary
  /\ Incoming /\ Outgoing /\ Plain /\ Past /\ Current /\ Progress
  /\ OwnAnswer /\ FramesOpen /\ NothingUnasked

(* When the player takes a refusal for success it goes on alone: nothing   *)
(* it asks can be opened, and nothing comes back. *)
Deaf ==
  /\ TypeOK /\ Counted /\ Lines /\ Owed /\ OwnAnswer /\ NothingUnasked
  /\ declined /\ encrypted /\ ~peerEncrypted
  /\ toClient = <<>> /\ ready = <<>> /\ reply \notin Answers
  /\ \A k \in 1 .. Len(toPeer) : toPeer[k].nonces # <<>>
  /\ link = "up" /\ waiting => toPeer # <<>>

-----------------------------------------------------------------------------

LEMMA Constants ==
  /\ NoReply \notin Answers /\ FailedReply \notin Answers /\ NoReply # FailedReply
  /\ MaxTimeouts \in Nat /\ MaxSilent \in Nat /\ MaxFeedback \in Nat /\ MaxFeedback > 0
  /\ Labels \subseteq Requests
  /\ \A what : PartsOf(what) \in 1 .. 2
BY HapHttpAssumption, AirPlayPlayAssumption DEF PartsOf

(* What the type invariant says of the values that are read below. *)
LEMMA Typed ==
  ASSUME TypeOK
  PROVE  /\ writeNonce \in Nat /\ readNonce \in Nat /\ peerWrite \in Nat /\ peerRead \in Nat
         /\ asked \in Nat /\ timeouts \in Nat /\ feedback \in Nat
         /\ buffer \in Seq(Units) /\ plaintext \in Seq(Units) /\ toClient \in Seq(Units)
         /\ waiters \in Seq(1 .. asked) /\ ready \in Seq(Answers) /\ toPeer \in Seq(Messages)
         /\ Len(waiters) \in Nat /\ Len(toPeer) \in Nat /\ Len(buffer) \in Nat
         /\ Len(toClient) \in Nat
<1>1. /\ writeNonce \in Nat /\ readNonce \in Nat /\ peerWrite \in Nat /\ peerRead \in Nat
      /\ asked \in Nat /\ timeouts \in Nat
      /\ buffer \in Seq(Units) /\ plaintext \in Seq(Units) /\ toClient \in Seq(Units)
      /\ waiters \in Seq(1 .. asked) /\ ready \in Seq(Answers) /\ toPeer \in Seq(Messages)
  BY Constants DEF TypeOK, HapTypeOK
<1>2. feedback \in Nat
  BY Constants DEF TypeOK
<1> QED BY <1>1, <1>2

(* What has not been taken apart, and in it the messages. *)
LEMMA Reading ==
  ASSUME TypeOK
  PROVE  /\ Stream \in Seq(Units) /\ Len(Stream) = Len(buffer) + Len(toClient)
         /\ Decrypted(Stream) \in Seq(Units)
         /\ Text \in Seq(Units) /\ Len(Text) \in Nat
         /\ Whole(Text) \in Seq(Answers) /\ Len(Whole(Text)) \in Nat
         /\ \A k \in 1 .. Len(Whole(Text)) : \E i \in 1 .. Len(Text) : Whole(Text)[k] = Text[i].a
<1>1. Stream \in Seq(Units) /\ Len(Stream) = Len(buffer) + Len(toClient)
  BY Typed DEF Stream
<1>2. Decrypted(Stream) \in Seq(Units)
  BY <1>1, FramesOf
<1>3. Text \in Seq(Units)
  BY <1>1, <1>2, Typed DEF Text
<1>4. /\ Whole(Text) \in Seq(Answers)
      /\ \A e \in Ends(Text) : Whole(Text)[Rank(Text, e)] = Text[e].a
      /\ \A k \in 1 .. Len(Whole(Text)) : \E e \in Ends(Text) : Rank(Text, e) = k
  BY <1>3, WholeNumbered
<1>5. Ends(Text) \in SUBSET (1 .. Len(Text))
  BY <1>3, EndsFinite
<1>6. Len(Text) \in Nat
  BY <1>3
<1>7. Len(Whole(Text)) \in Nat
  BY <1>4
<1>8. ASSUME NEW k \in 1 .. Len(Whole(Text))
      PROVE  \E i \in 1 .. Len(Text) : Whole(Text)[k] = Text[i].a
  <2>1. PICK e \in Ends(Text) : Rank(Text, e) = k
    BY <1>4
  <2>2. Whole(Text)[k] = Text[e].a /\ e \in 1 .. Len(Text)
    BY <1>4, <1>5, <2>1
  <2> QED BY <2>2
<1> QED BY <1>1, <1>2, <1>3, <1>4, <1>6, <1>7, <1>8

LEMMA EmptyText ==
  ASSUME TypeOK, Leftover, Stream = <<>>, ~encrypted \/ plaintext = <<>>
  PROVE  /\ plaintext = <<>> /\ plaintext \o Decrypted(Stream) = <<>>
         /\ Text = <<>> /\ Len(Whole(<<>>)) = 0 /\ buffer = <<>> /\ toClient = <<>>
<1>1. plaintext = <<>>
  BY DEF Leftover
<1>2. Len(buffer) + Len(toClient) = 0
  BY Reading
<1>3. buffer = <<>> /\ toClient = <<>>
  BY <1>2, Typed
<1>4. <<>> \in Seq(Units) /\ Len(<<>>) = 0
  OBVIOUS
<1>5. Frames(<<>>) = 0
  BY <1>4 DEF Frames
<1>6. Decrypted(<<>>) \in Seq(Units) /\ Len(Decrypted(<<>>)) = 0
  BY <1>4, <1>5, FramesOf
<1>7. Decrypted(<<>>) = <<>>
  BY <1>6
<1>8. plaintext \o Decrypted(Stream) = <<>>
  BY <1>1, <1>7
<1>9. Ends(<<>>) = {}
  BY <1>4 DEF Ends
<1>10. Len(Whole(<<>>)) = 0
  BY <1>4, <1>9, WholeNumbered, FS_EmptySet
<1> QED BY <1>1, <1>3, <1>8, <1>10 DEF Text

LEMMA Followed ==
  ASSUME TypeOK, Counted, pc \in Labels, NEW status, Goes(status)
  PROVE  /\ pc' \in Labels \cup {"failed", "over"}
         /\ feedback' \in 0 .. MaxFeedback
         /\ feedback' < MaxFeedback \/ pc' = "over"
         /\ UNCHANGED <<kind, receiver>>
<1>1. feedback \in Nat /\ feedback < MaxFeedback /\ MaxFeedback \in Nat
  BY Constants, Typed DEF Counted, Labels, Verify
<1>2. pc' = Following(status) /\ UNCHANGED <<kind, receiver>>
      /\ feedback' = IF pc = "feedback" THEN feedback + 1 ELSE feedback
  BY DEF Goes
<1>3. CASE pc = "feedback"
  <2>1. pc' = IF feedback + 1 < MaxFeedback THEN "feedback" ELSE "over"
    BY <1>2, <1>3 DEF Following
  <2> QED BY <1>1, <1>2, <1>3, <2>1 DEF Labels
<1>4. CASE pc # "feedback"
  <2>1. pc' \in Labels \cup {"failed", "over"}
    BY <1>2, <1>4 DEF Following, AfterAuth, FirstEncrypted, AfterSetup, AfterInsert, Labels, Verify
  <2> QED BY <1>1, <1>2, <1>4, <2>1
<1> QED BY <1>3, <1>4

-----------------------------------------------------------------------------
(* What comes after pair-verify does not lead back to it. *)
LEMMA Onward ==
  ASSUME NEW status, pc \in Labels, pc' = Following(status),
         pc \notin Verify \cup {"auth-setup"} \/ TurnsOn(status)
  PROVE  pc' \notin Verify \cup {"auth-setup"}
<1>1. CASE pc = "auth-setup"
  <2>1. pc' = IF status = 0 THEN "failed" ELSE AfterAuth(kind)
    BY <1>1 DEF Following
  <2>2. kind.transient
    BY <1>1 DEF TurnsOn, Verify
  <2> QED BY <2>1, <2>2 DEF AfterAuth, FirstEncrypted, Verify
<1>2. CASE pc = "verify M3"
  <2>1. pc' = IF status = 200 THEN FirstEncrypted(kind) ELSE "failed"
    BY <1>2 DEF Following
  <2> QED BY <2>1 DEF FirstEncrypted, Verify
<1>3. CASE pc \notin {"auth-setup", "verify M3"}
  <2>1. pc \in Labels \ {"auth-setup", "verify M3", "verify M1"}
    BY <1>3 DEF TurnsOn, Verify
  <2> QED BY <2>1 DEF Following, AfterSetup, AfterInsert, Labels, Verify
<1> QED BY <1>1, <1>2, <1>3

-----------------------------------------------------------------------------
(* request: what is asked is the last to be answered. *)

LEMMA Wider ==
  ASSUME NEW S, NEW R, \A x \in S : x \in R, NEW s \in Seq(S)
  PROVE  s \in Seq(R)
<1>1. Len(s) \in Nat /\ s \in [1 .. Len(s) -> S]
  BY LenProperties
<1>2. s \in [1 .. Len(s) -> R]
  BY <1>1
<1> QED BY <1>1, <1>2, SeqDef

LEMMA IssueKeepsLines ==
  ASSUME TypeOK, Counted, Lines, Owed, pc \in Labels, Issue(pc), UNCHANGED <<script, receiver>>
  PROVE  /\ TypeOK' /\ Counted' /\ Lines' /\ Owed'
         /\ waiters' \in Seq(1 .. asked') /\ Len(waiters') = Len(waiters) + 1
         /\ \A i \in 1 .. Len(waiters) : waiters'[i] = waiters[i]
         /\ Len(toPeer') \in Nat
         /\ link = "up" => Len(toPeer') = Len(toPeer) + 1
         /\ link # "up" => toPeer' = <<>>
         /\ \A i \in 1 .. Len(toPeer) : toPeer'[i] = toPeer[i]
         /\ link = "up" => toPeer'[Len(toPeer) + 1] =
              [n |-> asked + 1, what |-> pc,
               nonces |-> IF encrypted THEN Nonces(pc, writeNonce) ELSE <<>>]
<1>1. TypeOK /\ Counted /\ Lines /\ Owed
  OBVIOUS
<1>0. /\ asked \in Nat /\ timeouts \in Nat /\ writeNonce \in Nat /\ readNonce \in Nat
      /\ peerWrite \in Nat /\ peerRead \in Nat
      /\ Len(waiters) \in Nat /\ Len(toPeer) \in Nat
      /\ PartsOf(pc) \in 1 .. 2
  BY <1>1, Typed, Constants
<1>2. /\ ~waiting /\ waiting' = TRUE /\ reply' = NoReply /\ ready = <<>> /\ asked' = asked + 1
      /\ waiters' = Append(waiters, asked + 1)
      /\ writeNonce' = IF encrypted THEN writeNonce + PartsOf(pc) ELSE writeNonce
      /\ UNCHANGED <<encrypted, readNonce, buffer, plaintext, ready, last, toClient, link,
                     peerEncrypted, peerWrite, peerRead, timeouts, unanswered, forged,
                     kind, pc, feedback, heard, accepted, declined>>
  BY DEF Issue, script, receiver, peer, counters
<1>3. waiters \in Seq(1 .. asked') /\ asked + 1 \in 1 .. asked'
      /\ \A i \in 1 .. Len(waiters) : waiters[i] \in 1 .. asked
  <2>1. waiters \in Seq(1 .. asked)
    BY <1>1, Typed
  <2>2. asked + 1 \in 1 .. asked'
    BY <1>0, <1>2
  <2>3. \A i \in 1 .. Len(waiters) : waiters[i] \in 1 .. asked
    BY <2>1, ElementOfSeq
  <2>4. \A x \in 1 .. asked : x \in 1 .. asked'
    BY <1>0, <1>2
  <2>5. waiters \in Seq(1 .. asked')
    BY <2>1, <2>4, Wider
  <2> QED BY <2>2, <2>3, <2>5
<1>4. /\ waiters' \in Seq(1 .. asked') /\ Len(waiters') = Len(waiters) + 1
      /\ \A i \in 1 .. Len(waiters) : waiters'[i] = waiters[i]
      /\ waiters'[Len(waiters) + 1] = asked + 1
  BY <1>2, <1>3, AppendProperties
<1> DEFINE m == [n |-> asked + 1, what |-> pc,
                 nonces |-> IF encrypted THEN Nonces(pc, writeNonce) ELSE <<>>]
<1>5. m \in Messages
  <2>1. Nonces(pc, writeNonce) \in Seq(Nat)
    <3>1. \A i \in 1 .. PartsOf(pc) : writeNonce + i - 1 \in Nat
      BY <1>0
    <3>2. PartsOf(pc) \in Nat
      BY <1>0
    <3> QED BY <3>1, <3>2 DEF Nonces
  <2>2. (IF encrypted THEN Nonces(pc, writeNonce) ELSE <<>>) \in Seq(Nat)
    BY <2>1
  <2>3. pc \in Requests
    BY Constants
  <2> HIDE DEF m
  <2>4. ASSUME NEW x \in Nat, NEW y \in Requests, NEW z \in Seq(Nat)
        PROVE  [n |-> x, what |-> y, nonces |-> z] \in Messages
    BY <2>4 DEF Messages
  <2>5. asked + 1 \in Nat
    BY <1>0
  <2> QED BY <2>2, <2>3, <2>4, <2>5 DEF m
<1>6. toPeer' = IF link = "up" THEN Append(toPeer, m) ELSE toPeer
  BY DEF Issue
<1> HIDE DEF m
<1>7. /\ toPeer' \in Seq(Messages) /\ Len(toPeer') \in Nat
      /\ \A i \in 1 .. Len(toPeer) : toPeer'[i] = toPeer[i]
      /\ link = "up" => Len(toPeer') = Len(toPeer) + 1 /\ toPeer'[Len(toPeer) + 1] = m
      /\ link # "up" => toPeer' = <<>>
  <2>1. CASE link = "up"
    BY <1>0, <1>1, <1>5, <1>6, <2>1, Typed, AppendProperties
  <2>2. CASE link # "up"
    BY <1>0, <1>1, <1>6, <2>2, Typed DEF Owed
  <2> QED BY <2>1, <2>2
<1>8. Lines'
  <2>1. \A i, j \in 1 .. Len(waiters') : i < j => waiters'[i] < waiters'[j]
    <3>1. ASSUME NEW i \in 1 .. Len(waiters'), NEW j \in 1 .. Len(waiters'), i < j
          PROVE  waiters'[i] < waiters'[j]
      <4>1. i \in 1 .. Len(waiters) /\ waiters'[i] = waiters[i] /\ waiters[i] \in 1 .. asked
        BY <1>0, <1>3, <1>4, <3>1
      <4>2. CASE j \in 1 .. Len(waiters)
        BY <1>0, <1>1, <1>4, <3>1, <4>1, <4>2 DEF Lines
      <4>3. CASE j = Len(waiters) + 1
        BY <1>0, <1>1, <1>4, <4>1, <4>3
      <4> QED BY <1>0, <1>1, <1>4, <4>2, <4>3
    <3> QED BY <3>1
  <2>2. waiters' # <<>> /\ waiters'[Len(waiters')] = asked'
    BY <1>0, <1>1, <1>2, <1>4
  <2>3. Len(waiters) <= timeouts
    BY <1>0, <1>1, <1>2 DEF Lines
  <2>4. Len(waiters') <= timeouts' + 1
    BY <1>0, <1>1, <1>2, <1>4, <2>3
  <2> QED BY <1>2, <2>1, <2>2, <2>4 DEF Lines
<1>9. Owed'
  <2>1. ASSUME NEW k \in 1 .. Len(toPeer')
        PROVE  toPeer'[k].n \in 1 .. asked' /\ toPeer'[k].what \in Labels
    <3>1. CASE k \in 1 .. Len(toPeer)
      <4>1. toPeer[k].n \in 1 .. asked /\ toPeer[k].what \in Labels
        BY <1>0, <1>1, <3>1 DEF Owed
      <4>2. toPeer'[k] = toPeer[k]
        BY <1>7, <3>1
      <4>3. asked \in Nat /\ asked' = asked + 1
        BY <1>0, <1>2
      <4> QED BY <4>1, <4>2, <4>3
    <3>2. CASE k \notin 1 .. Len(toPeer)
      <4>1. toPeer'[k] = m
        BY <1>0, <1>1, <1>7, <2>1, <3>2
      <4> QED BY <1>0, <1>1, <1>2, <4>1 DEF m
    <3> QED BY <3>1, <3>2
  <2> QED BY <1>2, <1>7, <2>1 DEF Owed
<1>10. TypeOK'
  <2>1. Len(waiters') <= timeouts' + (IF waiting' THEN 1 ELSE 0)
    BY <1>2, <1>8 DEF Lines
  <2>2. {writeNonce', readNonce', peerWrite', peerRead', asked'} \subseteq Nat
    BY <1>0, <1>1, <1>2
  <2>3. unanswered' \subseteq 1 .. asked' /\ Cardinality(unanswered') <= MaxSilent
    <3>1. unanswered \subseteq 1 .. asked /\ Cardinality(unanswered) <= MaxSilent
      BY <1>1 DEF TypeOK, HapTypeOK
    <3> QED BY <1>0, <1>1, <1>2, <3>1
  <2>4. HapTypeOK'
    BY <1>0, <1>1, <1>2, <1>4, <1>7, <2>1, <2>2, <2>3 DEF TypeOK, HapTypeOK
  <2> QED BY <1>0, <1>1, <1>2, <2>4 DEF TypeOK
<1>11. Counted'
  BY <1>0, <1>1, <1>2 DEF Counted
<1> QED BY <1>4, <1>7, <1>8, <1>9, <1>10, <1>11 DEF m

LEMMA IssueKeeps ==
  ASSUME Ind, pc \in Labels, Issue(pc), UNCHANGED <<script, receiver>>
  PROVE  Ind'
<1>1. /\ TypeOK /\ Counted /\ Lines /\ Matched /\ Owed /\ Leftover /\ Boundary
      /\ Incoming /\ Outgoing /\ Plain /\ Past /\ Current /\ Progress
      /\ OwnAnswer /\ FramesOpen /\ NothingUnasked
  BY DEF Ind
<1>0. /\ asked \in Nat /\ timeouts \in Nat /\ writeNonce \in Nat /\ readNonce \in Nat
      /\ peerWrite \in Nat /\ peerRead \in Nat
      /\ Len(waiters) \in Nat /\ Len(toPeer) \in Nat
      /\ PartsOf(pc) \in 1 .. 2
  BY <1>1, Typed, Constants
<1>2. /\ ~waiting /\ waiting' = TRUE /\ reply' = NoReply /\ ready = <<>> /\ asked' = asked + 1
      /\ waiters' = Append(waiters, asked + 1)
      /\ writeNonce' = IF encrypted THEN writeNonce + PartsOf(pc) ELSE writeNonce
      /\ UNCHANGED <<encrypted, readNonce, buffer, plaintext, ready, last, toClient, link,
                     peerEncrypted, peerWrite, peerRead, timeouts, unanswered, forged,
                     kind, pc, feedback, heard, accepted, declined>>
  BY DEF Issue, script, receiver, peer, counters
<1>3. /\ TypeOK' /\ Counted' /\ Lines' /\ Owed'
      /\ waiters' \in Seq(1 .. asked') /\ Len(waiters') = Len(waiters) + 1
      /\ \A i \in 1 .. Len(waiters) : waiters'[i] = waiters[i]
      /\ Len(toPeer') \in Nat
      /\ link = "up" => Len(toPeer') = Len(toPeer) + 1
      /\ link # "up" => toPeer' = <<>>
      /\ \A i \in 1 .. Len(toPeer) : toPeer'[i] = toPeer[i]
      /\ link = "up" => toPeer'[Len(toPeer) + 1] =
           [n |-> asked + 1, what |-> pc,
            nonces |-> IF encrypted THEN Nonces(pc, writeNonce) ELSE <<>>]
  BY <1>1, IssueKeepsLines
<1>4. Stream' = Stream /\ Text' = Text
  BY <1>2 DEF Stream, Text
<1>5. Len(Whole(Text)) \in Nat /\ Text \in Seq(Units) /\ Stream \in Seq(Units)
  BY <1>0, <1>1, Reading
<1>6. \A k \in 1 .. Len(toPeer') : k \in 1 .. Len(toPeer) \/ (link = "up" /\ k = Len(toPeer) + 1)
  BY <1>0, <1>1, <1>3
<1>7. Matched'
  <2> SUFFICES ASSUME link = "up" PROVE Matched'
    BY <1>2 DEF Matched
  <2>1. /\ Len(Whole(Text)) + Len(toPeer) <= Len(waiters)
        /\ unanswered = {} => Len(Whole(Text)) + Len(toPeer) = Len(waiters)
        /\ \A k \in 1 .. Len(Whole(Text)) : waiters[k] <= Whole(Text)[k].n
        /\ \A k \in 1 .. Len(toPeer) : waiters[Len(Whole(Text)) + k] <= toPeer[k].n
        /\ \A i \in 1 .. Len(Text) : Text[i].a.n <= asked
    BY <1>1 DEF Matched
  <2> DEFINE w == Len(Whole(Text))
  <2>6. /\ w \in Nat /\ Len(waiters) \in Nat /\ Len(toPeer) \in Nat
        /\ Len(waiters') = Len(waiters) + 1 /\ Len(toPeer') = Len(toPeer) + 1
        /\ w + Len(toPeer) <= Len(waiters)
        /\ unanswered' = unanswered
        /\ unanswered = {} => w + Len(toPeer) = Len(waiters)
    BY <1>0, <1>2, <1>3, <1>5, <2>1
  <2>2. /\ w + Len(toPeer') <= Len(waiters')
        /\ unanswered' = {} => w + Len(toPeer') = Len(waiters')
    BY <2>6
  <2>3. ASSUME NEW k \in 1 .. w PROVE waiters'[k] <= Whole(Text)[k].n
    <3>1. k \in 1 .. Len(waiters)
      BY <2>6
    <3>2. waiters'[k] = waiters[k] /\ waiters[k] <= Whole(Text)[k].n
      BY <1>3, <2>1, <3>1
    <3> QED BY <3>2
  <2>4. ASSUME NEW k \in 1 .. Len(toPeer')
        PROVE  waiters'[w + k] <= toPeer'[k].n
    <3>2. CASE k \in 1 .. Len(toPeer)
      <4>1. w + k \in 1 .. Len(waiters)
        BY <2>6, <3>2
      <4>2. waiters'[w + k] = waiters[w + k] /\ toPeer'[k] = toPeer[k]
            /\ waiters[w + k] <= toPeer[k].n
        BY <1>3, <2>1, <3>2, <4>1
      <4> QED BY <4>2
    <3>3. CASE k = Len(toPeer) + 1
      <4>1. w + k \in 1 .. Len(waiters')
        BY <2>2, <2>6
      <4>2. waiters'[w + k] \in 1 .. asked'
        <5>1. waiters' \in Seq(1 .. asked')
          BY <1>3
        <5> QED BY <4>1, <5>1, ElementOfSeq
      <4>3. toPeer'[k].n = asked'
        BY <1>2, <1>3, <3>3
      <4>4. \A x \in 1 .. asked' : x <= asked'
        BY <1>0, <1>2
      <4> QED BY <4>2, <4>3, <4>4
    <3> QED BY <1>6, <3>2, <3>3
  <2>5. \A i \in 1 .. Len(Text) : Text[i].a.n <= asked'
    <3>1. \A i \in 1 .. Len(Text) : Text[i].a.n \in Nat
      <4>1. \A i \in 1 .. Len(Text) : Text[i] \in Units
        BY <1>5
      <4> QED BY <4>1, UnitTypes
    <3>2. asked \in Nat /\ asked' = asked + 1
      BY <1>0, <1>2
    <3>3. \A i \in 1 .. Len(Text) : Text[i].a.n <= asked
      BY <2>1
    <3>4. \A x \in Nat : x <= asked => x <= asked'
      BY <3>2
    <3> QED BY <3>1, <3>3, <3>4
  <2>7. reply' \notin Answers /\ ready' = <<>>
    BY <1>2, Constants
  <2> HIDE DEF w
  <2>8. Len(Whole(Text')) = w /\ Whole(Text') = Whole(Text)
    BY <1>4 DEF w
  <2> QED BY <1>4, <2>2, <2>3, <2>4, <2>5, <2>7, <2>8 DEF Matched
<1>8. Leftover' /\ Boundary' /\ Incoming'
  <2>1. Leftover'
    BY <1>0, <1>1, <1>2 DEF Leftover
  <2>2. Boundary'
    BY <1>0, <1>1, <1>2, <1>4 DEF Boundary
  <2>3. Incoming'
    BY <1>0, <1>1, <1>2, <1>4 DEF Incoming
  <2> QED BY <2>1, <2>2, <2>3
<1>9. Outgoing'
  <2> SUFFICES ASSUME encrypted PROVE Outgoing'
    BY <1>2 DEF Outgoing
  <2>1. CASE link # "up"
    BY <1>2, <1>3, <2>1 DEF Outgoing
  <2>2. CASE link = "up"
    <3> DEFINE l == Len(toPeer)
    <3>1. /\ toPeer'[l + 1].nonces = Nonces(pc, writeNonce) /\ toPeer'[l + 1].what = pc
          /\ Len(toPeer') = l + 1 /\ toPeer' # <<>> /\ l \in Nat
      BY <1>0, <1>1, <1>3, <2>2
    <3>2. Nonces(pc, writeNonce)[1] = writeNonce
      <4>1. 1 \in 1 .. PartsOf(pc) /\ writeNonce + 1 - 1 = writeNonce
        BY <1>0, <1>1
      <4> QED BY <4>1 DEF Nonces
    <3>3. After(toPeer'[l + 1]) = writeNonce' /\ toPeer'[l + 1].nonces[1] = writeNonce
      BY <1>2, <3>1, <3>2 DEF After
    <3>4. /\ toPeer = <<>> => peerRead = writeNonce
          /\ toPeer # <<>> => toPeer[1].nonces[1] = peerRead /\ After(toPeer[l]) = writeNonce
          /\ \A k \in 1 .. l : /\ toPeer[k].nonces = Nonces(toPeer[k].what, toPeer[k].nonces[1])
                               /\ k > 1 => toPeer[k].nonces[1] = After(toPeer[k - 1])
      BY <1>0, <1>1, <2>2 DEF Outgoing
    <3>5. toPeer'[1].nonces[1] = peerRead
      <4>1. CASE toPeer = <<>>
        <5>1. l + 1 = 1
          BY <4>1
        <5> QED BY <3>3, <3>4, <4>1, <5>1
      <4>2. CASE toPeer # <<>>
        <5>1. 1 \in 1 .. l
          BY <1>0, <1>1, <4>2
        <5> QED BY <1>3, <3>4, <4>2, <5>1
      <4> QED BY <4>1, <4>2
    <3>6. ASSUME NEW k \in 1 .. l + 1
          PROVE  /\ toPeer'[k].nonces = Nonces(toPeer'[k].what, toPeer'[k].nonces[1])
                 /\ k > 1 => toPeer'[k].nonces[1] = After(toPeer'[k - 1])
      <4>1. CASE k \in 1 .. l
        <5>1. k > 1 => k - 1 \in 1 .. l
          BY <3>1
        <5> QED BY <1>3, <3>4, <4>1, <5>1
      <4>2. CASE k = l + 1
        <5>1. ASSUME k > 1 PROVE toPeer'[k].nonces[1] = After(toPeer'[k - 1])
          <6>1. k - 1 = l /\ l \in 1 .. l /\ toPeer # <<>>
            BY <3>1, <4>2, <5>1
          <6> QED BY <1>3, <3>3, <3>4, <4>2, <6>1
        <5> QED BY <3>1, <3>2, <4>2, <5>1
      <4> QED BY <3>1, <4>1, <4>2
    <3> HIDE DEF l
    <3> QED BY <1>2, <3>1, <3>3, <3>5, <3>6 DEF Outgoing
  <2> QED BY <2>1, <2>2
<1>10. Plain'
  <2> SUFFICES ASSUME ~encrypted PROVE Plain'
    BY <1>2 DEF Plain
  <2>1. pc # "failed"
    BY DEF Labels, Verify
  <2>2. /\ writeNonce = 0 /\ readNonce = 0 /\ peerWrite = 0 /\ peerRead = 0
        /\ pc \in Verify \cup {"auth-setup", "failed"}
        /\ toPeer = <<>> /\ Stream = <<>> /\ waiters = <<>> /\ ready = <<>> /\ ~peerEncrypted
        /\ ~declined
    BY <1>0, <1>1, <1>2, <2>1 DEF Plain, Quiet
  <2>3. Asking'
    BY <1>2, <1>4, <2>2 DEF Asking
  <2>4. Len(toPeer') <= 1 /\ \A k \in 1 .. Len(toPeer') : toPeer'[k].nonces = <<>>
    <3>1. Len(toPeer) = 0 /\ Len(toPeer') \in Nat
      BY <1>3, <2>2
    <3>2. \A k \in 1 .. Len(toPeer') : link = "up" /\ k = Len(toPeer) + 1
      BY <1>6, <3>1
    <3>3. Len(toPeer') <= 1
      <4>1. link = "up" => Len(toPeer') \in 0 .. 1
        BY <1>3, <3>1
      <4>2. link # "up" => Len(toPeer') \in 0 .. 1
        BY <1>3
      <4>3. Len(toPeer') \in 0 .. 1
        BY <4>1, <4>2
      <4>4. \A x \in 0 .. 1 : x <= 1
        OBVIOUS
      <4> QED BY <4>3, <4>4, Zenon
    <3> QED BY <1>3, <3>2, <3>3
  <2> QED BY <1>2, <2>2, <2>3, <2>4 DEF Plain
<1>11. Current'
  <2> SUFFICES ASSUME link = "up" PROVE Current'
    BY <1>2 DEF Current
  <2>1. \A i \in 1 .. Len(Text) : Text[i].a.n # asked'
    <3>1. \A i \in 1 .. Len(Text) : Text[i].a.n \in Nat /\ Text[i].a.n <= asked
      <4>1. \A i \in 1 .. Len(Text) : Text[i] \in Units
        BY <1>5
      <4> QED BY <1>1, <4>1, UnitTypes DEF Matched
    <3> QED BY <1>0, <1>1, <1>2, <3>1
  <2>2. ASSUME NEW k \in 1 .. Len(toPeer'), toPeer'[k].n = asked' PROVE toPeer'[k].what = pc'
    <3>1. k \notin 1 .. Len(toPeer)
      <4>1. ASSUME k \in 1 .. Len(toPeer) PROVE FALSE
        <5>1. toPeer[k].n \in 1 .. asked /\ toPeer'[k] = toPeer[k]
          BY <1>0, <1>1, <1>3, <4>1 DEF Owed
        <5> QED BY <1>0, <1>1, <1>2, <2>2, <5>1
      <4> QED BY <4>1
    <3> QED BY <1>2, <1>3, <1>6, <3>1
  <2>3. reply' \notin Answers
    BY <1>2, Constants
  <2> QED BY <1>2, <1>4, <2>1, <2>2, <2>3 DEF Current
<1>12. Progress'
  <2>1. SetUp' = SetUp /\ Inserted' = Inserted
    BY <1>2 DEF SetUp, Inserted
  <2>2. ASSUME NEW k \in 1 .. Len(toPeer')
        PROVE  /\ toPeer'[k].what = "RECORD" => SetUp
               /\ toPeer'[k].what = "setRate" => Inserted
    <3>1. CASE k \in 1 .. Len(toPeer)
      <4>1. toPeer'[k] = toPeer[k]
        BY <1>3, <3>1
      <4> QED BY <1>1, <3>1, <4>1 DEF Progress
    <3>2. CASE link = "up" /\ k = Len(toPeer) + 1
      <4>1. toPeer'[k].what = pc
        BY <1>3, <3>2
      <4> QED BY <1>1, <3>2, <4>1 DEF Progress
    <3> QED BY <1>6, <3>1, <3>2
  <2> QED BY <1>0, <1>1, <1>2, <2>1, <2>2 DEF Progress
<1>13. OwnAnswer' /\ FramesOpen' /\ NothingUnasked'
  BY <1>0, <1>1, <1>2 DEF OwnAnswer, FramesOpen, NothingUnasked
<1>14. Past'
  <2> SUFFICES ASSUME encrypted PROVE Past'
    BY <1>2 DEF Past
  <2>1. /\ ~declined /\ pc \notin Verify \cup {"auth-setup"}
        /\ \A k \in 1 .. Len(toPeer) : toPeer[k].what \notin Verify
    BY <1>1 DEF Past
  <2>2. ASSUME NEW k \in 1 .. Len(toPeer') PROVE toPeer'[k].what \notin Verify
    <3>1. CASE k \in 1 .. Len(toPeer)
      BY <1>3, <2>1, <3>1
    <3>2. CASE link = "up" /\ k = Len(toPeer) + 1
      <4>1. toPeer'[k].what = pc
        BY <1>3, <3>2
      <4> QED BY <2>1, <4>1
    <3> QED BY <1>6, <3>1, <3>2
  <2> QED BY <1>2, <2>1, <2>2 DEF Past
<1> QED BY <1>3, <1>7, <1>8, <1>9, <1>10, <1>11, <1>12, <1>13, <1>14 DEF Ind

(* An answer that nobody waited for comes of a connection that has failed. *)
LEMMA CachedKeeps ==
  ASSUME Ind, pc \in Labels, Cached, Goes(Head(ready).status)
  PROVE  Ind'
<1>1. /\ TypeOK /\ Counted /\ Lines /\ Matched /\ Owed /\ Leftover /\ Boundary
      /\ Incoming /\ Outgoing /\ Plain /\ Past /\ Current /\ Progress
      /\ OwnAnswer /\ FramesOpen /\ NothingUnasked
  BY DEF Ind
<1>2. /\ ~waiting /\ ready # <<>> /\ ready' = Tail(ready) /\ asked' = asked + 1
      /\ last' = [n |-> asked + 1, got |-> Head(ready).n]
      /\ UNCHANGED <<encrypted, writeNonce, readNonce, buffer, plaintext, waiters, waiting,
                     reply, toPeer, toClient, link, peerEncrypted, peerWrite, peerRead,
                     timeouts, unanswered, forged, kind, heard, accepted, declined>>
  BY DEF Cached, Goes, session, peer, counters, receiver
<1>3. link # "up"
  BY <1>1, <1>2 DEF Matched
<1>4. encrypted
  <2>1. pc # "failed"
    BY DEF Labels, Verify
  <2> QED BY <1>1, <1>2, <2>1 DEF Plain, Quiet
<1>5. toPeer = <<>> /\ Len(toPeer) = 0 /\ asked \in Nat
  BY <1>1, <1>3, Typed DEF Owed
<1>6. Stream' = Stream /\ Text' = Text
  BY <1>2 DEF Stream, Text
<1>7. /\ pc' \in Labels \cup {"failed", "over"} /\ feedback' \in 0 .. MaxFeedback
      /\ feedback' < MaxFeedback \/ pc' = "over"
  BY <1>1, Followed
<1>8. TypeOK'
  <2>1. ready \in Seq(Answers) /\ Head(ready) \in Answers /\ Tail(ready) \in Seq(Answers)
    BY <1>1, <1>2, Typed, HeadTailProperties
  <2>2. Head(ready).n \in Nat
    BY <2>1 DEF Answers
  <2>3. last' \in [n : Nat, got : Nat]
    BY <1>2, <1>5, <2>2
  <2>4. \A x \in 1 .. asked : x \in 1 .. asked'
    BY <1>2, <1>5
  <2>5. waiters \in Seq(1 .. asked) /\ unanswered \subseteq 1 .. asked
        /\ Len(waiters) <= timeouts + (IF waiting THEN 1 ELSE 0)
        /\ Cardinality(unanswered) <= MaxSilent
    BY <1>1 DEF TypeOK, HapTypeOK
  <2>6. waiters' \in Seq(1 .. asked') /\ unanswered' \subseteq 1 .. asked'
        /\ Len(waiters') <= timeouts' + (IF waiting' THEN 1 ELSE 0)
        /\ Cardinality(unanswered') <= MaxSilent
    BY <1>2, <2>4, <2>5, Wider
  <2>7. {writeNonce', readNonce', peerWrite', peerRead', asked'} \subseteq Nat
    BY <1>1, <1>2, <1>5, Typed
  <2>8. HapTypeOK'
    BY <1>1, <1>2, <2>1, <2>3, <2>6, <2>7 DEF TypeOK, HapTypeOK
  <2> QED BY <1>1, <1>2, <1>7, <2>8 DEF TypeOK
<1>9. Counted' /\ Lines'
  BY <1>1, <1>2, <1>7 DEF Counted, Lines
<1>10. Matched' /\ Owed' /\ Leftover' /\ Boundary'
  <2>1. Owed'
    BY <1>2, <1>5 DEF Owed
  <2>2. Boundary'
    BY <1>1, <1>2, <1>6 DEF Boundary
  <2> QED BY <1>1, <1>2, <1>3, <2>1, <2>2 DEF Matched, Leftover
<1>11. Incoming' /\ Outgoing'
  <2>1. Incoming'
    BY <1>1, <1>2, <1>6 DEF Incoming
  <2>2. Outgoing'
    BY <1>1, <1>2 DEF Outgoing
  <2> QED BY <2>1, <2>2
<1>12. Plain' /\ Current' /\ Progress'
  BY <1>2, <1>3, <1>4, <1>5 DEF Plain, Current, Progress
<1>13. OwnAnswer' /\ FramesOpen' /\ NothingUnasked'
  BY <1>1, <1>2, <1>3 DEF OwnAnswer, FramesOpen, NothingUnasked
<1>14. Past'
  <2>1. pc' = Following(Head(ready).status)
    BY DEF Goes
  <2>2. ~declined /\ pc \notin Verify \cup {"auth-setup"}
    BY <1>1, <1>4 DEF Past
  <2>3. pc' \notin Verify \cup {"auth-setup"}
    BY <2>1, <2>2, Onward
  <2> QED BY <1>2, <1>5, <2>2, <2>3 DEF Past
<1> QED BY <1>8, <1>9, <1>10, <1>11, <1>12, <1>13, <1>14 DEF Ind

(* However a request returns, nothing moves on the connection, and its     *)
(* waiter stays where it was. *)
LEMMA ReturnKeepsLines ==
  ASSUME TypeOK, Counted, Lines, waiting, NEW got \in Nat, Return(got), NEW status, Goes(status),
         UNCHANGED <<waiters, peer, unanswered>>,
         encrypted' \in BOOLEAN, timeouts' \in 0 .. MaxTimeouts,
         timeouts' = timeouts + 1 \/ (timeouts' = timeouts /\ reply # NoReply)
  PROVE  /\ TypeOK' /\ Counted' /\ Lines'
         /\ waiting' = FALSE /\ reply' = NoReply /\ last' = [n |-> asked, got |-> got]
         /\ UNCHANGED <<writeNonce, readNonce, buffer, plaintext, ready, asked, toPeer, toClient,
                        link, forged, waiters, peerEncrypted, peerWrite, peerRead, unanswered,
                        kind, heard, accepted, declined>>
<1>1. TypeOK /\ Counted /\ Lines
  OBVIOUS
<1>2. /\ waiting' = FALSE /\ reply' = NoReply /\ last' = [n |-> asked, got |-> got]
      /\ UNCHANGED <<writeNonce, readNonce, buffer, plaintext, ready, asked, toPeer, toClient,
                     link, forged, waiters, peerEncrypted, peerWrite, peerRead, unanswered,
                     kind, heard, accepted, declined>>
  BY DEF Return, Goes, peer, receiver
<1>3. pc \in Labels
  BY <1>1 DEF Counted
<1>4. /\ pc' \in Labels \cup {"failed", "over"} /\ feedback' \in 0 .. MaxFeedback
      /\ feedback' < MaxFeedback \/ pc' = "over"
  BY <1>1, <1>3, Followed
<1>5. Lines'
  <2>1. Len(waiters) <= timeouts + (IF reply = NoReply THEN 1 ELSE 0)
    BY <1>1 DEF Lines
  <2>2. Len(waiters) <= timeouts'
    <3>1. timeouts \in Nat /\ Len(waiters) \in Nat
      BY <1>1, Typed
    <3>2. Len(waiters) <= timeouts + 1
      BY <2>1, <3>1
    <3>3. reply # NoReply => Len(waiters) <= timeouts
      BY <2>1, <3>1
    <3> QED BY <3>2, <3>3
  <2>3. Len(waiters') <= timeouts' + 0
    <3>1. timeouts' \in Nat
      BY Constants
    <3> QED BY <1>2, <2>2, <3>1
  <2> QED BY <1>1, <1>2, <2>3 DEF Lines
<1>6. TypeOK'
  <2>1. last' \in [n : Nat, got : Nat]
    BY <1>1, <1>2, Typed
  <2>2. Len(waiters') <= timeouts' + (IF waiting' THEN 1 ELSE 0)
    BY <1>2, <1>5 DEF Lines
  <2>3. waiters' \in Seq(1 .. asked') /\ unanswered' \subseteq 1 .. asked'
        /\ Cardinality(unanswered') <= MaxSilent
    BY <1>1, <1>2 DEF TypeOK, HapTypeOK
  <2>4. {writeNonce', readNonce', peerWrite', peerRead', asked'} \subseteq Nat
    BY <1>1, <1>2, Typed
  <2>5. HapTypeOK'
    BY <1>1, <1>2, <2>1, <2>2, <2>3, <2>4 DEF TypeOK, HapTypeOK
  <2> QED BY <1>1, <1>2, <1>4, <2>5 DEF TypeOK
<1>7. Counted'
  BY <1>2, <1>4 DEF Counted
<1> QED BY <1>2, <1>5, <1>6, <1>7

LEMMA ReturnKeeps ==
  ASSUME Ind, waiting, NEW got \in Nat, Return(got), NEW status, Goes(status),
         UNCHANGED <<waiters, peer, unanswered>>, Text' = Text,
         encrypted' \in BOOLEAN, timeouts' \in 0 .. MaxTimeouts,
         timeouts' = timeouts + 1 \/ (timeouts' = timeouts /\ reply # NoReply),
         link = "up" => got \in {0, asked}
  PROVE  /\ TypeOK' /\ Counted' /\ Lines' /\ Matched' /\ Owed' /\ Boundary'
         /\ Current' /\ OwnAnswer' /\ FramesOpen' /\ NothingUnasked'
<1>1. /\ TypeOK /\ Counted /\ Lines /\ Matched /\ Owed /\ Leftover /\ Boundary
      /\ Incoming /\ Outgoing /\ Plain /\ Past /\ Current /\ Progress
      /\ OwnAnswer /\ FramesOpen /\ NothingUnasked
  BY DEF Ind
<1>2. /\ TypeOK' /\ Counted' /\ Lines'
      /\ waiting' = FALSE /\ reply' = NoReply /\ last' = [n |-> asked, got |-> got]
      /\ UNCHANGED <<writeNonce, readNonce, buffer, plaintext, ready, asked, toPeer, toClient,
                     link, forged, waiters, peerEncrypted, peerWrite, peerRead, unanswered,
                     kind, heard, accepted, declined>>
  BY <1>1, ReturnKeepsLines
<1>3. Matched'
  <2>1. reply' \notin Answers
    BY <1>2, Constants
  <2> QED BY <1>1, <1>2, <2>1 DEF Matched
<1>4. Owed' /\ Boundary' /\ Current'
  <2>1. Owed'
    BY <1>1, <1>2 DEF Owed
  <2>2. Boundary'
    BY <1>1, <1>2 DEF Boundary
  <2> QED BY <1>2, <2>1, <2>2 DEF Current
<1>5. OwnAnswer' /\ FramesOpen' /\ NothingUnasked'
  BY <1>1, <1>2 DEF OwnAnswer, FramesOpen, NothingUnasked
<1> QED BY <1>2, <1>3, <1>4, <1>5

(* After a request that was not accepted nothing is played. *)
LEMMA NotAccepted ==
  ASSUME NEW status, status # 200, pc \in Labels, pc' = Following(status)
  PROVE  /\ pc' # "RECORD"
         /\ pc' \in {"dateRange", "itemEnd", "setRate"} => pc \in {"dateRange", "itemEnd", "setRate"}
         /\ status = 0 /\ pc \in Verify \cup {"auth-setup"} => pc' = "failed"
BY DEF Following, AfterAuth, FirstEncrypted, AfterSetup, AfterInsert, Labels, Verify

LEMMA FailureKeeps ==
  ASSUME Ind, Failed \/ TimedOut, Goes(0)
  PROVE  Ind'
<1>1. /\ TypeOK /\ Counted /\ Lines /\ Matched /\ Owed /\ Leftover /\ Boundary
      /\ Incoming /\ Outgoing /\ Plain /\ Past /\ Current /\ Progress
      /\ OwnAnswer /\ FramesOpen /\ NothingUnasked
  BY DEF Ind
<1>2. /\ waiting /\ Return(0) /\ encrypted' = encrypted
      /\ UNCHANGED <<waiters, peer, unanswered>>
  BY DEF Failed, TimedOut, WaitersAfterTimeout, counters
<1>3. /\ waiting' = FALSE /\ reply' = NoReply /\ last' = [n |-> asked, got |-> 0]
      /\ UNCHANGED <<encrypted, writeNonce, readNonce, buffer, plaintext, ready, asked, toPeer,
                     toClient, link, forged, waiters, peerEncrypted, peerWrite, peerRead,
                     unanswered, kind, heard, accepted, declined>>
      /\ pc' = Following(0)
  BY <1>2 DEF Return, Goes, peer, receiver
<1>4. /\ timeouts' \in 0 .. MaxTimeouts
      /\ timeouts' = timeouts + 1 \/ (timeouts' = timeouts /\ reply # NoReply)
  <2>1. timeouts \in 0 .. MaxTimeouts /\ MaxTimeouts \in Nat
    BY <1>1, Constants DEF TypeOK, HapTypeOK
  <2>2. CASE Failed
    BY <2>1, <2>2, Constants DEF Failed, counters
  <2>3. CASE TimedOut
    BY <2>1, <2>3 DEF TimedOut
  <2> QED BY <2>2, <2>3
<1>5. Stream' = Stream /\ Text' = Text
  BY <1>3 DEF Stream, Text
<1>6. encrypted' \in BOOLEAN
  BY <1>1, <1>3 DEF TypeOK, HapTypeOK
<1>7. /\ TypeOK' /\ Counted' /\ Lines' /\ Matched' /\ Owed' /\ Boundary'
      /\ Current' /\ OwnAnswer' /\ FramesOpen' /\ NothingUnasked'
  <2>1. 0 \in Nat /\ 0 \in {0, asked}
    OBVIOUS
  <2> QED BY <1>2, <1>4, <1>5, <1>6, <2>1, ReturnKeeps
<1>8. Leftover' /\ Incoming' /\ Outgoing'
  <2>1. Leftover'
    BY <1>1, <1>3 DEF Leftover
  <2>2. Incoming'
    BY <1>1, <1>3, <1>5 DEF Incoming
  <2>3. Outgoing'
    BY <1>1, <1>3 DEF Outgoing
  <2> QED BY <2>1, <2>2, <2>3
<1>9. pc \in Labels
  BY <1>1, <1>2 DEF Counted
<1>10. Plain'
  <2> SUFFICES ASSUME ~encrypted PROVE Plain'
    BY <1>3 DEF Plain
  <2>1. pc \in Verify \cup {"auth-setup"}
    BY <1>1, <1>9 DEF Plain, Labels, Verify
  <2>2. pc' = "failed"
    BY <1>3, <1>9, <2>1, NotAccepted
  <2> QED BY <1>1, <1>3, <2>2 DEF Plain
<1>11. Progress'
  <2>1. SetUp' = SetUp /\ Inserted' = Inserted
    BY <1>3 DEF SetUp, Inserted
  <2>2. pc' # "RECORD"
    BY <1>3, <1>9, NotAccepted
  <2>3. pc' \in {"dateRange", "itemEnd", "setRate"} => pc \in {"dateRange", "itemEnd", "setRate"}
    BY <1>3, <1>9, NotAccepted
  <2> QED BY <1>1, <1>3, <2>1, <2>2, <2>3 DEF Progress
<1>12. Past'
  <2> SUFFICES ASSUME encrypted PROVE Past'
    BY <1>3 DEF Past
  <2>1. /\ ~declined /\ pc \notin Verify \cup {"auth-setup"}
        /\ \A k \in 1 .. Len(toPeer) : toPeer[k].what \notin Verify
    BY <1>1 DEF Past
  <2>2. pc' \notin Verify \cup {"auth-setup"}
    BY <1>3, <1>9, <2>1, Onward
  <2> QED BY <1>3, <2>1, <2>2 DEF Past
<1> QED BY <1>7, <1>8, <1>10, <1>11, <1>12 DEF Ind

LEMMA AnswerKeeps ==
  ASSUME Ind, Answer
  PROVE  Ind' \/ Deaf'
<1>1. /\ TypeOK /\ Counted /\ Lines /\ Matched /\ Owed /\ Leftover /\ Boundary
      /\ Incoming /\ Outgoing /\ Plain /\ Past /\ Current /\ Progress
      /\ OwnAnswer /\ FramesOpen /\ NothingUnasked
  BY DEF Ind
<1> DEFINE s == reply.status
<1>2. /\ waiting /\ reply \in Answers /\ Return(reply.n) /\ Goes(s)
      /\ encrypted' = (encrypted \/ TurnsOn(s))
      /\ UNCHANGED <<waiters, peer, counters>>
  BY DEF Answer, Answered
<1>3. /\ waiting' = FALSE /\ reply' = NoReply
      /\ UNCHANGED <<writeNonce, readNonce, buffer, plaintext, ready, asked, toPeer,
                     toClient, link, forged, waiters, peerEncrypted, peerWrite, peerRead,
                     timeouts, unanswered, kind, heard, accepted, declined>>
      /\ pc' = Following(s)
  BY <1>2 DEF Return, Goes, peer, receiver, counters
<1>4. s \in Statuses /\ reply.n \in Nat /\ reply # NoReply /\ reply # FailedReply
  BY <1>2, Constants DEF Answers
<1>5. Stream' = Stream
  BY <1>3 DEF Stream
<1>6. pc \in Labels
  BY <1>1, <1>2 DEF Counted
<1>7. ASSUME ~encrypted
      PROVE  /\ pc \in Verify \cup {"auth-setup"} /\ Quiet /\ Agreed(s)
             /\ writeNonce = 0 /\ readNonce = 0 /\ peerWrite = 0 /\ peerRead = 0
             /\ plaintext = <<>> /\ Text = <<>> /\ plaintext \o Decrypted(Stream) = <<>>
  <2>1. pc \in Verify \cup {"auth-setup"} /\ pc # "failed"
    BY <1>1, <1>6, <1>7 DEF Plain, Labels, Verify
  <2>2. Quiet /\ Agreed(s)
    BY <1>1, <1>2, <1>4, <1>7, <2>1 DEF Plain, Asking, Answering
  <2>3. Stream = <<>>
    BY <2>2 DEF Quiet
  <2>4. plaintext = <<>> /\ Text = <<>> /\ plaintext \o Decrypted(Stream) = <<>>
    BY <1>1, <1>7, <2>3, EmptyText
  <2> QED BY <1>1, <1>7, <2>1, <2>2, <2>4 DEF Plain
<1>8. Text' = Text
  <2>1. CASE encrypted
    BY <1>2, <1>3, <1>5, <2>1 DEF Text
  <2>2. CASE ~encrypted
    <3>1. Stream = <<>>
      BY <1>7, <2>2 DEF Quiet
    <3>2. Text' = IF encrypted' THEN plaintext \o Decrypted(Stream) ELSE Stream
      BY <1>3, <1>5 DEF Text
    <3> QED BY <1>7, <2>2, <3>1, <3>2
  <2> QED BY <2>1, <2>2
<1>9. /\ TypeOK' /\ Counted' /\ Lines' /\ Matched' /\ Owed' /\ Boundary'
      /\ Current' /\ OwnAnswer' /\ FramesOpen' /\ NothingUnasked'
  <2>1. encrypted' \in BOOLEAN
    BY <1>2 DEF TurnsOn
  <2>2. timeouts' \in 0 .. MaxTimeouts /\ timeouts' = timeouts /\ reply # NoReply
    BY <1>1, <1>3, <1>4 DEF TypeOK, HapTypeOK
  <2>3. link = "up" => reply.n \in {0, asked}
    BY <1>1, <1>2 DEF Matched
  <2>4. UNCHANGED <<waiters, peer, unanswered>>
    BY <1>2 DEF counters
  <2> QED BY <1>2, <1>4, <1>8, <2>1, <2>2, <2>3, <2>4, ReturnKeeps
<1>10. Leftover'
  <2>1. CASE encrypted
    BY <1>1, <1>2, <1>3, <2>1 DEF Leftover
  <2>2. CASE ~encrypted
    <3>1. Stream = <<>>
      BY <1>7, <2>2 DEF Quiet
    <3>2. buffer = <<>> /\ plaintext = <<>>
      BY <1>1, <2>2, <3>1, EmptyText
    <3>3. Ends(<<>>) = {} /\ Len(<<>>) = 0
      BY DEF Ends
    <3>4. Len(buffer') < 2 /\ Ends(plaintext') = {} /\ Ends(buffer') = {} /\ plaintext' = <<>>
      BY <1>3, <3>2, <3>3
    <3> QED BY <3>4 DEF Leftover
  <2> QED BY <2>1, <2>2
<1>11. CASE declined /\ encrypted'
  <2>1. ~encrypted
    BY <1>1, <1>11 DEF Past
  <2>2. ~peerEncrypted /\ ready' = <<>> /\ toClient' = <<>> /\ toPeer' = <<>> /\ Len(toPeer') = 0
    <3>1. ~peerEncrypted /\ Quiet /\ Stream = <<>>
      BY <1>7, <1>11, <2>1 DEF Agreed, Quiet
    <3>2. toClient = <<>>
      BY <1>1, <2>1, <3>1, EmptyText
    <3> QED BY <1>3, <3>1, <3>2 DEF Quiet
  <2>3. reply' \notin Answers
    BY <1>3, Constants
  <2>4. Owed'
    BY <2>2 DEF Owed
  <2>5. ~waiting' /\ declined' /\ encrypted' /\ ~peerEncrypted'
    BY <1>3, <1>11, <2>2
  <2>6. \A k \in 1 .. Len(toPeer') : toPeer'[k].nonces # <<>>
    BY <2>2
  <2>7. Deaf'
    BY <1>9, <2>2, <2>3, <2>4, <2>5, <2>6 DEF Deaf
  <2> QED BY <2>7
<1>12. SUFFICES ASSUME ~(declined /\ encrypted') PROVE Ind'
  BY <1>11
<1>13. Incoming'
  <2>1. CASE encrypted
    BY <1>1, <1>2, <1>3, <1>5, <2>1 DEF Incoming
  <2>2. CASE ~encrypted /\ encrypted'
    <3>1. Stream = <<>> /\ peerEncrypted /\ peerWrite = 0 /\ readNonce = 0
      BY <1>2, <1>7, <1>12, <2>2 DEF Quiet, Agreed
    <3>2. Len(Stream) = 0 /\ 0 % 2 = 0 /\ 0 = 0 + (0 \div 2)
      BY <3>1
    <3> QED BY <1>3, <1>5, <3>1, <3>2 DEF Incoming
  <2> QED BY <2>1, <2>2 DEF Incoming
<1>14. Outgoing'
  <2>1. CASE encrypted
    BY <1>1, <1>2, <1>3, <2>1 DEF Outgoing
  <2>2. CASE ~encrypted
    <3>1. toPeer' = <<>> /\ Len(toPeer') = 0 /\ peerRead' = 0 /\ writeNonce' = 0
      BY <1>3, <1>7, <2>2 DEF Quiet
    <3> QED BY <3>1 DEF Outgoing
  <2> QED BY <2>1, <2>2
<1>15. Plain'
  <2> SUFFICES ASSUME ~encrypted' PROVE Plain'
    BY DEF Plain
  <2>1. ~encrypted /\ ~TurnsOn(s)
    BY <1>2
  <2>2. pc' \in Verify \cup {"auth-setup", "failed"}
    <3>1. s = 200 \/ s = 403
      BY <1>4 DEF Statuses
    <3>2. pc = "auth-setup" => ~kind.transient
      BY <2>1 DEF TurnsOn
    <3>3. pc = "verify M3" => s # 200
      BY <2>1 DEF TurnsOn
    <3>4. pc \in {"verify M1", "verify M3", "auth-setup"}
      BY <1>7, <2>1 DEF Verify
    <3>5. CASE pc = "auth-setup"
      <4>1. pc' = IF s = 0 THEN "failed" ELSE AfterAuth(kind)
        BY <1>3, <3>5 DEF Following
      <4> QED BY <3>2, <3>5, <4>1 DEF AfterAuth, Verify
    <3>6. CASE pc # "auth-setup"
      BY <1>3, <3>3, <3>4, <3>6 DEF Following, Verify
    <3> QED BY <3>5, <3>6
  <2>3. Quiet' /\ ~peerEncrypted' /\ ~declined'
    BY <1>3, <1>5, <1>7, <2>1 DEF Quiet, Agreed
  <2>4. Len(toPeer') = 0
    BY <2>3 DEF Quiet
  <2> QED BY <1>3, <1>7, <2>1, <2>2, <2>3, <2>4 DEF Plain, Quiet
<1>16. Progress'
  <2>1. SetUp' = SetUp /\ Inserted' = Inserted
    BY <1>3 DEF SetUp, Inserted
  <2>2. ASSUME link = "up", pc' = "RECORD" PROVE SetUp
    <3>1. pc \in {"SETUP NTP", "SETUP remote"} /\ s = 200
      BY <1>3, <1>6, <2>2
         DEF Following, AfterAuth, FirstEncrypted, AfterSetup, AfterInsert, Labels, Verify
    <3>2. pc \in accepted
      BY <1>1, <1>2, <2>2, <3>1 DEF Current
    <3> QED BY <3>1, <3>2 DEF SetUp
  <2>3. ASSUME link = "up", pc' \in {"dateRange", "itemEnd", "setRate"} PROVE Inserted
    <3>1. (pc = "insert" /\ s = 200) \/ pc \in {"dateRange", "itemEnd", "setRate"}
      BY <1>3, <1>6, <2>3
         DEF Following, AfterAuth, FirstEncrypted, AfterSetup, AfterInsert, Labels, Verify
    <3>2. (pc = "insert" /\ s = 200) => pc \in accepted
      BY <1>1, <1>2, <2>3 DEF Current
    <3> QED BY <1>1, <2>3, <3>1, <3>2 DEF Inserted, Progress
  <2> QED BY <1>1, <1>3, <2>1, <2>2, <2>3 DEF Progress
<1>17. Past'
  <2> SUFFICES ASSUME encrypted' PROVE Past'
    BY DEF Past
  <2>1. pc \notin Verify \cup {"auth-setup"} \/ TurnsOn(s)
    BY <1>1, <1>2 DEF Past
  <2>2. pc' \notin Verify \cup {"auth-setup"}
    BY <1>3, <1>6, <2>1, Onward
  <2>3. \A k \in 1 .. Len(toPeer') : toPeer'[k].what \notin Verify
    <3>1. CASE encrypted
      BY <1>1, <1>3, <3>1 DEF Past
    <3>2. CASE ~encrypted
      <4>1. Len(toPeer') = 0
        BY <1>3, <1>7, <3>2 DEF Quiet
      <4> QED BY <4>1
    <3> QED BY <3>1, <3>2
  <2> QED BY <1>3, <1>12, <2>2, <2>3 DEF Past
<1> QED BY <1>9, <1>10, <1>13, <1>14, <1>15, <1>16, <1>17 DEF Ind

-----------------------------------------------------------------------------
(* OnChunk *)

LEMMA Cut ==
  ASSUME NEW S, NEW s \in Seq(S), NEW k \in 0 .. Len(s)
  PROVE  /\ SubSeq(s, 1, k) \in Seq(S) /\ Len(SubSeq(s, 1, k)) = k
         /\ \A i \in 1 .. k : SubSeq(s, 1, k)[i] = s[i]
         /\ SubSeq(s, k + 1, Len(s)) \in Seq(S) /\ Len(SubSeq(s, k + 1, Len(s))) = Len(s) - k
         /\ \A i \in 1 .. Len(s) - k : SubSeq(s, k + 1, Len(s))[i] = s[k + i]
         /\ SubSeq(s, 1, k) \o SubSeq(s, k + 1, Len(s)) = s
<1> DEFINE n == Len(s)
           P == SubSeq(s, 1, k)
           R == SubSeq(s, k + 1, n)
<1>1. n \in Nat /\ k \in Nat /\ k <= n /\ k \in Int /\ n \in Int /\ k + 1 \in Int /\ 1 \in Int
  OBVIOUS
<1>2. /\ \A i \in 1 .. n : s[i] \in S
      /\ \A i \in 1 .. k : i \in 1 .. n
      /\ \A i \in k + 1 .. n : i \in 1 .. n
  BY <1>1, ElementOfSeq
<1> HIDE DEF n
<1>3. /\ P \in Seq(S) /\ Len(P) = k /\ \A i \in 1 .. k : P[i] = s[i]
  <2>1. /\ P \in Seq(S) /\ Len(P) = (IF 1 <= k THEN k - 1 + 1 ELSE 0)
        /\ \A i \in 1 .. k - 1 + 1 : P[i] = s[1 + i - 1]
    BY <1>1, <1>2, SubSeqProperties
  <2>2. (IF 1 <= k THEN k - 1 + 1 ELSE 0) = k /\ k - 1 + 1 = k
    BY <1>1
  <2>3. \A i \in 1 .. k : 1 + i - 1 = i
    BY <1>1
  <2> QED BY <2>1, <2>2, <2>3
<1>4. /\ R \in Seq(S) /\ Len(R) = n - k /\ \A i \in 1 .. n - k : R[i] = s[k + i]
  <2>1. /\ R \in Seq(S) /\ Len(R) = (IF k + 1 <= n THEN n - (k + 1) + 1 ELSE 0)
        /\ \A i \in 1 .. n - (k + 1) + 1 : R[i] = s[(k + 1) + i - 1]
    <3>1. k + 1 \in Int /\ n \in Int /\ \A i \in k + 1 .. n : s[i] \in S
      BY <1>1, <1>2
    <3> QED BY <3>1, SubSeqProperties
  <2>2. (IF k + 1 <= n THEN n - (k + 1) + 1 ELSE 0) = n - k /\ n - (k + 1) + 1 = n - k
    BY <1>1
  <2>3. \A i \in 1 .. n - k : (k + 1) + i - 1 = k + i
    BY <1>1
  <2> QED BY <2>1, <2>2, <2>3
<1> HIDE DEF P, R
<1>5. /\ P \o R \in Seq(S) /\ Len(P \o R) = Len(P) + Len(R)
      /\ \A i \in 1 .. Len(P) + Len(R) : (P \o R)[i] = IF i <= Len(P) THEN P[i] ELSE R[i - Len(P)]
  BY <1>3, <1>4, ConcatProperties
<1>6. Len(P \o R) = n
  BY <1>1, <1>3, <1>4, <1>5
<1>7. ASSUME NEW i \in 1 .. n PROVE (P \o R)[i] = s[i]
  <2>1. i \in 1 .. Len(P) + Len(R) /\ (i <= Len(P) <=> i <= k) /\ i - Len(P) = i - k
    BY <1>1, <1>3, <1>4
  <2>2. CASE i <= k
    BY <1>3, <1>5, <2>1, <2>2
  <2>3. CASE ~(i <= k)
    <3>1. i - k \in 1 .. n - k /\ k + (i - k) = i
      BY <1>1, <2>3
    <3>2. (P \o R)[i] = R[i - k]
      BY <1>5, <2>1, <2>3
    <3> QED BY <1>4, <3>1, <3>2
  <2> QED BY <2>2, <2>3
<1>8. P \o R = s
  <2>1. Len(s) = Len(P \o R) /\ \A i \in 1 .. Len(s) : (P \o R)[i] = s[i]
    BY <1>6, <1>7 DEF n
  <2> QED BY <1>5, <2>1, SeqEqual
<1> QED BY <1>3, <1>4, <1>8 DEF P, R, n

(* What is delivered goes to the oldest waiters, one each. *)
LEMMA Delivers ==
  ASSUME TypeOK, Lines, NEW answers \in Seq(Answers), Deliver(answers),
         UNCHANGED <<waiting, asked, timeouts>>
  PROVE  /\ waiters' \in Seq(1 .. asked) /\ ready' \in Seq(Answers)
         /\ reply' \in Answers \cup {NoReply, FailedReply}
         /\ Len(waiters') <= Len(waiters)
         /\ Lines'
         /\ reply' = reply
              \/ \E i \in 1 .. Len(answers) : /\ i \in 1 .. Len(waiters) /\ waiters[i] = asked
                                              /\ reply' = answers[i] /\ waiting
         /\ Len(answers) <= Len(waiters) =>
              /\ Len(waiters') = Len(waiters) - Len(answers)
              /\ \A i \in 1 .. Len(waiters') : waiters'[i] = waiters[Len(answers) + i]
              /\ ready' = ready
<1> DEFINE n == Len(answers)
           w == Len(waiters)
           k == IF n < w THEN n ELSE w
<1>1. n \in Nat /\ w \in Nat /\ timeouts \in Nat /\ asked \in Nat
      /\ waiters \in Seq(1 .. asked) /\ ready \in Seq(Answers)
  BY Typed
<1>2. k \in 0 .. w /\ k \in 0 .. n /\ k \in Nat /\ k + 1 \in Int /\ n \in Int /\ w - k \in Nat
      /\ (n <= w => k = n) /\ w - k <= w
  BY <1>1
<1>3. /\ waiters' = SubSeq(waiters, k + 1, w)
      /\ ready' = ready \o SubSeq(answers, k + 1, n)
      /\ reply' = IF waiting /\ \E i \in 1 .. k : waiters[i] = asked
                    THEN answers[CHOOSE i \in 1 .. k : waiters[i] = asked]
                    ELSE reply
      /\ UNCHANGED <<waiting, asked, timeouts>>
  BY DEF Deliver, StillWaiting
<1>4. reply \in Answers \cup {NoReply, FailedReply} /\ NoReply \notin Answers
  BY Constants DEF TypeOK, HapTypeOK
<1>5. /\ \A i, j \in 1 .. w : i < j => waiters[i] < waiters[j]
      /\ waiting /\ reply = NoReply => waiters # <<>> /\ waiters[w] = asked
      /\ waiting /\ reply # NoReply => \A i \in 1 .. w : waiters[i] # asked
      /\ ~waiting => reply = NoReply
      /\ w <= timeouts + (IF waiting /\ reply = NoReply THEN 1 ELSE 0)
  BY DEF Lines
<1>6. \A i \in 1 .. n : answers[i] \in Answers
  BY ElementOfSeq
<1> HIDE DEF n, w, k
<1>7. /\ waiters' \in Seq(1 .. asked) /\ Len(waiters') = w - k
      /\ \A i \in 1 .. w - k : waiters'[i] = waiters[k + i]
  BY <1>1, <1>2, <1>3, Cut DEF w
<1>8. /\ ready' \in Seq(Answers)
      /\ n <= w => ready' = ready
  <2>1. SubSeq(answers, k + 1, n) \in Seq(Answers)
        /\ Len(SubSeq(answers, k + 1, n)) = n - k
    BY <1>2, Cut DEF n
  <2>2. ready' \in Seq(Answers)
    BY <1>1, <1>3, <2>1, ConcatProperties
  <2>3. ASSUME n <= w PROVE ready' = ready
    <3>1. n < k + 1
      BY <1>1, <1>2, <2>3
    <3>2. SubSeq(answers, k + 1, n) = <<>>
      BY <1>2, <3>1, SubSeqEmpty
    <3> QED BY <1>1, <1>3, <3>2, ConcatEmptySeq
  <2> QED BY <2>2, <2>3
<1>9. reply' = reply
      \/ \E i \in 1 .. n : i \in 1 .. w /\ i \in 1 .. k /\ waiters[i] = asked
                           /\ reply' = answers[i] /\ waiting
  <2>1. CASE waiting /\ \E i \in 1 .. k : waiters[i] = asked
    <3> DEFINE c == CHOOSE i \in 1 .. k : waiters[i] = asked
    <3>1. c \in 1 .. k /\ waiters[c] = asked /\ reply' = answers[c]
      BY <1>3, <2>1
    <3> HIDE DEF c
    <3>2. c \in 1 .. n /\ c \in 1 .. w
      BY <1>1, <1>2, <3>1
    <3> QED BY <2>1, <3>1, <3>2
  <2>2. CASE ~(waiting /\ \E i \in 1 .. k : waiters[i] = asked)
    BY <1>3, <2>2
  <2> QED BY <2>1, <2>2
<1>10. reply' \in Answers \cup {NoReply, FailedReply}
  BY <1>4, <1>6, <1>9
<1>11. Lines'
  <2>1. \A i \in 1 .. w - k : k + i \in 1 .. w
    BY <1>1, <1>2
  <2>2. ASSUME NEW i \in 1 .. w - k, NEW j \in 1 .. w - k, i < j
        PROVE  waiters'[i] < waiters'[j]
    <3>1. k + i \in 1 .. w /\ k + j \in 1 .. w /\ k + i < k + j
      BY <1>1, <1>2, <2>1, <2>2
    <3> QED BY <1>5, <1>7, <3>1
  <2>3. ASSUME waiting, reply' = NoReply
        PROVE  waiters' # <<>> /\ waiters'[w - k] = asked
    <3>1. reply = NoReply
      BY <1>4, <1>6, <1>9, <2>3
    <3>2. waiters # <<>> /\ waiters[w] = asked /\ w \in 1 .. w
      <4>1. waiters # <<>> /\ waiters[w] = asked
        BY <1>5, <2>3, <3>1
      <4>2. w # 0
        BY <1>1, <4>1 DEF w
      <4> QED BY <1>1, <4>1, <4>2
    <3>3. k # w
      <4>1. ASSUME k = w PROVE FALSE
        <5>1. w \in 1 .. k
          BY <3>2, <4>1
        <5>2. \E i \in 1 .. k : waiters[i] = asked
          BY <3>2, <5>1
        <5> DEFINE c == CHOOSE i \in 1 .. k : waiters[i] = asked
        <5>3. c \in 1 .. k /\ reply' = answers[c]
          BY <1>3, <2>3, <5>2
        <5> HIDE DEF c
        <5>4. c \in 1 .. n
          BY <1>1, <1>2, <5>3
        <5> QED BY <1>4, <1>6, <2>3, <5>3, <5>4
      <4> QED BY <4>1
    <3>4. w - k \in 1 .. w - k /\ k + (w - k) = w /\ w - k # 0
      BY <1>1, <1>2, <3>3
    <3>5. waiters'[w - k] = waiters[w]
      BY <1>7, <3>4
    <3>6. waiters' # <<>>
      BY <1>7, <3>4
    <3> QED BY <3>2, <3>5, <3>6
  <2>4. ASSUME waiting, reply' # NoReply
        PROVE  (\A i \in 1 .. w - k : waiters'[i] # asked) /\ w - k <= timeouts
    <3>1. CASE reply # NoReply
      <4>1. \A i \in 1 .. w : waiters[i] # asked
        BY <1>5, <2>4, <3>1
      <4>2. w <= timeouts
        BY <1>1, <1>5, <3>1
      <4>3. w - k <= timeouts
        BY <1>1, <1>2, <4>2
      <4>4. \A i \in 1 .. w - k : waiters'[i] # asked
        BY <1>7, <2>1, <4>1
      <4> QED BY <4>3, <4>4
    <3>2. CASE reply = NoReply
      <4>1. PICK i \in 1 .. n : i \in 1 .. w /\ i \in 1 .. k /\ waiters[i] = asked
        BY <1>9, <2>4, <3>2
      <4>2. waiters[w] = asked /\ w \in 1 .. w
        BY <1>1, <1>5, <2>4, <3>2, <4>1
      <4>3. i = w
        <5>1. ~(i < w)
          <6>1. ASSUME i < w PROVE FALSE
            <7>1. waiters[i] < waiters[w]
              BY <1>5, <4>1, <4>2, <6>1
            <7> QED BY <1>1, <4>1, <4>2, <7>1
          <6> QED BY <6>1
        <5> QED BY <1>1, <4>1, <5>1
      <4>4. w - k = 0
        BY <1>1, <1>2, <4>1, <4>3
      <4> QED BY <1>1, <4>4
    <3> QED BY <3>1, <3>2
  <2>5. w - k <= timeouts + (IF waiting /\ reply' = NoReply THEN 1 ELSE 0)
    <3>1. CASE waiting /\ reply' = NoReply
      <4>1. w <= timeouts + 1
        BY <1>1, <1>5
      <4> QED BY <1>1, <1>2, <3>1, <4>1
    <3>2. CASE waiting /\ reply' # NoReply
      BY <1>1, <1>2, <2>4, <3>2
    <3>3. CASE ~waiting
      <4>1. w <= timeouts + 0
        BY <1>5, <3>3
      <4> QED BY <1>1, <1>2, <3>3, <4>1
    <3> QED BY <3>1, <3>2, <3>3
  <2>6. ~waiting => reply' = NoReply
    BY <1>5, <1>9
  <2>7. waiting' = waiting /\ asked' = asked /\ timeouts' = timeouts /\ Len(waiters') = w - k
    BY <1>3, <1>7
  <2>8. \A i, j \in 1 .. Len(waiters') : i < j => waiters'[i] < waiters'[j]
    BY <2>2, <2>7
  <2>9. waiting' /\ reply' = NoReply => waiters' # <<>> /\ waiters'[Len(waiters')] = asked'
    BY <2>3, <2>7
  <2>10. waiting' /\ reply' # NoReply => \A i \in 1 .. Len(waiters') : waiters'[i] # asked'
    BY <2>4, <2>7
  <2>11. Len(waiters') <= timeouts' + (IF waiting' /\ reply' = NoReply THEN 1 ELSE 0)
    BY <2>5, <2>7
  <2>12. ~waiting' => reply' = NoReply
    BY <2>6, <2>7
  <2> QED BY <2>8, <2>9, <2>10, <2>11, <2>12 DEF Lines
<1>12. Len(waiters') <= w
  BY <1>2, <1>7
<1>13. ASSUME n <= w
       PROVE  Len(waiters') = w - n /\ (\A i \in 1 .. Len(waiters') : waiters'[i] = waiters[n + i])
              /\ ready' = ready
  <2>1. k = n
    BY <1>2, <1>13
  <2> QED BY <1>7, <1>8, <1>13, <2>1
<1> QED BY <1>7, <1>8, <1>9, <1>10, <1>11, <1>12, <1>13 DEF n, w

(* Every frame that has come opens. *)
LEMMA Opened ==
  ASSUME TypeOK, Incoming, encrypted, NEW P \in Seq(Units), Begins(P, Stream)
  PROVE  Opens(P)
<1>1. \A i \in 1 .. Frames(P) : 2 * i \in 1 .. Len(P) /\ i \in Nat
  BY FramesOf
<1>2. \A j \in 1 .. Len(P) : P[j] = Stream[j] /\ j \in 1 .. Len(Stream)
  <2>1. Len(P) \in Nat /\ Len(Stream) \in Nat /\ Len(P) <= Len(Stream)
        /\ \A j \in 1 .. Len(P) : P[j] = Stream[j]
    BY Reading DEF Begins
  <2> QED BY <2>1
<1>3. \A j \in 1 .. Len(Stream) : Stream[j].nonce = readNonce + ((j - 1) \div 2)
  BY DEF Incoming
<1>4. ASSUME NEW i \in 1 .. Frames(P) PROVE P[2 * i].nonce = readNonce + i - 1
  <2>1. P[2 * i] = Stream[2 * i] /\ 2 * i \in 1 .. Len(Stream)
    BY <1>1, <1>2
  <2>2. Stream[2 * i].nonce = readNonce + ((2 * i - 1) \div 2)
    BY <1>3, <2>1
  <2>3. (2 * i - 1) \div 2 = i - 1
    BY <1>1
  <2>4. readNonce + (i - 1) = readNonce + i - 1
    BY <1>1, Typed
  <2> QED BY <2>1, <2>2, <2>3, <2>4
<1> QED BY <1>4 DEF Opens

(* Draining takes a beginning of the text apart, and leaves over what is   *)
(* not yet a whole message of it. *)
LEMMA Drained ==
  ASSUME TypeOK, Incoming, Leftover, Boundary, NEW k \in 1 .. Len(toClient),
         Drain(buffer \o SubSeq(toClient, 1, k)),
         toClient' = SubSeq(toClient, k + 1, Len(toClient)), encrypted' = encrypted
  PROVE  \E P \in Seq(Units), R \in Seq(Units), f \in Nat :
           /\ Text = P \o R /\ Text' = Unparsed(P) \o R /\ Deliver(Whole(P))
           /\ forged' = forged /\ Leftover'
           /\ buffer' \in Seq(Units) /\ plaintext' \in Seq(Units) /\ toClient' \in Seq(Units)
           /\ readNonce' = readNonce + f
           /\ encrypted => GoesOn(Stream', Stream, 2 * f)
           /\ ~encrypted => f = 0 /\ Len(P) # 0
<1> DEFINE c == SubSeq(toClient, 1, k)
           r == SubSeq(toClient, k + 1, Len(toClient))
           b == buffer \o c
<1>1. /\ buffer \in Seq(Units) /\ plaintext \in Seq(Units) /\ toClient \in Seq(Units)
      /\ Len(buffer) \in Nat /\ Len(toClient) \in Nat /\ readNonce \in Nat
  BY Typed
<1>2. k \in 0 .. Len(toClient) /\ k \in Nat /\ k > 0
  BY <1>1
<1>3. c \in Seq(Units) /\ Len(c) = k /\ r \in Seq(Units) /\ c \o r = toClient
  BY <1>1, <1>2, Cut
<1>4. toClient' = r /\ Drain(b)
  OBVIOUS
<1> HIDE DEF c, r
<1>5. b \in Seq(Units) /\ Len(b) = Len(buffer) + k
  <2>1. b \in Seq(Units) /\ Len(b) = Len(buffer) + Len(c)
    BY <1>1, <1>3, ConcatProperties
  <2> QED BY <1>3, <2>1
<1>6. Stream = b \o r
  <2>1. (buffer \o c) \o r = buffer \o (c \o r)
    <3>1. buffer \in Seq(Units) /\ c \in Seq(Units) /\ r \in Seq(Units)
      BY <1>1, <1>3
    <3> QED BY <3>1, UnitsAssociate
  <2> QED BY <1>3, <2>1 DEF Stream
<1> HIDE DEF b
<1>7. Len(b) # 0
  BY <1>1, <1>2, <1>5
<1>8. Len(Stream) = Len(b) + Len(r) /\ Stream \in Seq(Units) /\ Len(r) \in Nat
      /\ \A i \in 1 .. Len(b) : Stream[i] = b[i]
  <2>1. /\ b \o r \in Seq(Units) /\ Len(b \o r) = Len(b) + Len(r)
        /\ \A i \in 1 .. Len(b) + Len(r) : (b \o r)[i] = IF i <= Len(b) THEN b[i] ELSE r[i - Len(b)]
    <3>1. b \in Seq(Units) /\ r \in Seq(Units)
      BY <1>3, <1>5
    <3> QED BY <3>1, ConcatProperties
  <2>2. Len(r) \in Nat /\ Len(b) \in Nat
    BY <1>3, <1>5
  <2>3. \A i \in 1 .. Len(b) : i \in 1 .. Len(b) + Len(r) /\ i <= Len(b)
    BY <2>2
  <2> QED BY <1>6, <2>1, <2>2, <2>3
<1>9. CASE ~encrypted
  <2>1. buffer' = Unparsed(b) /\ Deliver(Whole(b))
        /\ plaintext' = plaintext /\ readNonce' = readNonce /\ forged' = forged
    BY <1>4, <1>9 DEF Drain
  <2>2. Text = b \o r
    BY <1>6, <1>9 DEF Text
  <2>3. Text' = Unparsed(b) \o r
    BY <1>4, <1>9, <2>1 DEF Text, Stream
  <2>4. Tiled(b)
    <3>1. Tiled(Text) /\ Text \in Seq(Units) /\ Begins(b, Text)
      <4>1. Len(b) <= Len(Stream)
        BY <1>5, <1>8
      <4> QED BY <1>6, <1>8, <2>2, <4>1 DEF Boundary, Begins
    <3> QED BY <1>5, <3>1, TiledPrefix
  <2>5. Unparsed(b) \in Seq(Units) /\ Ends(Unparsed(b)) = {}
    BY <1>5, <2>4, LeftOver
  <2>6. Leftover'
    BY <1>9, <2>1, <2>5 DEF Leftover
  <2>7. readNonce' = readNonce + 0 /\ 0 \in Nat
    BY <1>1, <2>1
  <2> QED BY <1>1, <1>3, <1>4, <1>5, <1>7, <1>9, <2>1, <2>2, <2>3, <2>5, <2>6, <2>7
<1>10. CASE encrypted
  <2> DEFINE f == Frames(b)
             d == Rest(b) \o r
             P == plaintext \o Decrypted(b)
  <2>1. Opens(b)
    <3>1. Begins(b, Stream)
      BY <1>5, <1>8 DEF Begins
    <3> QED BY <1>5, <1>10, <3>1, Opened
  <2>2. /\ buffer' = Rest(b) /\ readNonce' = readNonce + f /\ plaintext' = Unparsed(P)
        /\ Deliver(Whole(P)) /\ forged' = forged
    BY <1>4, <1>10, <2>1 DEF Drain
  <2>3. /\ f \in Nat /\ 2 * f <= Len(b) /\ Len(b) < 2 * f + 2
        /\ Decrypted(b) \in Seq(Units)
        /\ Rest(b) \in Seq(Units) /\ Len(Rest(b)) = Len(b) - 2 * f
        /\ \A i \in 1 .. Len(Rest(b)) : Rest(b)[i] = b[2 * f + i] /\ 2 * f + i \in 1 .. Len(b)
    BY <1>5, FramesOf
  <2> HIDE DEF f
  <2>4. Stream' = d
    BY <1>4, <2>2 DEF Stream
  <2>5. d \in Seq(Units) /\ Len(d) = Len(Rest(b)) + Len(r)
        /\ \A i \in 1 .. Len(Rest(b)) + Len(r) :
             d[i] = IF i <= Len(Rest(b)) THEN Rest(b)[i] ELSE r[i - Len(Rest(b))]
    BY <1>3, <2>3, ConcatProperties
  <2> HIDE DEF d
  <2>6. Decrypted(d) \in Seq(Units)
    BY <2>5, FramesOf
  <2>7. P \in Seq(Units)
    BY <1>1, <2>3, ConcatProperties
  <2>8. Text = P \o Decrypted(d)
    <3>1. Decrypted(Stream) = Decrypted(b) \o Decrypted(d)
      BY <1>3, <1>5, <1>6, DecryptedSplits DEF d
    <3>2. Text = plaintext \o (Decrypted(b) \o Decrypted(d))
      BY <1>10, <3>1 DEF Text
    <3>3. (plaintext \o Decrypted(b)) \o Decrypted(d) = plaintext \o (Decrypted(b) \o Decrypted(d))
      <4>1. plaintext \in Seq(Units) /\ Decrypted(b) \in Seq(Units) /\ Decrypted(d) \in Seq(Units)
        BY <1>1, <2>3, <2>6
      <4> QED BY <4>1, UnitsAssociate
    <3> QED BY <3>2, <3>3
  <2>9. Text' = Unparsed(P) \o Decrypted(d)
    BY <1>10, <2>2, <2>4 DEF Text
  <2> HIDE DEF P
  <2>10. Tiled(P)
    <3>1. Len(P) \in Nat /\ Len(Decrypted(d)) \in Nat /\ Text \in Seq(Units)
          /\ Len(Text) = Len(P) + Len(Decrypted(d)) /\ \A i \in 1 .. Len(P) : Text[i] = P[i]
      BY <2>6, <2>7, <2>8
    <3>2. Begins(P, Text)
      BY <3>1 DEF Begins
    <3> QED BY <2>7, <3>1, <3>2, TiledPrefix DEF Boundary
  <2>11. Unparsed(P) \in Seq(Units) /\ Ends(Unparsed(P)) = {}
    BY <2>7, <2>10, LeftOver
  <2>12. Leftover'
    <3>1. Len(Rest(b)) < 2
      BY <1>5, <2>3
    <3> QED BY <1>10, <2>2, <2>11, <3>1 DEF Leftover
  <2>13. GoesOn(Stream', Stream, 2 * f)
    <3>1. 2 * f \in Nat /\ 2 * f <= Len(Stream) /\ Len(d) = Len(Stream) - 2 * f
      BY <1>5, <1>8, <2>3, <2>5
    <3>2. ASSUME NEW i \in 1 .. Len(d) PROVE d[i] = Stream[2 * f + i]
      <4>1. CASE i <= Len(Rest(b))
        <5>1. i \in 1 .. Len(Rest(b)) /\ i \in 1 .. Len(Rest(b)) + Len(r)
          BY <1>8, <2>3, <2>5, <4>1
        <5>2. d[i] = Rest(b)[i] /\ Rest(b)[i] = b[2 * f + i] /\ 2 * f + i \in 1 .. Len(b)
          BY <2>3, <2>5, <4>1, <5>1
        <5> QED BY <1>8, <5>2
      <4>2. CASE ~(i <= Len(Rest(b)))
        <5>1. i \in 1 .. Len(Rest(b)) + Len(r) /\ i - Len(Rest(b)) = (2 * f + i) - Len(b)
              /\ 2 * f + i \in 1 .. Len(b) + Len(r) /\ ~(2 * f + i <= Len(b))
          BY <1>1, <1>5, <1>8, <2>3, <2>5, <4>2
        <5>2. d[i] = r[i - Len(Rest(b))]
          BY <2>5, <4>2, <5>1
        <5>3. Stream[2 * f + i] = r[(2 * f + i) - Len(b)]
          <6>1. b \in Seq(Units) /\ r \in Seq(Units)
            BY <1>3, <1>5
          <6>2. \A j \in 1 .. Len(b) + Len(r) :
                  (b \o r)[j] = IF j <= Len(b) THEN b[j] ELSE r[j - Len(b)]
            BY <6>1, ConcatProperties
          <6> QED BY <1>6, <5>1, <6>2
        <5> QED BY <5>1, <5>2, <5>3
      <4> QED BY <4>1, <4>2
    <3> QED BY <2>4, <3>1, <3>2 DEF GoesOn
  <2> QED BY <1>3, <1>4, <1>10, <2>2, <2>3, <2>6, <2>7, <2>8, <2>9, <2>11, <2>12, <2>13
<1> QED BY <1>9, <1>10

(* In the clear there is one answer at a time, which has come to its end   *)
(* or not. *)
LEMMA OneAnswer ==
  ASSUME NEW P \in Seq(Units), NEW R \in Seq(Units), Tiled(P \o R), Len(P) # 0, NEW a,
         \A i \in 1 .. Len(P \o R) : (P \o R)[i].a = a /\ (P \o R)[i].part = i
  PROVE  \/ Whole(P) = <<a>> /\ Unparsed(P) \o R = <<>>
         \/ Whole(P) = <<>> /\ Unparsed(P) \o R = P \o R
<1> DEFINE T == P \o R
<1>0. T \in Seq(Units) /\ Tiled(T) /\ \A i \in 1 .. Len(T) : T[i].a = a /\ T[i].part = i
  BY ConcatProperties
<1>1. Len(P) \in Nat /\ Len(R) \in Nat /\ Len(T) = Len(P) + Len(R)
      /\ \A i \in 1 .. Len(P) : P[i] = T[i]
  <2>1. Len(P) \in Nat /\ Len(R) \in Nat
    BY LenProperties
  <2>2. \A i \in 1 .. Len(P) : i \in 1 .. Len(P) + Len(R) /\ i <= Len(P)
    BY <2>1
  <2> QED BY <2>1, <2>2, ConcatProperties
<1> HIDE DEF T
<1>2. Begins(P, T) /\ 1 \in 1 .. Len(T) /\ Len(T) \in 1 .. Len(T) /\ Len(P) \in 1 .. Len(T)
      /\ Len(P) \in 1 .. Len(P)
  BY <1>1 DEF Begins
<1>3. T[1] \in Units /\ a \in Answers /\ a.of \in 1 .. 2
  <2>1. T[1] \in Units /\ T[1].a = a
    BY <1>0, <1>2, ElementOfSeq
  <2> QED BY <2>1, UnitTypes
<1>4. Len(T) <= a.of
  <2>1. T[Len(T)].part <= T[Len(T)].a.of
    BY <1>0, <1>2 DEF Tiled
  <2> QED BY <1>0, <1>2, <2>1
<1>5. \A i \in 1 .. Len(P) : P[i].a = a /\ P[i].part = i
  <2>1. \A i \in 1 .. Len(P) : i \in 1 .. Len(T)
    BY <1>1
  <2> QED BY <1>0, <1>1, <2>1
<1>6. Tiled(P)
  BY <1>0, <1>2, TiledPrefix
<1>7. Ends(P) = {i \in 1 .. Len(P) : P[i].part = P[i].a.of}
  BY <1>6, EndsOfTiled
<1>8. /\ Parsed(P) \in 0 .. Len(P) /\ (Parsed(P) # 0 => Parsed(P) \in Ends(P))
      /\ \A e \in Ends(P) : e <= Parsed(P)
  BY <1>6, LastEnd
<1>9. /\ Unparsed(P) \in Seq(Units) /\ Len(Unparsed(P)) = Len(P) - Parsed(P)
      /\ \A i \in 1 .. Len(Unparsed(P)) : Unparsed(P)[i] = P[Parsed(P) + i]
  BY <1>6, LeftOver DEF GoesOn
<1>10. CASE Len(P) = a.of
  <2>1. Whole(P) = <<a>>
    <3>1. Spells(P, a)
      BY <1>5, <1>10 DEF Spells
    <3> QED BY <1>3, <3>1, WholeOfOne
  <2>2. Len(P) \in Ends(P)
    BY <1>2, <1>5, <1>7, <1>10
  <2>3. Parsed(P) = Len(P)
    BY <1>1, <1>8, <2>2
  <2>4. Len(Unparsed(P)) = 0 /\ Len(R) = 0
    BY <1>1, <1>3, <1>4, <1>9, <1>10, <2>3
  <2>5. Unparsed(P) = <<>> /\ R = <<>>
    BY <1>9, <2>4
  <2>6. Unparsed(P) \o R = <<>>
    BY <2>5
  <2> QED BY <2>1, <2>6
<1>11. CASE Len(P) # a.of
  <2>1. Len(P) < a.of
    BY <1>1, <1>3, <1>4, <1>11
  <2>2. \A i \in 1 .. Len(P) : P[i].part # P[i].a.of
    BY <1>1, <1>3, <1>5, <2>1
  <2>3. Ends(P) = {}
    BY <1>7, <2>2
  <2>4. Whole(P) = <<>>
    <3>1. Whole(P) \in Seq(Answers) /\ Len(Whole(P)) = 0
      BY <2>3, WholeNumbered, FS_EmptySet
    <3> QED BY <3>1
  <2>5. Parsed(P) = 0
    BY <1>8, <2>3
  <2>6. Len(Unparsed(P)) = Len(P) /\ \A i \in 1 .. Len(P) : Unparsed(P)[i] = P[i]
    <3>1. \A i \in 1 .. Len(P) : 0 + i = i
      BY <1>1
    <3> QED BY <1>1, <1>9, <2>5, <3>1
  <2>7. Unparsed(P) = P
    BY <1>9, <2>6, SeqEqual
  <2> QED BY <2>4, <2>7
<1> QED BY <1>10, <1>11

LEMMA ChunkKeeps ==
  ASSUME Ind, Chunk
  PROVE  Ind'
<1>1. /\ TypeOK /\ Counted /\ Lines /\ Matched /\ Owed /\ Leftover /\ Boundary
      /\ Incoming /\ Outgoing /\ Plain /\ Past /\ Current /\ Progress
      /\ OwnAnswer /\ FramesOpen /\ NothingUnasked
  BY DEF Ind
<1>2. UNCHANGED <<encrypted, writeNonce, asked, waiting, last, toPeer, link, peerEncrypted,
                  peerWrite, peerRead, timeouts, unanswered, kind, pc, feedback,
                  heard, accepted, declined>>
  BY DEF Chunk, OnChunk, peer, counters, script, receiver
<1>3. PICK k \in 1 .. Len(toClient) :
        /\ Drain(buffer \o SubSeq(toClient, 1, k))
        /\ toClient' = SubSeq(toClient, k + 1, Len(toClient))
  BY DEF Chunk, OnChunk
<1>4. PICK P \in Seq(Units), R \in Seq(Units), f \in Nat :
        /\ Text = P \o R /\ Text' = Unparsed(P) \o R /\ Deliver(Whole(P))
        /\ forged' = forged /\ Leftover'
        /\ buffer' \in Seq(Units) /\ plaintext' \in Seq(Units) /\ toClient' \in Seq(Units)
        /\ readNonce' = readNonce + f
        /\ encrypted => GoesOn(Stream', Stream, 2 * f)
        /\ ~encrypted => f = 0 /\ Len(P) # 0
  BY <1>1, <1>2, <1>3, Drained
<1>5. Text \in Seq(Units) /\ Len(Text) \in Nat /\ Tiled(Text) /\ (link = "up" => Complete(Text))
      /\ Stream \in Seq(Units) /\ Len(Stream) \in Nat
  BY <1>1, Reading DEF Boundary
<1>6. /\ Text' \in Seq(Units) /\ Tiled(P) /\ Tiled(Text')
      /\ Complete(Text) => Complete(Text')
      /\ Whole(Text) = Whole(P) \o Whole(Text')
      /\ GoesOn(Text', Text, Parsed(P))
  <2>1. Text = P \o R /\ Text' = Unparsed(P) \o R
    BY <1>4
  <2>2. Tiled(Text)
    BY <1>5
  <2> QED BY <2>1, <2>2, WholeSplits
<1> DEFINE A == Whole(P)
           W == Whole(Text)
           V == Whole(Text')
<1>7. A \in Seq(Answers) /\ W \in Seq(Answers) /\ V \in Seq(Answers)
  BY <1>4, <1>5, <1>6, WholeNumbered
<1>8. \A i \in 1 .. Len(W) : \E e \in 1 .. Len(Text) : W[i] = Text[e].a
  BY <1>1, Reading
<1>9. W = A \o V
  BY <1>6
<1>10. Deliver(A)
  BY <1>4
<1> HIDE DEF A, W, V
<1>11. /\ waiters' \in Seq(1 .. asked) /\ ready' \in Seq(Answers)
       /\ reply' \in Answers \cup {NoReply, FailedReply}
       /\ Lines'
       /\ reply' = reply
            \/ \E i \in 1 .. Len(A) : /\ i \in 1 .. Len(waiters) /\ waiters[i] = asked
                                      /\ reply' = A[i] /\ waiting
       /\ Len(A) <= Len(waiters) =>
            /\ Len(waiters') = Len(waiters) - Len(A)
            /\ \A i \in 1 .. Len(waiters') : waiters'[i] = waiters[Len(A) + i]
            /\ ready' = ready
  BY <1>1, <1>2, <1>7, <1>10, Delivers
<1>12. /\ Len(A) \in Nat /\ Len(V) \in Nat /\ Len(W) = Len(A) + Len(V)
       /\ \A i \in 1 .. Len(A) : i \in 1 .. Len(W) /\ W[i] = A[i]
       /\ \A i \in 1 .. Len(V) : Len(A) + i \in 1 .. Len(W) /\ W[Len(A) + i] = V[i]
  <2>1. /\ Len(W) = Len(A) + Len(V)
        /\ \A i \in 1 .. Len(A) + Len(V) : W[i] = IF i <= Len(A) THEN A[i] ELSE V[i - Len(A)]
    BY <1>7, <1>9, ConcatProperties
  <2>2. Len(A) \in Nat /\ Len(V) \in Nat
    BY <1>7
  <2>3. \A i \in 1 .. Len(A) : i \in 1 .. Len(A) + Len(V) /\ i <= Len(A)
    BY <2>2
  <2>4. \A i \in 1 .. Len(V) : /\ Len(A) + i \in 1 .. Len(A) + Len(V) /\ ~(Len(A) + i <= Len(A))
                               /\ (Len(A) + i) - Len(A) = i
    BY <2>2
  <2> QED BY <2>1, <2>2, <2>3, <2>4
<1>13. /\ asked \in Nat /\ Len(waiters) \in Nat /\ Len(toPeer) \in Nat /\ readNonce \in Nat
       /\ waiters \in Seq(1 .. asked)
  BY <1>1, Typed
<1>14. TypeOK'
  <2>1. readNonce' \in Nat
    BY <1>4, <1>13
  <2>2. {writeNonce', readNonce', peerWrite', peerRead', asked'} \subseteq Nat
    BY <1>1, <1>2, <2>1, Typed
  <2>3. Len(waiters') <= timeouts' + (IF waiting' THEN 1 ELSE 0)
    <3>1. Len(waiters') <= timeouts' + (IF waiting' /\ reply' = NoReply THEN 1 ELSE 0)
      BY <1>11 DEF Lines
    <3>2. timeouts' \in Nat /\ Len(waiters') \in Nat
      BY <1>1, <1>2, <1>11, Typed
    <3>3. CASE waiting' /\ reply' = NoReply
      BY <3>1, <3>3
    <3>4. CASE ~(waiting' /\ reply' = NoReply)
      <4>1. Len(waiters') <= timeouts'
        BY <3>1, <3>2, <3>4
      <4> QED BY <3>2, <4>1
    <3> QED BY <3>3, <3>4
  <2>4. forged' \in BOOLEAN /\ encrypted' \in BOOLEAN /\ peerEncrypted' \in BOOLEAN
        /\ waiting' \in BOOLEAN
    BY <1>1, <1>2, <1>4 DEF TypeOK, HapTypeOK
  <2>5. HapTypeOK'
    BY <1>1, <1>2, <1>4, <1>11, <2>2, <2>3, <2>4 DEF TypeOK, HapTypeOK
  <2> QED BY <1>1, <1>2, <2>5 DEF TypeOK
<1>15. Counted' /\ Owed' /\ OwnAnswer' /\ FramesOpen' /\ NothingUnasked'
  <2>1. Counted' /\ OwnAnswer' /\ FramesOpen' /\ NothingUnasked'
    BY <1>1, <1>2, <1>4 DEF Counted, OwnAnswer, FramesOpen, NothingUnasked
  <2>2. Owed'
    BY <1>1, <1>2 DEF Owed
  <2> QED BY <2>1, <2>2
<1>16. Outgoing'
  BY <1>1, <1>2 DEF Outgoing
<1>17. Progress'
  <2>1. SetUp' = SetUp /\ Inserted' = Inserted
    BY <1>2 DEF SetUp, Inserted
  <2> QED BY <1>1, <1>2, <2>1 DEF Progress
<1>18. Leftover' /\ Boundary'
  BY <1>2, <1>4, <1>5, <1>6 DEF Boundary
<1>19. \A i \in 1 .. Len(Text') : \E j \in 1 .. Len(Text) : Text'[i] = Text[j]
  <2>1. /\ Parsed(P) \in Nat /\ Parsed(P) <= Len(Text)
        /\ Len(Text') = Len(Text) - Parsed(P)
        /\ \A i \in 1 .. Len(Text') : Text'[i] = Text[Parsed(P) + i]
    BY <1>6 DEF GoesOn
  <2>2. \A i \in 1 .. Len(Text') : Parsed(P) + i \in 1 .. Len(Text)
    BY <1>5, <2>1
  <2> QED BY <2>1, <2>2
<1>20. ASSUME link = "up"
       PROVE  /\ ready = <<>> /\ Len(A) <= Len(waiters)
              /\ Len(W) + Len(toPeer) <= Len(waiters)
              /\ unanswered = {} => Len(W) + Len(toPeer) = Len(waiters)
              /\ \A i \in 1 .. Len(W) : waiters[i] <= W[i].n
              /\ \A i \in 1 .. Len(toPeer) : waiters[Len(W) + i] <= toPeer[i].n
              /\ reply \in Answers => reply.n = asked
              /\ \A i \in 1 .. Len(Text) : Text[i].a.n <= asked
  <2>1. /\ ready = <<>>
        /\ Len(W) + Len(toPeer) <= Len(waiters)
        /\ unanswered = {} => Len(W) + Len(toPeer) = Len(waiters)
        /\ \A i \in 1 .. Len(W) : waiters[i] <= W[i].n
        /\ \A i \in 1 .. Len(toPeer) : waiters[Len(W) + i] <= toPeer[i].n
        /\ reply \in Answers => reply.n = asked
        /\ \A i \in 1 .. Len(Text) : Text[i].a.n <= asked
    BY <1>1, <1>20 DEF Matched, W
  <2>2. Len(A) <= Len(waiters)
    BY <1>12, <1>13, <2>1
  <2> QED BY <2>1, <2>2
<1>21. ASSUME link = "up", reply' # reply
       PROVE  /\ waiting /\ reply' \in Answers /\ reply'.n = asked
              /\ \E e \in 1 .. Len(Text) : reply' = Text[e].a
  <2>1. PICK i \in 1 .. Len(A) : /\ i \in 1 .. Len(waiters) /\ waiters[i] = asked
                                 /\ reply' = A[i] /\ waiting
    BY <1>11, <1>21
  <2>2. reply' = W[i] /\ i \in 1 .. Len(W)
    BY <1>12, <2>1
  <2>3. PICK e \in 1 .. Len(Text) : W[i] = Text[e].a
    BY <1>8, <2>2
  <2>4. asked <= reply'.n
    BY <1>20, <1>21, <2>1, <2>2
  <2>5. reply'.n <= asked
    BY <1>20, <1>21, <2>2, <2>3
  <2>6. reply' \in Answers /\ reply'.n \in Nat
    <3>1. Text[e] \in Units
      BY <1>5, ElementOfSeq
    <3> QED BY <2>2, <2>3, <3>1, UnitTypes
  <2>7. reply'.n = asked
    BY <1>13, <2>4, <2>5, <2>6
  <2> QED BY <2>1, <2>2, <2>3, <2>6, <2>7
<1>22. Matched'
  <2> SUFFICES ASSUME link = "up" PROVE Matched'
    BY <1>2 DEF Matched
  <2>1. /\ Len(waiters') = Len(waiters) - Len(A)
        /\ \A i \in 1 .. Len(waiters') : waiters'[i] = waiters[Len(A) + i]
        /\ ready' = <<>>
    BY <1>11, <1>20
  <2>2. /\ Len(W) + Len(toPeer) <= Len(waiters)
        /\ unanswered = {} => Len(W) + Len(toPeer) = Len(waiters)
    BY <1>20
  <2>3. /\ Len(V) + Len(toPeer') <= Len(waiters')
        /\ unanswered' = {} => Len(V) + Len(toPeer') = Len(waiters')
    BY <1>2, <1>12, <1>13, <2>1, <2>2
  <2>4. ASSUME NEW i \in 1 .. Len(V) PROVE waiters'[i] <= V[i].n
    <3>1. i \in 1 .. Len(waiters')
      BY <1>2, <1>12, <1>13, <2>1, <2>3
    <3> QED BY <1>12, <1>20, <2>1, <3>1
  <2>5. ASSUME NEW i \in 1 .. Len(toPeer') PROVE waiters'[Len(V) + i] <= toPeer'[i].n
    <3>1. Len(V) + i \in 1 .. Len(waiters') /\ Len(A) + (Len(V) + i) = Len(W) + i
          /\ toPeer' = toPeer
      <4>1. Len(A) \in Nat /\ Len(V) \in Nat /\ Len(W) = Len(A) + Len(V)
        BY <1>12
      <4>2. i \in Nat /\ i >= 1 /\ i <= Len(toPeer') /\ Len(toPeer') \in Nat
        BY <1>2, <1>13
      <4>3. Len(V) + Len(toPeer') <= Len(waiters') /\ Len(waiters') \in Nat
        BY <1>12, <1>13, <2>1, <2>3
      <4>4. Len(V) + i \in 1 .. Len(waiters')
        BY <4>1, <4>2, <4>3
      <4>5. Len(A) + (Len(V) + i) = Len(W) + i
        BY <4>1, <4>2
      <4> QED BY <1>2, <4>4, <4>5
    <3>2. waiters'[Len(V) + i] = waiters[Len(W) + i]
      BY <2>1, <3>1
    <3>3. waiters[Len(W) + i] <= toPeer[i].n
      BY <1>20, <3>1
    <3> QED BY <3>1, <3>2, <3>3
  <2>6. reply' \in Answers => reply'.n = asked'
    BY <1>2, <1>20, <1>21
  <2>7. \A i \in 1 .. Len(Text') : Text'[i].a.n <= asked'
    BY <1>2, <1>19, <1>20
  <2> QED BY <2>1, <2>3, <2>4, <2>5, <2>6, <2>7 DEF Matched, V
<1>23. Current'
  <2> SUFFICES ASSUME link = "up", waiting PROVE Current'
    BY <1>2 DEF Current
  <2>1. \A i \in 1 .. Len(Text) : Text[i].a.n = asked /\ Text[i].a.status = 200 => pc \in accepted
    BY <1>1 DEF Current
  <2>2. \A k1 \in 1 .. Len(toPeer) : toPeer[k1].n = asked => toPeer[k1].what = pc
    BY <1>1 DEF Current
  <2>3. reply' \in Answers /\ reply'.status = 200 => pc \in accepted
    <3>1. CASE reply' = reply
      BY <1>1, <3>1 DEF Current
    <3>2. CASE reply' # reply
      <4>1. PICK e \in 1 .. Len(Text) : reply' = Text[e].a
        BY <1>21, <3>2
      <4> QED BY <1>21, <2>1, <3>2, <4>1
    <3> QED BY <3>1, <3>2
  <2>4. \A i \in 1 .. Len(Text') : Text'[i].a.n = asked /\ Text'[i].a.status = 200 => pc \in accepted
    BY <1>19, <2>1
  <2> QED BY <1>2, <2>2, <2>3, <2>4 DEF Current
<1>24. Incoming'
  <2> SUFFICES ASSUME encrypted PROVE Incoming'
    BY <1>2 DEF Incoming
  <2>1. /\ peerEncrypted
        /\ \A j \in 1 .. Len(Stream) : Stream[j].nonce = readNonce + ((j - 1) \div 2)
        /\ link = "up" => Len(Stream) % 2 = 0 /\ peerWrite = readNonce + (Len(Stream) \div 2)
    BY <1>1 DEF Incoming
  <2> DEFINE g == 2 * f
  <2>2. /\ Len(Stream') = Len(Stream) - g /\ g \in Nat /\ g <= Len(Stream)
        /\ \A i \in 1 .. Len(Stream') : Stream'[i] = Stream[g + i]
    BY <1>4 DEF GoesOn
  <2> HIDE DEF g
  <2>3. ASSUME NEW j \in 1 .. Len(Stream')
        PROVE  Stream'[j].nonce = readNonce' + ((j - 1) \div 2)
    <3>1. g + j \in 1 .. Len(Stream)
      BY <1>5, <2>2
    <3>2. Stream'[j].nonce = readNonce + (((g + j) - 1) \div 2)
      BY <2>1, <2>2, <3>1
    <3>3. ((g + j) - 1) \div 2 = f + ((j - 1) \div 2)
      BY DEF g
    <3>4. (j - 1) \div 2 \in Nat
      OBVIOUS
    <3> QED BY <1>4, <1>13, <3>2, <3>3, <3>4
  <2>4. ASSUME link = "up"
        PROVE  Len(Stream') % 2 = 0 /\ peerWrite = readNonce' + (Len(Stream') \div 2)
    <3> DEFINE l == Len(Stream)
    <3>1. l \in Nat /\ l % 2 = 0 /\ peerWrite = readNonce + (l \div 2)
      BY <1>5, <2>1, <2>4
    <3> HIDE DEF l
    <3>2. (l - 2 * f) % 2 = 0 /\ l \div 2 = f + ((l - 2 * f) \div 2) /\ (l - 2 * f) \div 2 \in Nat
      <4>1. 2 * f <= l
        BY <2>2 DEF g, l
      <4> QED BY <3>1, <4>1
    <3>3. Len(Stream') = l - 2 * f
      BY <2>2 DEF g, l
    <3> QED BY <1>4, <1>13, <3>1, <3>2, <3>3
  <2> QED BY <1>2, <2>1, <2>3, <2>4 DEF Incoming
<1>25. Plain'
  <2> SUFFICES ASSUME ~encrypted PROVE Plain'
    BY <1>2 DEF Plain
  <2>1. Text = Stream /\ Text' = Stream' /\ f = 0 /\ Len(P) # 0 /\ readNonce' = readNonce
    BY <1>2, <1>4, <1>13 DEF Text
  <2>2. Stream # <<>>
    <3>1. Len(Stream) = Len(P) + Len(R) /\ Len(P) \in Nat /\ Len(R) \in Nat
      <4>1. Stream = P \o R
        BY <1>4, <2>1
      <4>2. Len(P \o R) = Len(P) + Len(R)
        BY ConcatProperties
      <4>3. Len(P) \in Nat /\ Len(R) \in Nat
        BY LenProperties
      <4> QED BY <4>1, <4>2, <4>3
    <3>2. Len(Stream) # 0
      BY <2>1, <3>1
    <3> QED BY <3>2
  <2>3. /\ writeNonce' = 0 /\ readNonce' = 0 /\ peerWrite' = 0 /\ peerRead' = 0
        /\ pc' \in Verify \cup {"auth-setup", "failed"}
        /\ Len(toPeer') <= 1
        /\ \A k1 \in 1 .. Len(toPeer') : toPeer'[k1].nonces = <<>>
        /\ toPeer' # <<>> => ~peerEncrypted' /\ ~declined'
    BY <1>1, <1>2, <2>1 DEF Plain
  <2>4. pc # "failed" => waiting
    BY <1>1, <2>2 DEF Plain, Quiet
  <2>5. ASSUME pc # "failed"
        PROVE  (Answering \/ (reply \in Answers /\ Quiet /\ Agreed(reply.status))
                \/ reply = FailedReply)'
    <3>1. Answering \/ reply = FailedReply
      BY <1>1, <2>2, <2>4, <2>5 DEF Plain, Quiet, Asking
    <3>2. CASE reply = FailedReply
      <4>1. \A i \in 1 .. Len(waiters) : waiters[i] # asked
        BY <1>1, <2>4, <2>5, <3>2, Constants DEF Lines
      <4>2. reply' = reply
        BY <1>11, <4>1
      <4> QED BY <3>2, <4>2
    <3>3. CASE Answering
      <4>1. /\ reply = NoReply /\ waiters = <<asked>> /\ ready = <<>> /\ toPeer = <<>>
            /\ \A i \in 1 .. Len(Stream) : Stream[i].a = Stream[1].a /\ Stream[i].part = i
            /\ Agreed(Stream[1].a.status)
        BY <3>3 DEF Answering
      <4> DEFINE a == Stream[1].a
      <4>2. \/ A = <<a>> /\ Stream' = <<>>
            \/ A = <<>> /\ Stream' = Stream
        <5>1. Stream = P \o R /\ Stream' = Unparsed(P) \o R
          BY <1>4, <2>1
        <5>2. Tiled(Stream) /\ Stream \in Seq(Units) /\ Len(P) # 0
          BY <1>5, <2>1
        <5>3. \A i \in 1 .. Len(P \o R) : (P \o R)[i].a = a /\ (P \o R)[i].part = i
          BY <4>1, <5>1
        <5> HIDE DEF a
        <5>4. \/ Whole(P) = <<a>> /\ Unparsed(P) \o R = <<>>
              \/ Whole(P) = <<>> /\ Unparsed(P) \o R = P \o R
          BY <5>1, <5>2, <5>3, OneAnswer
        <5> QED BY <5>1, <5>4 DEF A
      <4>3. Len(waiters) = 1 /\ waiters[1] = asked
        BY <4>1
      <4>4. CASE A = <<a>> /\ Stream' = <<>>
        <5>1. Len(A) = 1 /\ A[1] = a
          BY <4>4
        <5>2. Len(waiters') = 0 /\ ready' = <<>>
          BY <1>11, <4>1, <4>3, <5>1
        <5>3. waiters' = <<>>
          BY <1>11, <5>2
        <5>4. reply' = a
          <6>1. 1 \in 1 .. Len(A) /\ 1 \in 1 .. Len(waiters)
            BY <4>3, <5>1
          <6>2. reply' # NoReply
            BY <1>2, <1>11, <2>4, <2>5, <5>3 DEF Lines
          <6>3. PICK i \in 1 .. Len(A) : reply' = A[i]
            BY <1>11, <4>1, <6>2
          <6>4. i = 1
            BY <5>1
          <6> QED BY <5>1, <6>3, <6>4
        <5>5. a \in Answers
          <6>1. 1 \in 1 .. Len(A)
            BY <5>1
          <6> QED BY <1>7, <5>1, <6>1, ElementOfSeq
        <5>6. Quiet'
          BY <1>2, <4>1, <4>4, <5>2, <5>3 DEF Quiet
        <5> QED BY <1>2, <4>1, <5>4, <5>5, <5>6 DEF Agreed, TurnsOn
      <4>5. CASE A = <<>> /\ Stream' = Stream
        <5>1. Len(A) = 0
          BY <4>5
        <5>2. reply' = reply
          BY <1>11, <5>1
        <5>3. waiters' = waiters /\ ready' = ready
          <6>1. Len(A) <= Len(waiters)
            BY <4>3, <5>1
          <6>2. Len(waiters') = Len(waiters) /\ ready' = ready
                /\ \A i \in 1 .. Len(waiters') : waiters'[i] = waiters[0 + i]
            BY <1>11, <1>13, <5>1, <6>1
          <6>3. \A i \in 1 .. Len(waiters') : waiters'[i] = waiters[i]
            <7>1. \A i \in 1 .. Len(waiters') : 0 + i = i
              BY <4>3, <6>2
            <7> QED BY <6>2, <7>1
          <6> QED BY <1>11, <1>13, <6>2, <6>3, SeqEqual
        <5>4. Answering'
          BY <1>2, <3>3, <4>5, <5>2, <5>3 DEF Answering, Agreed, TurnsOn
        <5> QED BY <5>4
      <4> QED BY <4>2, <4>4, <4>5
    <3> QED BY <3>1, <3>2, <3>3
  <2> QED BY <1>2, <2>3, <2>4, <2>5 DEF Plain
<1>26. Past'
  BY <1>1, <1>2 DEF Past
<1> QED
  BY <1>11, <1>14, <1>15, <1>16, <1>17, <1>18, <1>22, <1>23, <1>24, <1>25, <1>26 DEF Ind

-----------------------------------------------------------------------------
(* The connection fails: what has not come is lost, from some unit on.     *)

LEMMA Shortened ==
  ASSUME TypeOK, Boundary, NEW k \in 0 .. Len(toClient), toClient' = SubSeq(toClient, 1, k),
         UNCHANGED <<encrypted, buffer, plaintext>>
  PROVE  /\ toClient' \in Seq(Units) /\ Stream' \in Seq(Units) /\ Begins(Stream', Stream)
         /\ Text' \in Seq(Units) /\ Tiled(Text')
<1> DEFINE c == SubSeq(toClient, 1, k)
           r == SubSeq(toClient, k + 1, Len(toClient))
           b == buffer \o c
<1>1. buffer \in Seq(Units) /\ plaintext \in Seq(Units) /\ toClient \in Seq(Units)
  BY Typed
<1>2. c \in Seq(Units) /\ r \in Seq(Units) /\ c \o r = toClient /\ toClient' = c
  BY <1>1, Cut
<1> HIDE DEF c, r
<1>3. b \in Seq(Units) /\ Stream' = b
  <2>1. b \in Seq(Units)
    BY <1>1, <1>2, ConcatProperties
  <2> QED BY <1>2, <2>1 DEF Stream
<1>4. Stream = b \o r
  <2>1. (buffer \o c) \o r = buffer \o (c \o r)
    <3>1. buffer \in Seq(Units) /\ c \in Seq(Units) /\ r \in Seq(Units)
      BY <1>1, <1>2
    <3> QED BY <3>1, UnitsAssociate
  <2> QED BY <1>2, <2>1 DEF Stream
<1> HIDE DEF b
<1>5. ASSUME NEW X \in Seq(Units), NEW Y \in Seq(Units)
      PROVE  Begins(X, X \o Y)
  <2>1. Len(X \o Y) = Len(X) + Len(Y) /\ Len(X) \in Nat /\ Len(Y) \in Nat
        /\ \A i \in 1 .. Len(X) + Len(Y) : (X \o Y)[i] = IF i <= Len(X) THEN X[i] ELSE Y[i - Len(X)]
    BY ConcatProperties, LenProperties
  <2>2. \A i \in 1 .. Len(X) : i \in 1 .. Len(X) + Len(Y) /\ i <= Len(X)
    BY <2>1
  <2> QED BY <2>1, <2>2 DEF Begins
<1>6. Begins(Stream', Stream)
  BY <1>2, <1>3, <1>4, <1>5
<1>7. Text' \in Seq(Units) /\ Tiled(Text')
  <2>1. Text \in Seq(Units) /\ Tiled(Text)
    BY Reading DEF Boundary
  <2>2. CASE ~encrypted
    <3>1. Text' = b /\ Text = Stream
      BY <1>3, <2>2 DEF Text
    <3> QED BY <1>3, <1>6, <2>1, <3>1, TiledPrefix
  <2>3. CASE encrypted
    <3> DEFINE d == Rest(b) \o r
    <3>1. Rest(b) \in Seq(Units) /\ Decrypted(b) \in Seq(Units)
      BY <1>3, FramesOf
    <3>2. Decrypted(Stream) = Decrypted(b) \o Decrypted(d)
      BY <1>2, <1>3, <1>4, DecryptedSplits
    <3>3. Decrypted(d) \in Seq(Units)
      <4>1. d \in Seq(Units)
        BY <1>2, <3>1, ConcatProperties
      <4> QED BY <4>1, FramesOf
    <3> HIDE DEF d
    <3>4. plaintext \o Decrypted(b) \in Seq(Units)
      BY <1>1, <3>1, ConcatProperties
    <3>5. (plaintext \o Decrypted(b)) \o Decrypted(d) = plaintext \o (Decrypted(b) \o Decrypted(d))
      <4>1. plaintext \in Seq(Units) /\ Decrypted(b) \in Seq(Units) /\ Decrypted(d) \in Seq(Units)
        BY <1>1, <3>1, <3>3
      <4> QED BY <4>1, UnitsAssociate
    <3>6. Text' = plaintext \o Decrypted(b) /\ Text = plaintext \o Decrypted(Stream)
      BY <1>3, <2>3 DEF Text
    <3>7. Text = (plaintext \o Decrypted(b)) \o Decrypted(d)
      BY <3>2, <3>5, <3>6
    <3>8. Begins(plaintext \o Decrypted(b), (plaintext \o Decrypted(b)) \o Decrypted(d))
      BY <1>5, <3>3, <3>4
    <3>9. Begins(Text', Text) /\ Text' \in Seq(Units)
      BY <3>4, <3>6, <3>7, <3>8
    <3> QED BY <2>1, <3>9, TiledPrefix
  <2> QED BY <2>2, <2>3
<1> QED BY <1>2, <1>3, <1>6, <1>7

(* What is on its way to the receiver opens there. *)
LEMMA PeerOpened ==
  ASSUME TypeOK, Incoming, Outgoing, Plain, toPeer # <<>>
  PROVE  /\ Head(toPeer) = toPeer[1] /\ 1 \in 1 .. Len(toPeer)
         /\ PeerOpens(Head(toPeer))
         /\ peerEncrypted = encrypted
<1>1. toPeer \in Seq(Messages) /\ Len(toPeer) \in Nat
  BY Typed
<1>2. Head(toPeer) = toPeer[1] /\ 1 \in 1 .. Len(toPeer)
  BY <1>1
<1>3. CASE encrypted
  <2>1. peerEncrypted = TRUE
    <3>1. peerEncrypted /\ peerEncrypted \in BOOLEAN
      BY <1>3 DEF Incoming, TypeOK, HapTypeOK
    <3> QED BY <3>1
  <2>2. toPeer[1].nonces = Nonces(toPeer[1].what, peerRead)
    BY <1>2, <1>3 DEF Outgoing
  <2>3. PeerOpens(toPeer[1])
    BY <2>1, <2>2 DEF PeerOpens, Nonces
  <2>4. encrypted = TRUE
    BY <1>3 DEF TypeOK, HapTypeOK
  <2> QED BY <1>2, <2>1, <2>3, <2>4
<1>4. CASE ~encrypted
  <2>1. ~peerEncrypted /\ toPeer[1].nonces = <<>>
    BY <1>2, <1>4 DEF Plain
  <2>2. PeerOpens(toPeer[1])
    BY <2>1 DEF PeerOpens
  <2>3. encrypted = FALSE /\ peerEncrypted = FALSE
    BY <1>4, <2>1 DEF TypeOK, HapTypeOK
  <2> QED BY <1>2, <2>2, <2>3
<1> QED BY <1>3, <1>4

(* The waiters are told, or not. *)
LEMMA FailsKeepsLines ==
  ASSUME TypeOK, Lines, Fails, toClient' \in Seq(Units)
  PROVE  /\ TypeOK' /\ Lines'
         /\ FailWaiters \/ UNCHANGED <<waiters, ready, reply>>
         /\ waiters \in Seq(1 .. asked) /\ ready \in Seq(Answers)
         /\ reply \in Answers \cup {NoReply, FailedReply}
         /\ reply' = reply \/ reply' = FailedReply
<1>1. TypeOK /\ Lines
  OBVIOUS
<1>2. /\ link' = "failed" /\ toPeer' = <<>>
      /\ UNCHANGED <<encrypted, writeNonce, readNonce, buffer, plaintext, asked, waiting, last,
                     peerEncrypted, peerWrite, peerRead, timeouts, unanswered,
                     kind, pc, feedback, heard, accepted, declined>>
  BY DEF Fails, LinkFails, session, peer, counters, script, receiver
<1>3. /\ waiters \in Seq(1 .. asked) /\ ready \in Seq(Answers) /\ timeouts \in Nat /\ asked \in Nat
      /\ Len(waiters) \in Nat
  BY <1>1, Typed
<1>4. FailWaiters \/ UNCHANGED <<waiters, ready, reply>>
  BY DEF Fails, LinkFails
<1>5. reply \in Answers \cup {NoReply, FailedReply} /\ FailedReply # NoReply
      /\ NoReply \notin Answers /\ FailedReply \notin Answers
  BY <1>1, Constants DEF TypeOK, HapTypeOK
<1>6. ASSUME FailWaiters
      PROVE  /\ Lines' /\ waiters' \in Seq(1 .. asked) /\ ready' \in Seq(Answers)
             /\ reply' \in Answers \cup {NoReply, FailedReply} /\ Len(waiters') <= Len(waiters)
  <2>1. /\ waiters' = <<>> /\ ready' = ready
        /\ reply' = IF waiting /\ asked \in Range(waiters) THEN FailedReply ELSE reply
    BY <1>6 DEF FailWaiters
  <2>2. ASSUME NEW i \in 1 .. Len(waiters), waiters[i] = asked PROVE asked \in Range(waiters)
    <3>1. DOMAIN waiters = 1 .. Len(waiters)
      BY <1>3
    <3> QED BY <2>2, <3>1 DEF Range
  <2>3. Lines'
    <3>1. ASSUME waiting, reply' = NoReply PROVE FALSE
      <4>1. reply = NoReply /\ asked \notin Range(waiters)
        BY <1>5, <2>1, <3>1
      <4>2. waiters # <<>> /\ waiters[Len(waiters)] = asked
        BY <1>1, <3>1, <4>1 DEF Lines
      <4>3. Len(waiters) \in 1 .. Len(waiters)
        <5>1. Len(waiters) # 0
          BY <1>3, <4>2
        <5> QED BY <1>3, <5>1
      <4> QED BY <2>2, <4>1, <4>2, <4>3
    <3>2. ~waiting => reply' = NoReply
      BY <1>1, <2>1 DEF Lines
    <3>3. Len(waiters') = 0 /\ 0 <= timeouts
      BY <1>3, <2>1
    <3>4. waiting' = waiting /\ timeouts' = timeouts /\ Len(waiters') = 0
      BY <1>2, <3>3
    <3>5. Len(waiters') <= timeouts' + (IF waiting' /\ reply' = NoReply THEN 1 ELSE 0)
      <4>1. ~(waiting' /\ reply' = NoReply)
        BY <3>1, <3>4
      <4>2. 0 <= timeouts + 0
        BY <1>3
      <4> QED BY <3>4, <4>1, <4>2
    <3>6. \A i \in 1 .. Len(waiters') : FALSE
      BY <3>4
    <3> QED BY <3>1, <3>2, <3>4, <3>5, <3>6 DEF Lines
  <2>4. /\ waiters' \in Seq(1 .. asked) /\ ready' \in Seq(Answers)
        /\ reply' \in Answers \cup {NoReply, FailedReply} /\ Len(waiters') <= Len(waiters)
    <3>1. waiters' \in Seq(1 .. asked) /\ Len(waiters') = 0
      BY <2>1
    <3> QED BY <1>3, <1>5, <2>1, <3>1
  <2> QED BY <2>3, <2>4
<1>7. ASSUME UNCHANGED <<waiters, ready, reply>>
      PROVE  /\ Lines' /\ waiters' \in Seq(1 .. asked) /\ ready' \in Seq(Answers)
             /\ reply' \in Answers \cup {NoReply, FailedReply} /\ Len(waiters') <= Len(waiters)
  <2>1. Lines'
    BY <1>1, <1>2, <1>7 DEF Lines
  <2>2. Len(waiters') <= Len(waiters)
    BY <1>3, <1>7
  <2> QED BY <1>3, <1>5, <1>7, <2>1, <2>2
<1>8. /\ Lines' /\ waiters' \in Seq(1 .. asked) /\ ready' \in Seq(Answers)
      /\ reply' \in Answers \cup {NoReply, FailedReply} /\ Len(waiters') <= Len(waiters)
  BY <1>4, <1>6, <1>7
<1>9. TypeOK'
  <2>1. Len(waiters') <= timeouts' + (IF waiting' THEN 1 ELSE 0)
    <3>1. Len(waiters) <= timeouts + (IF waiting THEN 1 ELSE 0)
      BY <1>1 DEF TypeOK, HapTypeOK
    <3>2. Len(waiters') \in Nat
      BY <1>8
    <3>3. (IF waiting THEN 1 ELSE 0) \in Nat
      OBVIOUS
    <3>4. Len(waiters') <= timeouts + (IF waiting THEN 1 ELSE 0)
      BY <1>3, <1>8, <3>1, <3>2, <3>3
    <3> QED BY <1>2, <3>4
  <2>2. {writeNonce', readNonce', peerWrite', peerRead', asked'} \subseteq Nat
    BY <1>1, <1>2, Typed
  <2>3. toPeer' \in Seq(Messages) /\ forged' \in BOOLEAN
    BY <1>1, <1>2 DEF TypeOK, HapTypeOK, Fails, LinkFails
  <2>4. HapTypeOK'
    BY <1>1, <1>2, <1>8, <2>1, <2>2, <2>3 DEF TypeOK, HapTypeOK
  <2> QED BY <1>1, <1>2, <2>4 DEF TypeOK
<1>10. reply' = reply \/ reply' = FailedReply
  BY <1>4 DEF FailWaiters
<1> QED BY <1>3, <1>4, <1>5, <1>8, <1>9, <1>10

LEMMA FailsKeeps ==
  ASSUME Ind, Fails
  PROVE  Ind'
<1>1. /\ TypeOK /\ Counted /\ Lines /\ Matched /\ Owed /\ Leftover /\ Boundary
      /\ Incoming /\ Outgoing /\ Plain /\ Past /\ Current /\ Progress
      /\ OwnAnswer /\ FramesOpen /\ NothingUnasked
  BY DEF Ind
<1>2. /\ link' = "failed" /\ toPeer' = <<>>
      /\ UNCHANGED <<encrypted, writeNonce, readNonce, buffer, plaintext, asked, waiting, last,
                     peerEncrypted, peerWrite, peerRead, timeouts, unanswered,
                     kind, pc, feedback, heard, accepted, declined>>
  BY DEF Fails, LinkFails, session, peer, counters, script, receiver
<1>3. PICK k \in 0 .. Len(toClient) : toClient' = SubSeq(toClient, 1, k)
  BY DEF Fails, LinkFails
<1>4. /\ toClient' \in Seq(Units) /\ Stream' \in Seq(Units) /\ Begins(Stream', Stream)
      /\ Text' \in Seq(Units) /\ Tiled(Text')
  BY <1>1, <1>2, <1>3, Shortened
<1>5. FramesOpen'
  <2>1. forged' = (forged \/ (toPeer # <<>> /\ ~PeerOpens(Head(toPeer))))
    BY DEF Fails, LinkFails
  <2>2. toPeer # <<>> => PeerOpens(Head(toPeer))
    BY <1>1, PeerOpened
  <2> QED BY <1>1, <2>1, <2>2 DEF FramesOpen
<1>6. /\ TypeOK' /\ Lines'
      /\ FailWaiters \/ UNCHANGED <<waiters, ready, reply>>
      /\ waiters \in Seq(1 .. asked) /\ ready \in Seq(Answers)
      /\ reply \in Answers \cup {NoReply, FailedReply}
  BY <1>1, <1>4, FailsKeepsLines
<1>7. Stream \in Seq(Units)
  BY <1>1, Reading
<1>8. FailedReply # NoReply /\ NoReply \notin Answers /\ FailedReply \notin Answers
  BY Constants
<1>9. Counted' /\ OwnAnswer' /\ NothingUnasked' /\ Matched' /\ Current' /\ Owed' /\ Boundary'
  <2>1. Counted' /\ OwnAnswer' /\ NothingUnasked'
    BY <1>1, <1>2 DEF Counted, OwnAnswer, NothingUnasked
  <2>2. Matched' /\ Current'
    BY <1>2 DEF Matched, Current
  <2>3. Len(toPeer') = 0
    BY <1>2
  <2>4. Owed'
    BY <1>2, <2>3 DEF Owed
  <2>5. Boundary'
    BY <1>2, <1>4 DEF Boundary
  <2> QED BY <2>1, <2>2, <2>4, <2>5
<1>10. Leftover'
  BY <1>1, <1>2 DEF Leftover
<1>11. Progress'
  BY <1>2 DEF Progress
<1>12. Outgoing'
  BY <1>2 DEF Outgoing
<1>13. Incoming'
  <2>1. \A j \in 1 .. Len(Stream') : j \in 1 .. Len(Stream) /\ Stream'[j] = Stream[j]
    <3>1. Len(Stream') <= Len(Stream) /\ Len(Stream') \in Nat /\ Len(Stream) \in Nat
          /\ \A j \in 1 .. Len(Stream') : Stream'[j] = Stream[j]
      BY <1>4, <1>7 DEF Begins
    <3> QED BY <3>1
  <2> QED BY <1>1, <1>2, <2>1 DEF Incoming
<1>14. Plain'
  <2> SUFFICES ASSUME ~encrypted PROVE Plain'
    BY <1>2 DEF Plain
  <2>1. Stream = <<>> => Stream' = <<>>
    <3>1. ASSUME Stream = <<>> PROVE Stream' = <<>>
      <4>1. Len(Stream') <= 0 /\ Len(Stream') \in Nat
        BY <1>4, <3>1 DEF Begins
      <4>2. Len(Stream') = 0
        BY <4>1
      <4> QED BY <1>4, <4>2
    <3> QED BY <3>1
  <2>2. /\ writeNonce' = 0 /\ readNonce' = 0 /\ peerWrite' = 0 /\ peerRead' = 0
        /\ pc' \in Verify \cup {"auth-setup", "failed"} /\ Len(toPeer') = 0
    BY <1>1, <1>2 DEF Plain
  <2>3. ASSUME pc # "failed", ~waiting PROVE Quiet' /\ ~peerEncrypted' /\ ~declined'
    <3>1. Quiet /\ ~peerEncrypted /\ ~declined
      BY <1>1, <2>3 DEF Plain
    <3>2. waiters' = <<>> /\ ready' = <<>>
      BY <1>6, <3>1 DEF Quiet, FailWaiters
    <3> QED BY <1>2, <2>1, <3>1, <3>2 DEF Quiet
  <2>4. ASSUME pc # "failed", waiting
        PROVE  (Asking \/ Answering
                \/ (reply \in Answers /\ Quiet /\ Agreed(reply.status))
                \/ reply = FailedReply)'
    <3>1. \/ Asking
          \/ Answering
          \/ reply \in Answers /\ Quiet /\ Agreed(reply.status)
          \/ reply = FailedReply
      BY <1>1, <2>4 DEF Plain
    <3>2. CASE reply' = FailedReply
      BY <3>2
    <3>3. CASE reply' # FailedReply /\ waiters = <<asked>> /\ ready = <<>> /\ reply = NoReply
      <4>1. Len(waiters) = 1 /\ waiters[1] = asked /\ 1 \in 1 .. Len(waiters)
        BY <3>3
      <4>2. UNCHANGED <<waiters, ready, reply>>
        <5>1. ASSUME FailWaiters PROVE FALSE
          <6>1. DOMAIN waiters = 1 .. Len(waiters)
            BY <1>6
          <6>2. asked \in Range(waiters)
            BY <4>1, <6>1 DEF Range
          <6> QED BY <2>4, <3>3, <5>1, <6>2 DEF FailWaiters
        <5> QED BY <1>6, <5>1
      <4>3. CASE Asking
        <5>1. Asking'
          BY <1>2, <2>1, <4>2, <4>3 DEF Asking
        <5> QED BY <5>1
      <4>4. CASE Answering
        <5>1. CASE Stream' = <<>>
          <6>1. Asking'
            BY <1>2, <3>3, <4>2, <5>1 DEF Asking
          <6> QED BY <6>1
        <5>2. CASE Stream' # <<>>
          <6>1. Len(Stream') <= Len(Stream) /\ Len(Stream') \in Nat /\ Len(Stream) \in Nat
                /\ \A j \in 1 .. Len(Stream') : Stream'[j] = Stream[j]
            BY <1>4, <1>7 DEF Begins
          <6>2. Len(Stream') # 0
            BY <1>4, <5>2
          <6>3. 1 \in 1 .. Len(Stream') /\ \A j \in 1 .. Len(Stream') : j \in 1 .. Len(Stream)
            BY <6>1, <6>2
          <6>4. \A i \in 1 .. Len(Stream') : Stream'[i].a = Stream'[1].a /\ Stream'[i].part = i
            BY <4>4, <6>1, <6>3 DEF Answering
          <6>5. Stream'[1] = Stream[1]
            BY <6>1, <6>3
          <6>6. Answering'
            BY <1>2, <3>3, <4>2, <4>4, <5>2, <6>4, <6>5 DEF Answering, Agreed, TurnsOn
          <6> QED BY <6>6
        <5> QED BY <5>1, <5>2
      <4>5. CASE ~Asking /\ ~Answering
        BY <1>6, <1>8, <3>1, <3>3, <4>5
      <4> QED BY <4>3, <4>4, <4>5
    <3>4. CASE reply \in Answers /\ Quiet /\ Agreed(reply.status)
      <4>1. waiters' = <<>> /\ ready' = <<>>
        BY <1>6, <3>4 DEF Quiet, FailWaiters
      <4>2. reply' = reply
        <5>1. waiters = <<>>
          BY <3>4 DEF Quiet
        <5>2. asked \notin Range(waiters)
          BY <5>1 DEF Range
        <5> QED BY <1>6, <5>2 DEF FailWaiters
      <4>3. Quiet'
        BY <1>2, <2>1, <3>4, <4>1 DEF Quiet
      <4> QED BY <1>2, <3>4, <4>2, <4>3 DEF Agreed, TurnsOn
    <3>5. CASE reply = FailedReply
      <4>1. reply' = FailedReply
        BY <1>6, <3>5 DEF FailWaiters
      <4> QED BY <4>1
    <3>6. Asking \/ Answering => waiters = <<asked>> /\ ready = <<>> /\ reply = NoReply
      BY DEF Asking, Answering
    <3> QED BY <3>1, <3>2, <3>3, <3>4, <3>5, <3>6
  <2>5. \A k1 \in 1 .. Len(toPeer') : toPeer'[k1].nonces = <<>>
    BY <2>2
  <2> QED BY <1>2, <2>2, <2>3, <2>4, <2>5 DEF Plain
<1>15. Past'
  BY <1>1, <1>2 DEF Past
<1> QED BY <1>5, <1>6, <1>9, <1>10, <1>11, <1>12, <1>13, <1>14, <1>15 DEF Ind

-----------------------------------------------------------------------------
(* Handle: one answer more comes after those that are on their way.        *)

LEMMA SealedUnits ==
  ASSUME NEW a \in Answers, peerWrite \in Nat
  PROVE  /\ Sealed(a) \in Seq(Units) /\ Len(Sealed(a)) = 2 * a.of
         /\ \A u \in 1 .. 2 * a.of : /\ Sealed(a)[u].a = a
                                     /\ Sealed(a)[u].part = (u + 1) \div 2
                                     /\ Sealed(a)[u].nonce = peerWrite + ((u - 1) \div 2)
         /\ InTheClear(a) \in Seq(Units) /\ Len(InTheClear(a)) = a.of
         /\ Spells(InTheClear(a), a)
<1>1. a.of \in 1 .. 2 /\ a.of \in Nat /\ 2 * a.of \in Nat
  BY DEF Answers, Parts
<1> DEFINE unit(p, x, h) == [a |-> a, part |-> p, nonce |-> x, half |-> h]
<1>2. ASSUME NEW p \in 1 .. 2, NEW x \in Nat, NEW h \in 0 .. 2
      PROVE  unit(p, x, h) \in Units
  BY DEF Units, Parts
<1>3. ASSUME NEW u \in 1 .. 2 * a.of
      PROVE  LET i == (u + 1) \div 2 IN
             /\ i \in 1 .. 2 /\ peerWrite + i - 1 \in Nat /\ u - 2 * (i - 1) \in 0 .. 2
             /\ peerWrite + i - 1 = peerWrite + ((u - 1) \div 2)
  <2>1. u \in {1, 2, 3, 4}
    BY <1>1
  <2>2. (1 + 1) \div 2 = 1 /\ (2 + 1) \div 2 = 1 /\ (3 + 1) \div 2 = 2 /\ (4 + 1) \div 2 = 2
        /\ (1 - 1) \div 2 = 0 /\ (2 - 1) \div 2 = 0 /\ (3 - 1) \div 2 = 1 /\ (4 - 1) \div 2 = 1
    OBVIOUS
  <2>3. CASE u = 1 \/ u = 2
    <3>1. (u + 1) \div 2 = 1 /\ (u - 1) \div 2 = 0
      BY <2>2, <2>3
    <3>2. u - 2 * (1 - 1) \in 0 .. 2 /\ 1 \in 1 .. 2
      BY <2>3
    <3> QED BY <3>1, <3>2
  <2>4. CASE u = 3 \/ u = 4
    <3>1. (u + 1) \div 2 = 2 /\ (u - 1) \div 2 = 1
      BY <2>2, <2>4
    <3>2. u - 2 * (2 - 1) \in 0 .. 2 /\ 2 \in 1 .. 2
      BY <2>4
    <3> QED BY <3>1, <3>2
  <2> QED BY <2>1, <2>3, <2>4
<1>4. Sealed(a) = [u \in 1 .. 2 * a.of |->
                     unit((u + 1) \div 2, peerWrite + ((u + 1) \div 2) - 1,
                          u - 2 * (((u + 1) \div 2) - 1))]
  BY DEF Sealed
<1>5. InTheClear(a) = [i \in 1 .. a.of |-> unit(i, 0, 0)]
  BY DEF InTheClear
<1>6. Sealed(a) \in Seq(Units) /\ Len(Sealed(a)) = 2 * a.of
  <2>1. \A u \in 1 .. 2 * a.of :
          unit((u + 1) \div 2, peerWrite + ((u + 1) \div 2) - 1, u - 2 * (((u + 1) \div 2) - 1))
            \in Units
    BY <1>2, <1>3
  <2> HIDE DEF unit
  <2>2. Sealed(a) \in [1 .. 2 * a.of -> Units]
    BY <1>4, <2>1
  <2> QED BY <1>1, <2>2
<1>7. InTheClear(a) \in Seq(Units) /\ Len(InTheClear(a)) = a.of
  <2>1. \A i \in 1 .. a.of : i \in 1 .. 2
    BY <1>1
  <2>2. \A i \in 1 .. a.of : unit(i, 0, 0) \in Units
    <3>1. 0 \in Nat /\ 0 \in 0 .. 2
      OBVIOUS
    <3>2. \A p \in 1 .. 2 : unit(p, 0, 0) \in Units
      BY <1>2, <3>1
    <3> HIDE DEF unit
    <3> QED BY <2>1, <3>2
  <2> HIDE DEF unit
  <2>3. InTheClear(a) \in [1 .. a.of -> Units]
    BY <1>5, <2>2
  <2> QED BY <1>1, <2>3
<1>8. \A u \in 1 .. 2 * a.of : /\ Sealed(a)[u].a = a
                               /\ Sealed(a)[u].part = (u + 1) \div 2
                               /\ Sealed(a)[u].nonce = peerWrite + ((u - 1) \div 2)
  <2> TAKE u \in 1 .. 2 * a.of
  <2>1. Sealed(a)[u] = unit((u + 1) \div 2, peerWrite + ((u + 1) \div 2) - 1,
                            u - 2 * (((u + 1) \div 2) - 1))
    <3> HIDE DEF unit
    <3> QED BY <1>4
  <2>2. peerWrite + ((u + 1) \div 2) - 1 = peerWrite + ((u - 1) \div 2)
    BY <1>3
  <2> QED BY <2>1, <2>2
<1>9. Spells(InTheClear(a), a)
  <2>1. \A i \in 1 .. a.of : InTheClear(a)[i].a = a /\ InTheClear(a)[i].part = i
    BY <1>5
  <2> QED BY <1>7, <2>1 DEF Spells
<1> QED BY <1>6, <1>7, <1>8, <1>9

LEMMA Sent ==
  ASSUME TypeOK, Incoming, link = "up", NEW a \in Answers,
         toClient' = toClient \o (IF encrypted THEN Sealed(a) ELSE InTheClear(a)),
         UNCHANGED <<encrypted, buffer, plaintext>>
  PROVE  /\ toClient' \in Seq(Units) /\ Stream' \in Seq(Units)
         /\ Stream' = Stream \o (IF encrypted THEN Sealed(a) ELSE InTheClear(a))
         /\ \E M \in Seq(Units) : Spells(M, a) /\ Text' = Text \o M
<1> DEFINE m == IF encrypted THEN Sealed(a) ELSE InTheClear(a)
<1>1. /\ buffer \in Seq(Units) /\ plaintext \in Seq(Units) /\ toClient \in Seq(Units)
      /\ peerWrite \in Nat /\ Stream \in Seq(Units) /\ Decrypted(Stream) \in Seq(Units)
  BY Typed, Reading
<1>2. m \in Seq(Units)
  BY <1>1, SealedUnits
<1>3. toClient' = toClient \o m
  OBVIOUS
<1> HIDE DEF m
<1>4. toClient' \in Seq(Units)
  BY <1>1, <1>2, <1>3, ConcatProperties
<1>5. Stream' = Stream \o m
  <2>1. buffer \o (toClient \o m) = (buffer \o toClient) \o m
    <3>1. buffer \in Seq(Units) /\ toClient \in Seq(Units) /\ m \in Seq(Units)
      BY <1>1, <1>2
    <3> QED BY <3>1, UnitsAssociate
  <2> QED BY <1>3, <2>1 DEF Stream
<1>6. Stream' \in Seq(Units)
  BY <1>1, <1>2, <1>5, ConcatProperties
<1>7. \E M \in Seq(Units) : Spells(M, a) /\ Text' = Text \o M
  <2>1. CASE ~encrypted
    <3>1. m = InTheClear(a)
      BY <2>1 DEF m
    <3>2. Text' = Text \o m
      BY <1>5, <2>1 DEF Text
    <3> QED BY <1>1, <1>2, <3>1, <3>2, SealedUnits
  <2>2. CASE encrypted
    <3>1. m = Sealed(a)
      BY <2>2 DEF m
    <3>2. Decrypted(Stream \o m) = Decrypted(Stream) \o Decrypted(Rest(Stream) \o m)
      BY <1>1, <1>2, DecryptedSplits
    <3>3. Rest(Stream) = <<>>
      <4>1. /\ Rest(Stream) \in Seq(Units) /\ Len(Rest(Stream)) = Len(Stream) - 2 * Frames(Stream)
        BY <1>1, FramesOf
      <4>2. Len(Stream) % 2 = 0 /\ Len(Stream) \in Nat
        BY <1>1, <2>2, LenProperties DEF Incoming
      <4>3. Frames(Stream) = Len(Stream) \div 2
        BY DEF Frames
      <4>4. Len(Rest(Stream)) = 0
        <5>1. \A l \in Nat : l % 2 = 0 => l - 2 * (l \div 2) = 0
          OBVIOUS
        <5> QED BY <4>1, <4>2, <4>3, <5>1
      <4> QED BY <4>1, <4>4
    <3>4. Rest(Stream) \o m = m
      BY <1>2, <3>3, ConcatEmptySeq
    <3> DEFINE M == Decrypted(m)
    <3>5. /\ M \in Seq(Units) /\ Len(M) = Frames(m)
          /\ \A i \in 1 .. Frames(m) : M[i] = m[2 * i] /\ 2 * i \in 1 .. Len(m)
      BY <1>2, FramesOf
    <3> HIDE DEF M
    <3>6. Spells(M, a)
      <4>1. Len(m) = 2 * a.of /\ a.of \in Nat
        BY <1>1, <3>1, SealedUnits DEF Answers, Parts
      <4>2. Frames(m) = a.of
        <5>1. \A x \in Nat : (2 * x) \div 2 = x
          OBVIOUS
        <5> QED BY <4>1, <5>1 DEF Frames
      <4>3. ASSUME NEW i \in 1 .. Len(M) PROVE M[i].a = a /\ M[i].part = i
        <5>1. M[i] = m[2 * i] /\ 2 * i \in 1 .. 2 * a.of
          BY <3>5, <4>1
        <5>2. M[i].a = a /\ M[i].part = (2 * i + 1) \div 2
          <6>1. \A u \in 1 .. 2 * a.of : m[u].a = a /\ m[u].part = (u + 1) \div 2
            BY <1>1, <3>1, SealedUnits
          <6> QED BY <5>1, <6>1
        <5>3. (2 * i + 1) \div 2 = i
          <6>1. \A x \in Nat : (2 * x + 1) \div 2 = x
            OBVIOUS
          <6>2. i \in Nat
            BY <3>5
          <6> QED BY <6>1, <6>2
        <5> QED BY <5>2, <5>3
      <4> QED BY <3>5, <4>2, <4>3 DEF Spells
    <3>7. Text' = Text \o M
      <4>1. Text' = plaintext \o (Decrypted(Stream) \o M)
        BY <1>5, <2>2, <3>2, <3>4 DEF Text, M
      <4>2. plaintext \o (Decrypted(Stream) \o M) = (plaintext \o Decrypted(Stream)) \o M
        <5>1. plaintext \in Seq(Units) /\ Decrypted(Stream) \in Seq(Units) /\ M \in Seq(Units)
          BY <1>1, <3>5
        <5> QED BY <5>1, UnitsAssociate
      <4> QED BY <2>2, <4>1, <4>2 DEF Text
    <3> QED BY <3>5, <3>6, <3>7
  <2> QED BY <2>1, <2>2
<1> QED BY <1>4, <1>5, <1>6, <1>7 DEF m

LEMMA ReceiveKeeps ==
  ASSUME Ind, Receive
  PROVE  Ind'
<1>1. /\ TypeOK /\ Counted /\ Lines /\ Matched /\ Owed /\ Leftover /\ Boundary
      /\ Incoming /\ Outgoing /\ Plain /\ Past /\ Current /\ Progress
      /\ OwnAnswer /\ FramesOpen /\ NothingUnasked
  BY DEF Ind
<1>2. PICK status \in Statuses, refuses \in BOOLEAN :
        LET what == Head(toPeer).what IN
        /\ toPeer # <<>>
        /\ refuses => what = "verify M3" /\ status = 200
        /\ Handle(status, \/ what = "verify M3" /\ status = 200 /\ ~refuses
                          \/ what = "auth-setup" /\ kind.transient)
        /\ heard' = heard \cup {what}
        /\ accepted' = IF status = 200 THEN accepted \cup {what} ELSE accepted
        /\ declined' = (declined \/ refuses)
        /\ UNCHANGED script
  BY DEF Receive
<1>3. /\ toPeer # <<>> /\ PeerOpens(Head(toPeer))
      /\ toPeer' = Tail(toPeer)
      /\ peerRead' = (IF peerEncrypted THEN peerRead + PartsOf(Head(toPeer).what) ELSE peerRead)
      /\ \/ /\ toClient' = toClient \o
                 (IF peerEncrypted
                    THEN Sealed([n |-> Head(toPeer).n, status |-> status,
                                 of |-> PartsOf(Head(toPeer).what)])
                    ELSE InTheClear([n |-> Head(toPeer).n, status |-> status,
                                     of |-> PartsOf(Head(toPeer).what)]))
            /\ peerWrite' = (IF peerEncrypted
                               THEN peerWrite + [n |-> Head(toPeer).n, status |-> status,
                                                 of |-> PartsOf(Head(toPeer).what)].of
                               ELSE peerWrite)
            /\ peerEncrypted' =
                 (peerEncrypted \/ (\/ Head(toPeer).what = "verify M3" /\ status = 200 /\ ~refuses
                                    \/ Head(toPeer).what = "auth-setup" /\ kind.transient))
            /\ unanswered' = unanswered
         \/ /\ Cardinality(unanswered) < MaxSilent
            /\ unanswered' = unanswered \cup {Head(toPeer).n}
            /\ UNCHANGED <<toClient, peerWrite, peerEncrypted>>
      /\ UNCHANGED <<session, client, caller, link, timeouts, forged, script>>
      /\ heard' = heard \cup {Head(toPeer).what}
      /\ accepted' = (IF status = 200 THEN accepted \cup {Head(toPeer).what} ELSE accepted)
  BY <1>2 DEF Handle
<1> DEFINE m == Head(toPeer)
           l == Len(toPeer)
           on == \/ m.what = "verify M3" /\ status = 200 /\ ~refuses
                 \/ m.what = "auth-setup" /\ kind.transient
<1> DEFINE a == [n |-> m.n, status |-> status, of |-> PartsOf(m.what)]
           Answers1 == /\ toClient' = toClient \o IF peerEncrypted THEN Sealed(a) ELSE InTheClear(a)
                       /\ peerWrite' = IF peerEncrypted THEN peerWrite + a.of ELSE peerWrite
                       /\ peerEncrypted' = (peerEncrypted \/ on)
                       /\ unanswered' = unanswered
           Leaves == /\ Cardinality(unanswered) < MaxSilent
                     /\ unanswered' = unanswered \cup {m.n}
                     /\ UNCHANGED <<toClient, peerWrite, peerEncrypted>>
<1>4. /\ UNCHANGED <<encrypted, writeNonce, readNonce, buffer, plaintext, waiters, ready, asked,
                     waiting, reply, last, link, timeouts, forged, kind, pc, feedback>>
      /\ toPeer' = Tail(toPeer)
      /\ peerRead' = IF peerEncrypted THEN peerRead + PartsOf(m.what) ELSE peerRead
      /\ heard' = heard \cup {m.what}
      /\ accepted' = IF status = 200 THEN accepted \cup {m.what} ELSE accepted
      /\ Answers1 \/ Leaves
  <2>1. UNCHANGED <<encrypted, writeNonce, readNonce, buffer, plaintext, waiters, ready, asked,
                    waiting, reply, last, link, timeouts, forged, kind, pc, feedback>>
    BY <1>3 DEF session, client, caller, script
  <2>2. Answers1 \/ Leaves
    BY <1>3, Zenon
  <2> QED BY <1>3, <2>1, <2>2
<1>5. /\ declined' = (declined \/ refuses)
      /\ refuses => m.what = "verify M3" /\ status = 200
  BY <1>2
<1>6. /\ m = toPeer[1] /\ 1 \in 1 .. l /\ PeerOpens(m) /\ peerEncrypted = encrypted
  BY <1>1, <1>3, PeerOpened
<1>7. /\ toPeer' \in Seq(Messages) /\ l \in Nat /\ Len(toPeer') = l - 1 /\ Len(toPeer') \in Nat
      /\ \A k \in 1 .. Len(toPeer') : toPeer'[k] = toPeer[k + 1] /\ k + 1 \in 1 .. l
      /\ m \in Messages
  <2>1. toPeer \in Seq(Messages) /\ l \in Nat
    BY <1>1, Typed
  <2>2. /\ Tail(toPeer) \in Seq(Messages) /\ Len(Tail(toPeer)) = l - 1 /\ m \in Messages
        /\ \A k \in 1 .. Len(Tail(toPeer)) : Tail(toPeer)[k] = toPeer[k + 1]
    BY <1>3, <2>1, HeadTailProperties
  <2>3. l - 1 \in Nat /\ \A k \in 1 .. l - 1 : k + 1 \in 1 .. l
    BY <1>6, <2>1
  <2> QED BY <1>4, <2>1, <2>2, <2>3
<1>8. link = "up" /\ m.n \in 1 .. asked /\ m.what \in Labels
  BY <1>1, <1>3, <1>6 DEF Owed
<1>9. /\ asked \in Nat /\ Len(waiters) \in Nat /\ waiters \in Seq(1 .. asked)
      /\ peerRead \in Nat /\ peerWrite \in Nat /\ writeNonce \in Nat /\ readNonce \in Nat
      /\ PartsOf(m.what) \in 1 .. 2
  BY <1>1, Typed, Constants
<1>10. a \in Answers
  <2>1. m.n \in Nat
    BY <1>8, <1>9
  <2> HIDE DEF m
  <2> QED BY <1>9, <2>1 DEF Answers, Parts
<1>11. a.n = m.n /\ a.status = status /\ a.of = PartsOf(m.what) /\ a.of \in Nat
  BY <1>9
<1>12. /\ Text \in Seq(Units) /\ Tiled(Text) /\ Complete(Text) /\ Len(Text) \in Nat
       /\ Whole(Text) \in Seq(Answers) /\ Len(Whole(Text)) \in Nat
       /\ Stream \in Seq(Units) /\ Len(Stream) \in Nat
  <2>1. Stream \in Seq(Units)
    BY <1>1, Reading
  <2> QED BY <1>1, <1>8, <2>1, Reading, LenProperties DEF Boundary
<1> HIDE DEF m, l, a, on
<1> DEFINE W == Whole(Text)
           w == Len(Whole(Text))
           V == Whole(Text')
<1>13. ASSUME Leaves
       PROVE  Stream' = Stream /\ Text' = Text
  BY <1>4, <1>13 DEF Stream, Text
<1>14. ASSUME Answers1
       PROVE  /\ toClient' \in Seq(Units) /\ Stream' \in Seq(Units)
              /\ Stream' = Stream \o (IF encrypted THEN Sealed(a) ELSE InTheClear(a))
              /\ \E M \in Seq(Units) : Spells(M, a) /\ Text' = Text \o M
  <2>1. toClient' = toClient \o (IF encrypted THEN Sealed(a) ELSE InTheClear(a))
    BY <1>6, <1>14
  <2>2. UNCHANGED <<encrypted, buffer, plaintext>>
    BY <1>4
  <2> QED BY <1>1, <1>8, <1>10, <2>1, <2>2, Sent
<1>15. ASSUME Answers1
       PROVE  /\ Text' \in Seq(Units) /\ Tiled(Text') /\ Complete(Text')
              /\ V = W \o <<a>>
              /\ \A i \in 1 .. Len(Text') : \/ i \in 1 .. Len(Text) /\ Text'[i] = Text[i]
                                            \/ Text'[i].a = a
  <2>1. PICK M \in Seq(Units) : Spells(M, a) /\ Text' = Text \o M
    BY <1>14, <1>15
  <2>2. /\ Text \o M \in Seq(Units) /\ Tiled(Text \o M) /\ Complete(Text \o M)
        /\ Whole(Text \o M) = Whole(Text) \o <<a>>
    BY <1>10, <1>12, <2>1, WholeOfMore
  <2>3. /\ Len(Text \o M) = Len(Text) + Len(M) /\ Len(M) \in Nat
        /\ \A i \in 1 .. Len(Text) + Len(M) :
             (Text \o M)[i] = IF i <= Len(Text) THEN Text[i] ELSE M[i - Len(Text)]
    BY <1>12, ConcatProperties, LenProperties
  <2>4. ASSUME NEW i \in 1 .. Len(Text \o M)
        PROVE  (i \in 1 .. Len(Text) /\ (Text \o M)[i] = Text[i]) \/ (Text \o M)[i].a = a
    <3>1. CASE i <= Len(Text)
      BY <1>12, <2>3, <3>1
    <3>2. CASE ~(i <= Len(Text))
      <4>1. i - Len(Text) \in 1 .. Len(M) /\ (Text \o M)[i] = M[i - Len(Text)]
        BY <1>12, <2>3, <3>2
      <4> QED BY <2>1, <4>1 DEF Spells
    <3> QED BY <3>1, <3>2
  <2> QED BY <2>1, <2>2, <2>4
<1>16. ASSUME Answers1
       PROVE  /\ Len(V) = w + 1 /\ V[w + 1] = a
              /\ \A k \in 1 .. w : V[k] = W[k]
  <2>1. W \in Seq(Answers) /\ <<a>> \in Seq(Answers) /\ Len(<<a>>) = 1 /\ <<a>>[1] = a
    BY <1>10, <1>12
  <2>2. /\ Len(V) = w + 1
        /\ \A i \in 1 .. w + 1 : V[i] = IF i <= w THEN W[i] ELSE <<a>>[i - w]
    BY <1>15, <1>16, <2>1, ConcatProperties
  <2>3. w \in Nat
    BY <1>12
  <2>4. w + 1 \in 1 .. w + 1 /\ ~(w + 1 <= w) /\ (w + 1) - w = 1
        /\ \A k \in 1 .. w : k \in 1 .. w + 1 /\ k <= w
    BY <2>3
  <2> QED BY <2>1, <2>2, <2>4
<1>17. accepted \subseteq accepted' /\ (SetUp => SetUp') /\ (Inserted => Inserted')
       /\ (status = 200 => m.what \in accepted')
  <2>1. accepted \subseteq accepted' /\ (status = 200 => m.what \in accepted')
    BY <1>4
  <2> QED BY <2>1 DEF SetUp, Inserted
<1>18. Counted' /\ Lines' /\ Leftover' /\ OwnAnswer' /\ FramesOpen'
  <2>1. Counted' /\ OwnAnswer' /\ FramesOpen'
    BY <1>1, <1>4 DEF Counted, OwnAnswer, FramesOpen
  <2>2. Lines'
    BY <1>1, <1>4 DEF Lines
  <2>3. Leftover'
    BY <1>1, <1>4 DEF Leftover
  <2> QED BY <2>1, <2>2, <2>3
<1>19. Owed'
  <2>1. ASSUME NEW k \in 1 .. Len(toPeer')
        PROVE  toPeer'[k].n \in 1 .. asked' /\ toPeer'[k].what \in Labels
    <3>1. toPeer'[k] = toPeer[k + 1] /\ k + 1 \in 1 .. Len(toPeer)
      BY <1>7 DEF l
    <3> QED BY <1>1, <1>4, <3>1 DEF Owed
  <2> QED BY <1>4, <1>8, <2>1 DEF Owed
<1>20. Progress'
  <2>1. ASSUME NEW k \in 1 .. Len(toPeer')
        PROVE  /\ toPeer'[k].what = "RECORD" => SetUp
               /\ toPeer'[k].what = "setRate" => Inserted
    <3>1. toPeer'[k] = toPeer[k + 1] /\ k + 1 \in 1 .. Len(toPeer)
      BY <1>7 DEF l
    <3> QED BY <1>1, <3>1 DEF Progress
  <2>2. /\ link = "up" /\ pc = "RECORD" => SetUp
        /\ link = "up" /\ pc \in {"dateRange", "itemEnd", "setRate"} => Inserted
    BY <1>1 DEF Progress
  <2> QED BY <1>4, <1>17, <2>1, <2>2 DEF Progress
<1>21. NothingUnasked'
  <2>1. "RECORD" \in heard' => SetUp
    <3>1. m.what = "RECORD" => SetUp
      BY <1>1, <1>6 DEF Progress, l
    <3>2. "RECORD" \in heard => SetUp
      BY <1>1 DEF NothingUnasked, SetUp
    <3> QED BY <1>4, <3>1, <3>2
  <2>2. "setRate" \in heard' => Inserted
    <3>1. m.what = "setRate" => Inserted
      BY <1>1, <1>6 DEF Progress, l
    <3>2. "setRate" \in heard => Inserted
      BY <1>1 DEF NothingUnasked, Inserted
    <3> QED BY <1>4, <3>1, <3>2
  <2>3. SetUp' => ({"SETUP NTP", "SETUP remote"} \cap accepted # {})'
    BY DEF SetUp
  <2>4. Inserted' => ("insert" \in accepted)'
    BY DEF Inserted
  <2> QED BY <1>17, <2>1, <2>2, <2>3, <2>4 DEF NothingUnasked
<1>22. Boundary'
  <2>1. CASE Answers1
    BY <1>15, <2>1 DEF Boundary
  <2>2. CASE Leaves
    BY <1>1, <1>4, <1>13, <2>2 DEF Boundary
  <2> QED BY <1>4, <2>1, <2>2
<1>23. Outgoing'
  <2> SUFFICES ASSUME encrypted PROVE Outgoing'
    BY <1>4 DEF Outgoing
  <2>1. /\ toPeer[1].nonces[1] = peerRead /\ After(toPeer[l]) = writeNonce
        /\ \A k \in 1 .. l :
             /\ toPeer[k].nonces = Nonces(toPeer[k].what, toPeer[k].nonces[1])
             /\ k > 1 => toPeer[k].nonces[1] = After(toPeer[k - 1])
    BY <1>1, <1>3 DEF Outgoing, l
  <2>2. peerRead' = After(toPeer[1])
    <3>1. peerRead' = peerRead + PartsOf(m.what)
      BY <1>4, <1>6
    <3> QED BY <1>6, <2>1, <3>1 DEF After
  <2>3. ASSUME toPeer' = <<>> PROVE peerRead' = writeNonce
    <3>1. l = 1
      <4>1. Len(toPeer') = 0
        BY <2>3
      <4> QED BY <1>7, <4>1
    <3> QED BY <2>1, <2>2, <3>1
  <2>4. ASSUME toPeer' # <<>>
        PROVE  toPeer'[1].nonces[1] = peerRead' /\ After(toPeer'[Len(toPeer')]) = writeNonce
    <3>1. Len(toPeer') # 0
      BY <1>7, <2>4
    <3>2. 1 \in 1 .. Len(toPeer') /\ Len(toPeer') \in 1 .. Len(toPeer')
      BY <1>7, <3>1
    <3>3. toPeer'[1] = toPeer[2] /\ 2 \in 1 .. l
      <4>1. 1 + 1 = 2
        OBVIOUS
      <4> QED BY <1>7, <3>2, <4>1
    <3>4. toPeer'[Len(toPeer')] = toPeer[l]
      <4>1. Len(toPeer') + 1 = l
        BY <1>7
      <4> QED BY <1>7, <3>2, <4>1
    <3>5. toPeer[2].nonces[1] = After(toPeer[1])
      <4>1. 2 > 1 /\ 2 - 1 = 1
        OBVIOUS
      <4> QED BY <2>1, <3>3, <4>1
    <3> QED BY <2>1, <2>2, <3>3, <3>4, <3>5
  <2>5. ASSUME NEW k \in 1 .. Len(toPeer')
        PROVE  /\ toPeer'[k].nonces = Nonces(toPeer'[k].what, toPeer'[k].nonces[1])
               /\ k > 1 => toPeer'[k].nonces[1] = After(toPeer'[k - 1])
    <3>1. toPeer'[k] = toPeer[k + 1] /\ k + 1 \in 1 .. l
      BY <1>7
    <3>2. ASSUME k > 1 PROVE toPeer'[k].nonces[1] = After(toPeer'[k - 1])
      <4>1. k - 1 \in 1 .. Len(toPeer') /\ (k - 1) + 1 = k /\ k + 1 > 1 /\ (k + 1) - 1 = k
        BY <1>7, <3>2
      <4>2. toPeer'[k - 1] = toPeer[k]
        BY <1>7, <4>1
      <4>3. toPeer[k + 1].nonces[1] = After(toPeer[k])
        BY <2>1, <3>1, <4>1
      <4> QED BY <3>1, <4>2, <4>3
    <3> QED BY <2>1, <3>1, <3>2
  <2> QED BY <1>4, <2>3, <2>4, <2>5 DEF Outgoing
<1>24. Incoming'
  <2> SUFFICES ASSUME encrypted PROVE Incoming'
    BY <1>4 DEF Incoming
  <2>1. /\ peerEncrypted
        /\ \A j \in 1 .. Len(Stream) : Stream[j].nonce = readNonce + ((j - 1) \div 2)
        /\ Len(Stream) % 2 = 0 /\ peerWrite = readNonce + (Len(Stream) \div 2)
    BY <1>1, <1>8 DEF Incoming
  <2>2. CASE Leaves
    BY <1>1, <1>4, <1>13, <2>2 DEF Incoming
  <2>3. CASE Answers1
    <3> DEFINE S == Sealed(a)
               s == Len(Stream)
               h == s \div 2
    <3>1. peerEncrypted' /\ peerWrite' = peerWrite + a.of
      BY <2>1, <2>3
    <3>2. /\ S \in Seq(Units) /\ Len(S) = 2 * a.of
          /\ \A u \in 1 .. 2 * a.of : S[u].nonce = peerWrite + ((u - 1) \div 2)
      BY <1>9, <1>10, SealedUnits
    <3>3. Stream' = Stream \o S
      BY <1>14, <2>3
    <3> HIDE DEF S
    <3>4. /\ Len(Stream') = s + 2 * a.of
          /\ \A i \in 1 .. s + 2 * a.of : Stream'[i] = IF i <= s THEN Stream[i] ELSE S[i - s]
      <4>1. Stream \in Seq(Units) /\ S \in Seq(Units)
        BY <1>12, <3>2
      <4>2. /\ Len(Stream \o S) = Len(Stream) + Len(S)
            /\ \A i \in 1 .. Len(Stream) + Len(S) :
                 (Stream \o S)[i] = IF i <= Len(Stream) THEN Stream[i] ELSE S[i - Len(Stream)]
        BY <4>1, ConcatProperties
      <4> QED BY <3>2, <3>3, <4>2
    <3>5. s \in Nat /\ h \in Nat /\ s = 2 * h /\ peerWrite = readNonce + h
      <4>1. \A x \in Nat : x % 2 = 0 => x = 2 * (x \div 2) /\ x \div 2 \in Nat
        OBVIOUS
      <4> QED BY <1>12, <2>1, <4>1
    <3> HIDE DEF s, h
    <3>6. ASSUME NEW j \in 1 .. s + 2 * a.of
          PROVE  Stream'[j].nonce = readNonce + ((j - 1) \div 2)
      <4>1. CASE j <= s
        <5>1. j \in 1 .. s /\ Stream'[j] = Stream[j]
          BY <1>11, <3>4, <3>5, <4>1
        <5> QED BY <2>1, <5>1 DEF s
      <4>2. CASE ~(j <= s)
        <5>1. j - s \in 1 .. 2 * a.of /\ Stream'[j] = S[j - s]
          BY <1>11, <3>4, <3>5, <4>2
        <5>2. Stream'[j].nonce = peerWrite + (((j - s) - 1) \div 2)
          BY <3>2, <5>1
        <5>3. (j - 1) \div 2 = h + (((j - s) - 1) \div 2) /\ ((j - s) - 1) \div 2 \in Nat
          <6>1. \A x \in Nat, y \in Nat : ((2 * x + y) \div 2 = x + (y \div 2)) /\ y \div 2 \in Nat
            OBVIOUS
          <6>2. (j - s) - 1 \in Nat /\ j - 1 = 2 * h + ((j - s) - 1)
            BY <3>5, <5>1
          <6> QED BY <3>5, <6>1, <6>2
        <5> QED BY <1>9, <3>5, <5>2, <5>3
      <4> QED BY <4>1, <4>2
    <3>7. Len(Stream') % 2 = 0 /\ peerWrite' = readNonce + (Len(Stream') \div 2)
      <4>1. \A x \in Nat : (2 * x) % 2 = 0 /\ (2 * x) \div 2 = x
        OBVIOUS
      <4>2. Len(Stream') = 2 * (h + a.of) /\ h + a.of \in Nat
        BY <1>11, <3>4, <3>5
      <4>3. peerWrite' = readNonce + (h + a.of)
        BY <1>9, <1>11, <3>1, <3>5
      <4> QED BY <4>1, <4>2, <4>3
    <3> QED BY <1>4, <3>1, <3>4, <3>6, <3>7 DEF Incoming
  <2> QED BY <1>4, <2>2, <2>3
<1>25. /\ ready = <<>> /\ w + l <= Len(waiters)
       /\ unanswered = {} => w + l = Len(waiters)
       /\ \A k \in 1 .. w : waiters[k] <= W[k].n
       /\ \A k \in 1 .. l : waiters[w + k] <= toPeer[k].n
       /\ reply \in Answers => reply.n = asked
       /\ \A i \in 1 .. Len(Text) : Text[i].a.n <= asked
  BY <1>1, <1>8 DEF Matched, l
<1>26. ASSUME Answers1 PROVE Matched'
  <2> HIDE DEF W, w, V, Answers1
  <2>1. w \in Nat /\ unanswered' = unanswered
    BY <1>12, <1>26 DEF w, Answers1
  <2>2. Len(V) + Len(toPeer') <= Len(waiters)
        /\ (unanswered' = {} => Len(V) + Len(toPeer') = Len(waiters))
    <3>1. w \in Nat /\ l \in Nat /\ Len(waiters) \in Nat /\ w + l <= Len(waiters)
          /\ (unanswered' = {} => w + l = Len(waiters))
      BY <1>7, <1>9, <1>25, <2>1
    <3>2. Len(V) = w + 1 /\ Len(toPeer') = l - 1
      BY <1>7, <1>16, <1>26
    <3>3. Len(V) + Len(toPeer') = w + l
      BY <3>1, <3>2
    <3> QED BY <3>1, <3>3
  <2>3. ASSUME NEW k \in 1 .. Len(V) PROVE waiters[k] <= V[k].n
    <3>1. CASE k \in 1 .. w
      BY <1>16, <1>25, <1>26, <3>1
    <3>2. CASE k = w + 1
      <4>1. waiters[w + 1] <= toPeer[1].n
        BY <1>6, <1>25
      <4> QED BY <1>6, <1>11, <1>16, <1>26, <3>2, <4>1
    <3> QED BY <1>16, <1>26, <2>1, <3>1, <3>2
  <2>4. ASSUME NEW k \in 1 .. Len(toPeer') PROVE waiters[Len(V) + k] <= toPeer'[k].n
    <3>1. k + 1 \in 1 .. l /\ toPeer'[k] = toPeer[k + 1] /\ k \in Nat
      BY <1>7
    <3>2. Len(V) = w + 1 /\ w \in Nat
      BY <1>16, <1>26, <2>1
    <3>3. Len(V) + k = w + (k + 1)
      BY <3>1, <3>2
    <3> QED BY <1>25, <3>1, <3>3
  <2>5. ASSUME NEW i \in 1 .. Len(Text') PROVE Text'[i].a.n <= asked
    <3>1. a.n <= asked
      BY <1>8, <1>9, <1>11
    <3>2. CASE i \in 1 .. Len(Text) /\ Text'[i] = Text[i]
      BY <1>25, <3>2
    <3>3. CASE Text'[i].a = a
      BY <3>1, <3>3
    <3> QED BY <1>15, <1>26, <3>2, <3>3
  <2> QED BY <1>4, <1>25, <2>2, <2>3, <2>4, <2>5 DEF Matched, V
<1>27. ASSUME Leaves PROVE Matched'
  <2>1. V = W /\ Text' = Text /\ unanswered' # {}
    BY <1>13, <1>27
  <2> HIDE DEF W, w, V, Leaves
  <2>2. w \in Nat /\ Len(V) = w
    BY <1>12, <2>1 DEF w, V, W
  <2>3. Len(V) + Len(toPeer') <= Len(waiters)
    BY <1>7, <1>9, <1>25, <2>2
  <2>4. ASSUME NEW k \in 1 .. Len(toPeer') PROVE waiters[Len(V) + k] <= toPeer'[k].n
    <3>1. w + k \in 1 .. Len(waiters) /\ w + (k + 1) \in 1 .. Len(waiters) /\ w + k < w + (k + 1)
      <4>1. k \in Nat /\ k >= 1 /\ k + 1 <= l
        BY <1>7
      <4>2. w \in Nat /\ l \in Nat /\ Len(waiters) \in Nat /\ w + l <= Len(waiters)
        BY <1>7, <1>9, <1>25, <2>2
      <4> HIDE DEF l
      <4> QED BY <4>1, <4>2
    <3>2. waiters[w + k] < waiters[w + (k + 1)]
      BY <1>1, <3>1 DEF Lines
    <3>3. waiters[w + (k + 1)] <= toPeer'[k].n
      BY <1>7, <1>25
    <3>4. waiters[w + k] \in 1 .. asked /\ waiters[w + (k + 1)] \in 1 .. asked
      BY <1>9, <3>1, ElementOfSeq
    <3>5. toPeer'[k].n \in Nat
      <4>1. toPeer'[k].n \in 1 .. asked'
        BY <1>19 DEF Owed
      <4> QED BY <1>4, <1>9, <4>1
    <3>6. waiters[w + k] <= toPeer'[k].n
      BY <1>9, <3>2, <3>3, <3>4, <3>5
    <3> QED BY <2>2, <3>6
  <2>5. \A k \in 1 .. Len(V) : waiters[k] <= V[k].n
    BY <1>25, <2>1, <2>2
  <2> QED BY <1>4, <1>25, <2>1, <2>3, <2>4, <2>5 DEF Matched, V
<1>28. Current'
  <2> SUFFICES ASSUME waiting PROVE Current'
    BY <1>4 DEF Current
  <2>1. /\ \A i \in 1 .. Len(Text) :
             Text[i].a.n = asked /\ Text[i].a.status = 200 => pc \in accepted
        /\ \A k \in 1 .. Len(toPeer) : toPeer[k].n = asked => toPeer[k].what = pc
        /\ reply \in Answers /\ reply.status = 200 => pc \in accepted
    BY <1>1, <1>8 DEF Current
  <2>2. \A k \in 1 .. Len(toPeer') : toPeer'[k].n = asked => toPeer'[k].what = pc
    BY <1>7, <2>1 DEF l
  <2>3. ASSUME NEW i \in 1 .. Len(Text'), Text'[i].a.n = asked, Text'[i].a.status = 200
        PROVE  pc \in accepted'
    <3>1. CASE Leaves
      BY <1>13, <1>17, <2>1, <2>3, <3>1
    <3>2. CASE Answers1
      <4>1. CASE i \in 1 .. Len(Text) /\ Text'[i] = Text[i]
        BY <1>17, <2>1, <2>3, <4>1
      <4>2. CASE Text'[i].a = a
        <5>1. m.n = asked /\ status = 200
          BY <1>11, <2>3, <4>2
        <5>2. m.what = pc
          BY <1>6, <2>1, <5>1 DEF l
        <5> QED BY <1>17, <5>1, <5>2
      <4> QED BY <1>15, <3>2, <4>1, <4>2
    <3> QED BY <1>4, <3>1, <3>2
  <2> QED BY <1>4, <1>17, <2>1, <2>2, <2>3 DEF Current
<1>29. Plain'
  <2> SUFFICES ASSUME ~encrypted PROVE Plain'
    BY <1>4 DEF Plain
  <2>1. /\ writeNonce = 0 /\ readNonce = 0 /\ peerWrite = 0 /\ peerRead = 0
        /\ pc \in Verify \cup {"auth-setup", "failed"} /\ l <= 1 /\ ~peerEncrypted /\ ~declined
    BY <1>1, <1>3 DEF Plain, l
  <2>2. toPeer' = <<>> /\ Len(toPeer') = 0
    <3>1. Len(toPeer') = 0
      BY <1>6, <1>7, <2>1
    <3> QED BY <1>7, <3>1
  <2>3. peerWrite' = 0 /\ peerRead' = 0
    BY <1>4, <2>1
  <2>4. pc # "failed" => waiting
    BY <1>1, <1>3 DEF Plain, Quiet
  <2>5. ASSUME pc # "failed"
        PROVE  (Asking \/ Answering \/ reply = FailedReply)'
    <3>1. Asking \/ reply = FailedReply
      BY <1>1, <1>3, <2>4, <2>5 DEF Plain, Quiet, Answering
    <3>2. ASSUME reply = FailedReply PROVE (reply = FailedReply)'
      BY <1>4, <3>2
    <3>3. ASSUME Asking PROVE (Asking \/ Answering)'
      <4>1. /\ reply = NoReply /\ waiters = <<asked>> /\ ready = <<>> /\ Stream = <<>>
        BY <3>3 DEF Asking
      <4>2. ASSUME Leaves PROVE Asking'
        BY <1>4, <1>13, <2>1, <4>1, <4>2 DEF Asking
      <4>3. ASSUME Answers1 PROVE Answering'
        <5>1. Stream' = InTheClear(a)
          <6>1. InTheClear(a) \in Seq(Units)
            BY <1>9, <1>10, SealedUnits
          <6> QED BY <1>14, <4>1, <4>3, <6>1, ConcatEmptySeq
        <5>2. /\ Len(Stream') = a.of /\ a.of \in 1 .. 2
              /\ \A i \in 1 .. Len(Stream') : Stream'[i].a = a /\ Stream'[i].part = i
          BY <1>9, <1>10, <1>11, <5>1, SealedUnits DEF Spells
        <5>3. 1 \in 1 .. Len(Stream') /\ Stream' # <<>>
          BY <5>2
        <5>4. Stream'[1].a = a
          BY <5>2, <5>3
        <5>5. m.n = asked
          <6>1. Len(waiters) = 1 /\ waiters[1] = asked
            BY <4>1
          <6>2. w = 0
            <7>1. w + l <= 1 /\ w \in Nat /\ l \in Nat /\ l >= 1
              BY <1>6, <1>7, <1>12, <1>25, <6>1
            <7> QED BY <7>1
          <6>3. 0 + 1 = 1
            OBVIOUS
          <6>4. waiters[1] <= toPeer[1].n
            BY <1>6, <1>25, <6>2, <6>3
          <6> QED BY <1>6, <1>8, <1>9, <6>1, <6>4
        <5>6. m.what = pc
          BY <1>1, <1>6, <1>8, <2>4, <2>5, <5>5 DEF Current, l
        <5>7. /\ Stream'[1].a.status = status
              /\ pc' = pc /\ kind' = kind
          BY <1>4, <1>11, <5>4
        <5>8. peerEncrypted = FALSE /\ declined = FALSE
          BY <1>1, <2>1 DEF TypeOK, HapTypeOK
        <5> DEFINE turns == \/ pc' = "verify M3" /\ Stream'[1].a.status = 200
                            \/ pc' = "auth-setup" /\ kind'.transient
        <5>9. declined' = refuses /\ (refuses => m.what = "verify M3" /\ status = 200)
          BY <1>5, <5>8
        <5>10. peerEncrypted' = (turns /\ ~declined') /\ (declined' => turns)
          <6>1. peerEncrypted' = on
            BY <4>3, <5>8 DEF on
          <6>2. on = (\/ pc = "verify M3" /\ status = 200 /\ ~refuses
                      \/ pc = "auth-setup" /\ kind.transient)
            BY <5>6 DEF on
          <6>3. turns = (\/ pc = "verify M3" /\ status = 200
                         \/ pc = "auth-setup" /\ kind.transient)
            BY <5>7
          <6>4. refuses => pc = "verify M3" /\ status = 200
            BY <5>6, <5>9
          <6> HIDE DEF turns
          <6> QED BY <5>9, <6>1, <6>2, <6>3, <6>4
        <5>11. Agreed(Stream[1].a.status)'
          BY <5>10, Zenon DEF Agreed, TurnsOn
        <5>12. /\ reply' = NoReply /\ waiters' = <<asked'>> /\ ready' = <<>> /\ toPeer' = <<>>
          BY <1>4, <2>2, <4>1
        <5>13. \A i \in 1 .. Len(Stream') : Stream'[i].a = Stream'[1].a /\ Stream'[i].part = i
          BY <5>2, <5>4
        <5>14. Answering'
          BY <5>3, <5>11, <5>12, <5>13 DEF Answering
        <5> QED BY <5>14
      <4> QED BY <1>4, <4>2, <4>3
    <3> QED BY <3>1, <3>2, <3>3
  <2>6. /\ writeNonce' = 0 /\ readNonce' = 0 /\ peerWrite' = 0 /\ peerRead' = 0
        /\ pc' \in Verify \cup {"auth-setup", "failed"} /\ Len(toPeer') <= 1
        /\ \A k \in 1 .. Len(toPeer') : toPeer'[k].nonces = <<>>
    <3>1. pc' \in Verify \cup {"auth-setup", "failed"}
      BY <1>4, <2>1
    <3>2. \A k \in 1 .. Len(toPeer') : toPeer'[k].nonces = <<>>
      BY <2>2
    <3>3. writeNonce' = 0 /\ readNonce' = 0
      BY <1>4, <2>1
    <3> QED BY <2>2, <2>3, <3>1, <3>2, <3>3
  <2>7. toPeer' = <<>> /\ (pc' # "failed" => waiting')
    BY <1>4, <2>2, <2>4
  <2>8. pc' # "failed" => (Asking \/ Answering \/ reply = FailedReply)'
    BY <1>4, <2>5
  <2> QED BY <2>6, <2>7, <2>8 DEF Plain
<1>30. TypeOK'
  <2>1. toClient' \in Seq(Units)
    BY <1>1, <1>4, <1>14, Typed
  <2>2. peerWrite' \in Nat /\ peerRead' \in Nat
    BY <1>4, <1>9, <1>11
  <2>3. peerEncrypted' \in BOOLEAN
    BY <1>1, <1>4 DEF TypeOK, HapTypeOK, on
  <2>4. unanswered' \subseteq 1 .. asked' /\ Cardinality(unanswered') <= MaxSilent
    <3>1. unanswered \subseteq 1 .. asked /\ Cardinality(unanswered) <= MaxSilent
      BY <1>1 DEF TypeOK, HapTypeOK
    <3>2. CASE Answers1
      BY <1>4, <3>1, <3>2
    <3>3. CASE Leaves
      <4>1. IsFiniteSet(unanswered) /\ Cardinality(unanswered) \in Nat
        <5>1. IsFiniteSet(1 .. asked)
          BY <1>9, FS_Interval
        <5> QED BY <3>1, <5>1, FS_Subset, FS_CardinalityType
      <4>2. Cardinality(unanswered \cup {m.n}) <= Cardinality(unanswered) + 1
        <5>1. Cardinality(unanswered \cup {m.n}) = (IF m.n \in unanswered THEN Cardinality(unanswered)
                                                    ELSE Cardinality(unanswered) + 1)
          BY <4>1, FS_AddElement
        <5> QED BY <4>1, <5>1
      <4>3. Cardinality(unanswered \cup {m.n}) \in Nat
        BY <4>1, FS_AddElement, FS_CardinalityType
      <4>4. Cardinality(unanswered \cup {m.n}) <= MaxSilent
        BY <3>3, <4>1, <4>2, <4>3, Constants
      <4> QED BY <1>4, <1>8, <3>1, <3>3, <4>4
    <3> QED BY <1>4, <3>2, <3>3
  <2>5. {writeNonce', readNonce', peerWrite', peerRead', asked'} \subseteq Nat
    BY <1>4, <1>9, <2>2
  <2>6. HapTypeOK'
    BY <1>1, <1>4, <1>7, <2>1, <2>3, <2>4, <2>5 DEF TypeOK, HapTypeOK
  <2>7. heard' \subseteq Labels /\ accepted' \subseteq heard' /\ declined' \in BOOLEAN
    <3>1. heard \subseteq Labels /\ accepted \subseteq heard /\ declined \in BOOLEAN
      BY <1>1 DEF TypeOK
    <3> QED BY <1>4, <1>5, <1>8, <3>1
  <2> QED BY <1>1, <1>4, <2>6, <2>7 DEF TypeOK
<1>31. Matched'
  BY <1>4, <1>26, <1>27
<1>32. Past'
  <2> SUFFICES ASSUME encrypted PROVE Past'
    BY <1>4 DEF Past
  <2>1. /\ ~declined /\ pc \notin Verify \cup {"auth-setup"}
        /\ \A k \in 1 .. Len(toPeer) : toPeer[k].what \notin Verify
    BY <1>1 DEF Past
  <2>2. ~refuses
    BY <1>5, <1>6, <2>1 DEF Verify, l
  <2>3. \A k \in 1 .. Len(toPeer') : toPeer'[k].what \notin Verify
    BY <1>7, <2>1 DEF l
  <2> QED BY <1>4, <1>5, <2>1, <2>2, <2>3 DEF Past
<1> QED
  BY <1>18, <1>19, <1>20, <1>21, <1>22, <1>23, <1>24, <1>28, <1>29, <1>30, <1>31, <1>32
  DEF Ind

-----------------------------------------------------------------------------

LEMMA InitInd ==
  ASSUME Init
  PROVE  Ind
<1>1. /\ kind \in Kinds
      /\ pc = IF kind.mfi THEN "auth-setup" ELSE AfterAuth(kind)
      /\ feedback = 0 /\ heard = {} /\ accepted = {} /\ declined = FALSE
      /\ encrypted = (kind.transient /\ ~kind.mfi) /\ peerEncrypted = encrypted
      /\ writeNonce = 0 /\ readNonce = 0 /\ peerWrite = 0 /\ peerRead = 0
      /\ buffer = <<>> /\ plaintext = <<>> /\ waiters = <<>> /\ ready = <<>>
      /\ asked = 0 /\ waiting = FALSE /\ reply = NoReply
      /\ last = [n |-> 0, got |-> 0]
      /\ toPeer = <<>> /\ toClient = <<>> /\ link = "up"
      /\ timeouts = 0 /\ unanswered = {} /\ forged = FALSE
  BY DEF Init, HapInit
<1>2. /\ kind.mac \in BOOLEAN /\ kind.transient \in BOOLEAN /\ kind.mfi \in BOOLEAN
      /\ kind.transient => kind.mac
  BY <1>1 DEF Kinds
<1>3. encrypted \in BOOLEAN /\ peerEncrypted \in BOOLEAN
  BY <1>1, <1>2
<1>4. /\ pc \in Labels
      /\ ~encrypted => pc \in Verify \cup {"auth-setup"}
      /\ pc \notin {"RECORD", "dateRange", "itemEnd", "setRate", "failed"}
      /\ encrypted => pc \notin Verify \cup {"auth-setup"}
  BY <1>1, <1>2 DEF AfterAuth, FirstEncrypted, Labels, Verify
<1>5. <<>> \in Seq(Units) /\ <<>> \in Seq(Answers) /\ <<>> \in Seq(Messages)
      /\ <<>> \in Seq(1 .. asked) /\ Len(<<>>) = 0
  OBVIOUS
<1>6. TypeOK
  <2>1. unanswered \subseteq 1 .. asked /\ Cardinality(unanswered) <= MaxSilent
    BY <1>1, Constants, FS_EmptySet
  <2>2. {writeNonce, readNonce, peerWrite, peerRead, asked} \subseteq Nat
    BY <1>1
  <2>3. timeouts \in 0 .. MaxTimeouts /\ last \in [n : Nat, got : Nat]
    BY <1>1, Constants
  <2>4. Len(waiters) <= timeouts + (IF waiting THEN 1 ELSE 0)
    BY <1>1, <1>5
  <2>5. HapTypeOK
    BY <1>1, <1>3, <1>5, <2>1, <2>2, <2>3, <2>4 DEF HapTypeOK
  <2>6. feedback \in 0 .. MaxFeedback
    BY <1>1, Constants
  <2> QED BY <1>1, <1>4, <2>5, <2>6 DEF TypeOK
<1>7. Stream = <<>>
  BY <1>1 DEF Stream
<1>8. Ends(<<>>) = {}
  BY <1>5 DEF Ends
<1>9. Leftover
  BY <1>1, <1>5, <1>8 DEF Leftover
<1>10. Text = <<>> /\ Len(Whole(<<>>)) = 0
  BY <1>1, <1>6, <1>7, <1>9, EmptyText
<1>11. \A x : x \notin 1 .. 0
  OBVIOUS
<1>12. Counted
  BY <1>1, <1>4, Constants DEF Counted
<1>13. Lines
  BY <1>1, <1>5, <1>11 DEF Lines
<1>14. Matched
  BY <1>1, <1>5, <1>10, <1>11, Constants DEF Matched
<1>15. Owed
  BY <1>1, <1>5, <1>11 DEF Owed
<1>16. Boundary
  BY <1>5, <1>10, <1>11 DEF Boundary, Tiled, Complete
<1>17. Incoming
  <2>1. 0 % 2 = 0 /\ 0 \div 2 = 0 /\ 0 + 0 = 0
    OBVIOUS
  <2> QED BY <1>1, <1>5, <1>7, <1>11, <2>1 DEF Incoming
<1>18. Outgoing
  BY <1>1, <1>5, <1>11 DEF Outgoing
<1>19. Plain
  <2>1. Quiet
    BY <1>1, <1>7 DEF Quiet
  <2> QED BY <1>1, <1>4, <1>5, <1>11, <2>1 DEF Plain
<1>20. Current
  BY <1>1 DEF Current
<1>21. Progress
  BY <1>1, <1>4, <1>5, <1>11 DEF Progress
<1>22. OwnAnswer /\ FramesOpen /\ NothingUnasked
  BY <1>1 DEF OwnAnswer, FramesOpen, NothingUnasked
<1>23. Past
  BY <1>1, <1>4, <1>5, <1>11 DEF Past
<1> QED
  BY <1>6, <1>9, <1>12, <1>13, <1>14, <1>15, <1>16, <1>17, <1>18, <1>19, <1>20, <1>21, <1>22,
     <1>23
  DEF Ind

LEMMA StutterKeeps ==
  ASSUME Ind, UNCHANGED vars
  PROVE  Ind'
<1>1. UNCHANGED <<encrypted, writeNonce, readNonce, buffer, plaintext, waiters, ready, asked,
                  waiting, reply, last, toPeer, toClient, link, peerEncrypted, peerWrite,
                  peerRead, timeouts, unanswered, forged, kind, pc, feedback, heard,
                  accepted, declined>>
  BY DEF vars, hapVars, session, client, caller, peer, counters, script, receiver
<1>2. /\ TypeOK /\ Counted /\ Lines /\ Matched /\ Owed /\ Leftover /\ Boundary
      /\ Incoming /\ Outgoing /\ Plain /\ Past /\ Current /\ Progress
      /\ OwnAnswer /\ FramesOpen /\ NothingUnasked
  BY DEF Ind
<1>3. Stream' = Stream /\ Text' = Text
  BY <1>1 DEF Stream, Text
<1>4. TypeOK'
  BY <1>1, <1>2 DEF TypeOK, HapTypeOK
<1>5. Counted' /\ Lines' /\ Owed' /\ Leftover'
  BY <1>1, <1>2 DEF Counted, Lines, Owed, Leftover
<1>6. Matched'
  BY <1>1, <1>2, <1>3 DEF Matched
<1>7. Boundary' /\ Incoming'
  BY <1>1, <1>2, <1>3 DEF Boundary, Incoming
<1>8. Outgoing'
  BY <1>1, <1>2 DEF Outgoing
<1>9. (Quiet' <=> Quiet) /\ (Asking' <=> Asking) /\ (Answering' <=> Answering)
  BY <1>1, <1>3 DEF Quiet, Asking, Answering, Agreed, TurnsOn
<1>10. Plain'
  BY <1>1, <1>2, <1>9 DEF Plain, Agreed, TurnsOn
<1>11. Current' /\ Progress'
  BY <1>1, <1>2, <1>3 DEF Current, Progress, SetUp, Inserted
<1>12. OwnAnswer' /\ FramesOpen' /\ NothingUnasked'
  BY <1>1, <1>2 DEF OwnAnswer, FramesOpen, NothingUnasked
<1>13. Past'
  BY <1>1, <1>2 DEF Past
<1> QED BY <1>4, <1>5, <1>6, <1>7, <1>8, <1>10, <1>11, <1>12, <1>13 DEF Ind

LEMMA StepKeeps ==
  ASSUME Ind, [Next]_vars
  PROVE  Ind' \/ Deaf'
<1>1. CASE UNCHANGED vars
  BY <1>1, StutterKeeps
<1>2. CASE Request
  <2>1. pc \in Labels
    BY <1>2 DEF Request
  <2>2. CASE Issue(pc) /\ UNCHANGED <<script, receiver>>
    BY <2>1, <2>2, IssueKeeps
  <2>3. CASE Cached /\ Goes(Head(ready).status)
    BY <2>1, <2>3, CachedKeeps
  <2> QED BY <1>2, <2>2, <2>3 DEF Request
<1>3. CASE Answer
  BY <1>3, AnswerKeeps
<1>4. CASE Failure
  BY <1>4, FailureKeeps DEF Failure
<1>5. CASE Chunk
  BY <1>5, ChunkKeeps
<1>6. CASE Fails
  BY <1>6, FailsKeeps
<1>7. CASE Receive
  BY <1>7, ReceiveKeeps
<1> QED BY <1>1, <1>2, <1>3, <1>4, <1>5, <1>6, <1>7 DEF Next

(* After a refusal that was taken for success the receiver opens nothing,  *)
(* and a request ends by its time-out or with the connection. *)
LEMMA DeafKeeps ==
  ASSUME Deaf, [Next]_vars
  PROVE  Deaf'
<1>1. /\ TypeOK /\ Counted /\ Lines /\ Owed /\ OwnAnswer /\ NothingUnasked
      /\ declined /\ encrypted /\ ~peerEncrypted
      /\ toClient = <<>> /\ ready = <<>> /\ reply \notin Answers
      /\ \A k \in 1 .. Len(toPeer) : toPeer[k].nonces # <<>>
      /\ link = "up" /\ waiting => toPeer # <<>>
  BY DEF Deaf
<1>2. CASE UNCHANGED vars
  <2>1. UNCHANGED <<encrypted, writeNonce, readNonce, buffer, plaintext, waiters, ready, asked,
                    waiting, reply, last, toPeer, toClient, link, peerEncrypted, peerWrite,
                    peerRead, timeouts, unanswered, forged, kind, pc, feedback, heard,
                    accepted, declined>>
    BY <1>2 DEF vars, hapVars, session, client, caller, peer, counters, script, receiver
  <2>2. TypeOK'
    BY <1>1, <2>1 DEF TypeOK, HapTypeOK
  <2>3. Counted' /\ Lines' /\ Owed' /\ OwnAnswer' /\ NothingUnasked'
    BY <1>1, <2>1 DEF Counted, Lines, Owed, OwnAnswer, NothingUnasked
  <2> QED BY <1>1, <2>1, <2>2, <2>3 DEF Deaf
<1>3. CASE Request
  <2>1. pc \in Labels /\ Issue(pc) /\ UNCHANGED <<script, receiver>>
    BY <1>1, <1>3 DEF Request, Cached
  <2>2. /\ TypeOK' /\ Counted' /\ Lines' /\ Owed'
        /\ Len(toPeer') \in Nat
        /\ link = "up" => Len(toPeer') = Len(toPeer) + 1
        /\ link # "up" => toPeer' = <<>>
        /\ \A i \in 1 .. Len(toPeer) : toPeer'[i] = toPeer[i]
        /\ link = "up" => toPeer'[Len(toPeer) + 1] =
             [n |-> asked + 1, what |-> pc,
              nonces |-> IF encrypted THEN Nonces(pc, writeNonce) ELSE <<>>]
    BY <1>1, <2>1, IssueKeepsLines
  <2>3. /\ reply' = NoReply
        /\ UNCHANGED <<encrypted, peerEncrypted, toClient, ready, last, link, forged, heard,
                       accepted, declined>>
    BY <2>1 DEF Issue, peer, receiver
  <2>4. Nonces(pc, writeNonce) # <<>>
    <3>1. PartsOf(pc) \in 1 .. 2
      BY Constants
    <3>2. 1 \in DOMAIN Nonces(pc, writeNonce)
      BY <3>1 DEF Nonces
    <3>3. DOMAIN <<>> = {}
      OBVIOUS
    <3> QED BY <3>2, <3>3
  <2>5. Len(toPeer) \in Nat
    BY <1>1, Typed
  <2>6. ASSUME NEW k \in 1 .. Len(toPeer') PROVE toPeer'[k].nonces # <<>>
    <3>1. CASE link = "up" /\ k = Len(toPeer) + 1
      <4>1. toPeer'[k].nonces = Nonces(pc, writeNonce)
        BY <1>1, <2>2, <3>1
      <4> QED BY <2>4, <4>1
    <3>2. CASE k \in 1 .. Len(toPeer)
      BY <1>1, <2>2, <3>2
    <3>3. CASE link # "up"
      <4>1. Len(toPeer') = 0
        BY <2>2, <3>3
      <4> QED BY <4>1
    <3> QED BY <2>2, <2>5, <3>1, <3>2, <3>3
  <2>7. link' = "up" => toPeer' # <<>>
    <3>1. ASSUME link = "up", toPeer' = <<>> PROVE FALSE
      <4>1. Len(toPeer') = 0 /\ Len(toPeer') = Len(toPeer) + 1
        BY <2>2, <3>1
      <4> QED BY <2>5, <4>1
    <3> QED BY <2>3, <3>1
  <2>8. reply' \notin Answers /\ OwnAnswer' /\ NothingUnasked'
    BY <1>1, <2>3, Constants DEF OwnAnswer, NothingUnasked
  <2> QED BY <1>1, <2>2, <2>3, <2>6, <2>7, <2>8 DEF Deaf
<1>4. CASE Answer
  BY <1>1, <1>4 DEF Answer, Answered
<1>5. CASE Failure
  <2>1. /\ waiting /\ Return(0) /\ Goes(0) /\ encrypted' = encrypted
        /\ UNCHANGED <<waiters, peer, unanswered>>
    BY <1>5 DEF Failure, Failed, TimedOut, WaitersAfterTimeout, counters
  <2>2. /\ timeouts' \in 0 .. MaxTimeouts
        /\ timeouts' = timeouts + 1 \/ (timeouts' = timeouts /\ reply # NoReply)
    <3>1. timeouts \in 0 .. MaxTimeouts /\ MaxTimeouts \in Nat
      BY <1>1, Constants DEF TypeOK, HapTypeOK
    <3>2. CASE Failed
      BY <3>1, <3>2, Constants DEF Failed, counters
    <3>3. CASE TimedOut
      BY <3>1, <3>3 DEF TimedOut
    <3> QED BY <1>5, <3>2, <3>3 DEF Failure
  <2>3. encrypted' \in BOOLEAN /\ 0 \in Nat
    BY <1>1, <2>1 DEF TypeOK, HapTypeOK
  <2>4. /\ TypeOK' /\ Counted' /\ Lines'
        /\ waiting' = FALSE /\ reply' = NoReply /\ last' = [n |-> asked, got |-> 0]
        /\ UNCHANGED <<writeNonce, readNonce, buffer, plaintext, ready, asked, toPeer, toClient,
                       link, forged, waiters, peerEncrypted, peerWrite, peerRead, unanswered,
                       kind, heard, accepted, declined>>
    BY <1>1, <2>1, <2>2, <2>3, ReturnKeepsLines
  <2>5. Owed' /\ OwnAnswer' /\ NothingUnasked'
    BY <1>1, <2>4 DEF Owed, OwnAnswer, NothingUnasked
  <2> QED BY <1>1, <2>1, <2>4, <2>5, Constants DEF Deaf
<1>6. CASE Chunk
  <2>1. PICK k \in 1 .. Len(toClient) : TRUE
    BY <1>6 DEF Chunk, OnChunk
  <2> QED BY <1>1, <2>1
<1>7. CASE Fails
  <2>1. PICK k \in 0 .. Len(toClient) : toClient' = SubSeq(toClient, 1, k)
    BY <1>7 DEF Fails, LinkFails
  <2>2. toClient' = <<>>
    <3>1. k = 0
      BY <1>1
    <3> QED BY <1>1, <2>1, <3>1
  <2>3. toClient' \in Seq(Units)
    BY <2>2
  <2>4. /\ TypeOK' /\ Lines'
        /\ FailWaiters \/ UNCHANGED <<waiters, ready, reply>>
        /\ reply' = reply \/ reply' = FailedReply
    BY <1>1, <1>7, <2>3, FailsKeepsLines
  <2>5. /\ link' = "failed" /\ toPeer' = <<>>
        /\ UNCHANGED <<encrypted, peerEncrypted, asked, waiting, last, pc, feedback, heard,
                       accepted, declined>>
    BY <1>7 DEF Fails, LinkFails, session, peer, script, receiver
  <2>6. ready' = <<>> /\ reply' \notin Answers
    BY <1>1, <2>4, Constants DEF FailWaiters
  <2>7. Len(toPeer') = 0
    BY <2>5
  <2>8. Counted' /\ Owed' /\ OwnAnswer' /\ NothingUnasked'
    <3>1. Counted' /\ OwnAnswer' /\ NothingUnasked'
      BY <1>1, <2>5 DEF Counted, OwnAnswer, NothingUnasked
    <3>2. Owed'
      BY <2>5, <2>7 DEF Owed
    <3> QED BY <3>1, <3>2
  <2>9. \A k1 \in 1 .. Len(toPeer') : toPeer'[k1].nonces # <<>>
    BY <2>7
  <2> QED BY <1>1, <2>2, <2>4, <2>5, <2>6, <2>8, <2>9 DEF Deaf
<1>8. CASE Receive
  <2>1. toPeer # <<>> /\ Head(toPeer).nonces = <<>>
    BY <1>1, <1>8 DEF Receive, Handle, PeerOpens
  <2>2. toPeer \in Seq(Messages)
    BY <1>1, Typed
  <2>3. Head(toPeer) = toPeer[1] /\ 1 \in 1 .. Len(toPeer)
    BY <2>1, <2>2
  <2> QED BY <1>1, <2>1, <2>3
<1> QED BY <1>2, <1>3, <1>4, <1>5, <1>6, <1>7, <1>8 DEF Next

LEMMA Invariance == Spec => [](Ind \/ Deaf)
<1>1. Init => Ind \/ Deaf
  BY InitInd
<1>2. (Ind \/ Deaf) /\ [Next]_vars => (Ind \/ Deaf)'
  BY StepKeeps, DeafKeeps
<1> QED BY <1>1, <1>2, PTL DEF Spec

-----------------------------------------------------------------------------
(* The client's and the receiver's state keep their types (the fields of   *)
(* HapConnection in hap-http-client.ts, of EncryptedSession, and the       *)
(* player's of AirPlayPlay.ts), whatever comes late, in pieces or not at   *)
(* all: no more requests wait than have timed out, besides the current.    *)
THEOREM Typing == Spec => []TypeOK
<1>1. Ind \/ Deaf => TypeOK
  BY DEF Ind, Deaf
<1> QED BY <1>1, Invariance, PTL

(* takeWaiter gives an answer to the oldest waiter, and a request that     *)
(* timed out leaves its own in the list: so, while the connection is up,   *)
(* what a request returns is never the answer to another. *)
THEOREM AnswersAreOwn == Spec => []OwnAnswer
<1>1. Ind \/ Deaf => OwnAnswer
  BY DEF Ind, Deaf
<1> QED BY <1>1, Invariance, PTL

(* encryptMessage and decryptAvailable count frames alike at both ends:    *)
(* enableEncryption comes, at both, between the same two messages, and     *)
(* every frame after it is opened under the counter it was sealed under -- *)
(* unless the receiver turned pair-verify down in an answer of 200, which  *)
(* the player (AirPlayPlay.ts, "need 200, State=4") takes for success. *)
THEOREM SessionsInStep == Spec => []SealsOpen
<1>1. Ind \/ Deaf => SealsOpen
  BY DEF Ind, Deaf, SealsOpen
<1> QED BY <1>1, Invariance, PTL

(* drainBuffer leaves no whole message in a buffer and gives each to the   *)
(* waiter whose place it has: if everything the receiver was asked was     *)
(* answered and has come, the current request has its answer. *)
THEOREM NobodyStranded == Spec => []NoneStranded
<1>1. Ind => NoneStranded
  <2> SUFFICES ASSUME Ind, link = "up", toPeer = <<>>, toClient = <<>>, unanswered = {},
                      waiting, reply = NoReply
               PROVE  FALSE
    BY DEF NoneStranded, Delivered
  <2>1. TypeOK /\ Lines /\ Matched /\ Leftover
    BY DEF Ind
  <2>2. Len(waiters) \in Nat /\ Len(waiters) # 0
    <3>1. waiters \in Seq(1 .. asked) /\ waiters # <<>>
      BY <2>1, Typed DEF Lines
    <3> QED BY <3>1
  <2>3. buffer \in Seq(Units) /\ plaintext \in Seq(Units)
    BY <2>1, Typed
  <2>4. Stream = buffer
    BY <2>3 DEF Stream
  <2>5. Ends(Text) = {}
    <3>1. CASE ~encrypted
      BY <2>1, <2>4, <3>1 DEF Leftover, Text
    <3>2. CASE encrypted
      <4>1. Len(buffer) < 2 /\ Len(buffer) \in Nat /\ Ends(plaintext) = {}
        BY <2>1, <2>3, <3>2 DEF Leftover
      <4>2. Frames(buffer) = 0
        <5>1. \A x \in Nat : x < 2 => x \div 2 = 0
          OBVIOUS
        <5> QED BY <4>1, <5>1 DEF Frames
      <4>3. Decrypted(buffer) \in Seq(Units) /\ Len(Decrypted(buffer)) = 0
        BY <2>3, <4>2, FramesOf
      <4>4. Decrypted(buffer) = <<>>
        BY <4>3
      <4>5. Text = plaintext
        BY <2>3, <2>4, <3>2, <4>4 DEF Text
      <4> QED BY <4>1, <4>5
    <3> QED BY <3>1, <3>2
  <2>6. Len(Whole(Text)) = 0
    <3>1. Text \in Seq(Units)
      BY <2>1, Reading
    <3> QED BY <2>5, <3>1, WholeNumbered, FS_EmptySet
  <2>7. Len(Whole(Text)) + Len(toPeer) = Len(waiters)
    BY <2>1 DEF Matched
  <2>8. Len(toPeer) = 0
    OBVIOUS
  <2> QED BY <2>2, <2>6, <2>7, <2>8
<1>2. Deaf => NoneStranded
  BY DEF Deaf, NoneStranded, Delivered
<1> QED BY <1>1, <1>2, Invariance, PTL

(* The player sends RECORD after a SETUP, and setRate after the insert,    *)
(* only when the receiver has accepted it ("not sending RECORD", "not      *)
(* sending setProperty/setRate"): what it takes for the receiver's answer  *)
(* is the answer to what it asked. *)
THEOREM OnlyWhatWasAccepted == Spec => []NothingUnasked
<1>1. Ind \/ Deaf => NothingUnasked
  BY DEF Ind, Deaf
<1> QED BY <1>1, Invariance, PTL

=============================================================================
