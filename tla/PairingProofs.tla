---------------------------- MODULE PairingProofs ----------------------------
(***************************************************************************)
(* Proofs about Pairing, for any accessory, any controllers, codes and     *)
(* flags and any of the damages: that a setup ends as it should, that no   *)
(* damage is blamed on the code, and that pair verify goes on exactly when *)
(* both ends know one another.                                             *)
(*                                                                         *)
(* First what the helpers of Suite compute (the item found, the first of   *)
(* the checks that fails), then what a reader sees of a message that was   *)
(* damaged, then what each of the six messages comes to, and last the      *)
(* invariants, one step of Next at a time.                                 *)
(***************************************************************************)
EXTENDS Pairing, SequenceTheorems, TLAPS

-----------------------------------------------------------------------------
(* The least of a set of numbers. *)
LEMMA MinIs ==
  ASSUME NEW S, NEW i \in S, S \subseteq Int, \A j \in S : i <= j
  PROVE  Min(S) = i
<1>1. \A j \in S : (\A k \in S : j <= k) => j = i
  OBVIOUS
<1> QED BY <1>1 DEF Min

(* The first item of a type (Tlv8 find). *)
LEMMA FindAt ==
  ASSUME NEW items, NEW n \in Nat, DOMAIN items = 1..n, NEW type,
         NEW i \in 1..n, items[i].type = type, \A j \in 1..n : j < i => items[j].type # type
  PROVE  findItem(items, type) = items[i].value
<1> DEFINE found == {j \in DOMAIN items : items[j].type = type}
<1>1. i \in found /\ found \subseteq Int /\ \A j \in found : i <= j
  OBVIOUS
<1> QED BY <1>1, MinIs DEF findItem

First(items, n, type, i) ==
  /\ n \in Nat /\ DOMAIN items = 1..n /\ i \in 1..n
  /\ items[i].type = type /\ \A j \in 1..n : j < i => items[j].type # type

LEMMA FindFirst ==
  ASSUME NEW items, NEW n, NEW type, NEW i, First(items, n, type, i)
  PROVE  findItem(items, type) = items[i].value
BY FindAt DEF First

LEMMA FindNot ==
  ASSUME NEW items, NEW type, \A j \in DOMAIN items : items[j].type # type
  PROVE  findItem(items, type) = NoOctets
BY DEF findItem

(* The first check that does not hold. *)
AllHold(checks) == \A i \in DOMAIN checks : checks[i].holds
FailsAt(checks, i) ==
  i \in DOMAIN checks /\ ~checks[i].holds /\ \A j \in DOMAIN checks : j < i => checks[j].holds

Listed(checks) ==
  /\ \E S : checks \in Seq(S)
  /\ AllHold(checks) \/ \E i \in DOMAIN checks : FailsAt(checks, i)

LEMMA ErrorAt ==
  ASSUME NEW checks, NEW n \in Nat, DOMAIN checks = 1..n, NEW i, FailsAt(checks, i)
  PROVE  FirstError(checks) = checks[i].error
<1> DEFINE failed == {j \in DOMAIN checks : ~checks[j].holds}
<1>1. i \in failed /\ failed \subseteq Int /\ \A j \in failed : i <= j
  BY DEF FailsAt
<1> QED BY <1>1, MinIs DEF FirstError

LEMMA OneCheck ==
  ASSUME NEW ok, NEW name
  PROVE  /\ Listed(<<Check(ok, name)>>)
         /\ AllHold(<<Check(ok, name)>>) <=> ok
         /\ FirstError(<<Check(ok, name)>>) = IF ok THEN "none" ELSE name
<1> DEFINE c == Check(ok, name)
           checks == <<c>>
<1>1. checks \in Seq({c}) /\ DOMAIN checks = 1..1 /\ checks[1] = c
  OBVIOUS
<1>2. c.holds <=> ok
  BY DEF Check
<1>3. c.error = name
  BY DEF Check
<1> HIDE DEF c, checks
<1>4. AllHold(checks) <=> ok
  BY <1>1, <1>2 DEF AllHold
<1>5. CASE ok
  BY <1>1, <1>4, <1>5 DEF AllHold, FirstError, checks, c, Listed
<1>6. CASE ~ok
  <2>1. FailsAt(checks, 1)
    BY <1>1, <1>2, <1>6 DEF FailsAt
  <2>2. FirstError(checks) = name
    BY <1>1, <1>3, <2>1, ErrorAt
  <2>3. Listed(checks)
    BY <1>1, <2>1 DEF Listed
  <2> QED BY <1>4, <1>6, <2>2, <2>3 DEF checks, c
<1> QED BY <1>5, <1>6

LEMMA MoreChecks ==
  ASSUME NEW a, NEW b, Listed(a), Listed(b)
  PROVE  /\ Listed(a \o b)
         /\ AllHold(a \o b) <=> AllHold(a) /\ AllHold(b)
         /\ FirstError(a \o b) = IF AllHold(a) THEN FirstError(b) ELSE FirstError(a)
<1>1. PICK A : a \in Seq(A)
  BY DEF Listed
<1>2. PICK B : b \in Seq(B)
  BY DEF Listed
<1> DEFINE S == A \cup B
           m == Len(a)
           n == Len(b)
           ab == a \o b
<1>3. /\ a \in Seq(S) /\ b \in Seq(S)
      /\ m \in Nat /\ n \in Nat /\ DOMAIN a = 1..m /\ DOMAIN b = 1..n
  BY <1>1, <1>2
<1>4. /\ ab \in Seq(S) /\ DOMAIN ab = 1..(m + n)
      /\ \A i \in 1..m : ab[i] = a[i]
      /\ \A i \in 1..n : ab[m + i] = b[i]
  BY <1>3
<1> HIDE DEF ab, m, n, S
<1>5. \A i \in 1..(m + n) : i \in 1..m \/ \E j \in 1..n : i = m + j
  <2> TAKE i \in 1..(m + n)
  <2>1. CASE i <= m
    BY <1>3, <2>1
  <2>2. CASE i > m
    <3>1. i - m \in 1..n /\ i = m + (i - m)
      BY <1>3, <2>2
    <3> QED BY <3>1
  <2> QED BY <1>3, <2>1, <2>2
<1>6. AllHold(ab) <=> AllHold(a) /\ AllHold(b)
  <2>1. ASSUME AllHold(ab), NEW i \in DOMAIN a PROVE a[i].holds
    <3>1. i \in 1..(m + n)
      BY <1>3
    <3> QED BY <1>3, <1>4, <2>1, <3>1 DEF AllHold
  <2>2. ASSUME AllHold(ab), NEW i \in DOMAIN b PROVE b[i].holds
    <3>1. m + i \in 1..(m + n)
      BY <1>3
    <3> QED BY <1>3, <1>4, <2>2, <3>1 DEF AllHold
  <2>3. ASSUME AllHold(a), AllHold(b) PROVE AllHold(ab)
    <3> SUFFICES ASSUME NEW k \in 1..(m + n) PROVE ab[k].holds
      BY <1>4 DEF AllHold
    <3>1. CASE k \in 1..m
      BY <1>3, <1>4, <2>3, <3>1 DEF AllHold
    <3>2. ASSUME NEW j \in 1..n, k = m + j PROVE ab[k].holds
      BY <1>3, <1>4, <2>3, <3>2 DEF AllHold
    <3> QED BY <1>5, <3>1, <3>2
  <2> QED BY <2>1, <2>2, <2>3 DEF AllHold
<1>7. CASE AllHold(a) /\ AllHold(b)
  BY <1>4, <1>6, <1>7 DEF ab, AllHold, FirstError, Listed
<1>8. CASE ~AllHold(a)
  <2>1. PICK i \in 1..m : FailsAt(a, i)
    BY <1>3, <1>8 DEF Listed
  <2>2. i \in 1..(m + n) /\ \A j \in 1..(m + n) : j < i => j \in 1..m
    BY <1>3
  <2>3. FailsAt(ab, i)
    BY <1>3, <1>4, <2>1, <2>2 DEF FailsAt
  <2>4. FirstError(a) = a[i].error /\ FirstError(ab) = ab[i].error
    <3>1. m + n \in Nat
      BY <1>3
    <3> QED BY <1>3, <1>4, <2>1, <2>3, <3>1, ErrorAt
  <2> QED BY <1>4, <1>6, <1>8, <2>2, <2>3, <2>4 DEF ab, Listed
<1>9. CASE AllHold(a) /\ ~AllHold(b)
  <2>1. PICK i \in 1..n : FailsAt(b, i)
    BY <1>3, <1>9 DEF Listed
  <2>2. m + i \in 1..(m + n) /\ \A j \in 1..n : m + j < m + i => j < i
    BY <1>3
  <2>3. ASSUME NEW k \in 1..(m + n), k < m + i PROVE ab[k].holds
    <3>1. CASE k \in 1..m
      BY <1>3, <1>4, <1>9, <3>1 DEF AllHold
    <3>2. ASSUME NEW j \in 1..n, k = m + j PROVE ab[k].holds
      BY <1>3, <1>4, <2>1, <2>2, <2>3, <3>2 DEF FailsAt
    <3> QED BY <1>5, <3>1, <3>2
  <2>4. FailsAt(ab, m + i)
    BY <1>3, <1>4, <2>1, <2>2, <2>3 DEF FailsAt
  <2>5. FirstError(b) = b[i].error /\ FirstError(ab) = ab[m + i].error
    <3>1. m + n \in Nat
      BY <1>3
    <3> QED BY <1>3, <1>4, <2>1, <2>4, <3>1, ErrorAt
  <2> QED BY <1>4, <1>6, <1>9, <2>2, <2>4, <2>5 DEF ab, Listed
<1> QED BY <1>7, <1>8, <1>9 DEF ab

(* A list is what it begins with and its last member. *)
Extends(S, s, t, last) ==
  /\ s \in Seq(S) /\ t \in Seq(S) /\ last \in S
  /\ Len(t) = Len(s) + 1 /\ t[Len(t)] = last /\ \A i \in 1..Len(s) : t[i] = s[i]

LEMMA Longer ==
  ASSUME NEW S, NEW s, NEW t, NEW last, Extends(S, s, t, last)
  PROVE  t = s \o <<last>>
<1> USE DEF Extends
<1> DEFINE u == s \o <<last>>
<1>1. <<last>> \in Seq(S) /\ Len(<<last>>) = 1 /\ <<last>>[1] = last
  OBVIOUS
<1>2. /\ u \in Seq(S) /\ Len(u) = Len(s) + 1
      /\ \A i \in 1..(Len(s) + 1) : u[i] = IF i <= Len(s) THEN s[i] ELSE <<last>>[i - Len(s)]
  BY <1>1, ConcatProperties
<1> HIDE DEF u
<1>3. Len(s) \in Nat
  OBVIOUS
<1>4. ASSUME NEW i \in 1..Len(t) PROVE t[i] = u[i]
  <2>1. CASE i <= Len(s)
    BY <1>2, <1>3, <2>1
  <2>2. CASE i = Len(s) + 1
    BY <1>1, <1>2, <1>3, <2>2
  <2> QED BY <1>3, <2>1, <2>2
<1>5. t = u
  BY <1>2, <1>4, SeqEqual
<1> QED BY <1>5 DEF u

(* A list of checks is its checks one after another. *)
LEMMA Pair ==
  ASSUME NEW a, NEW b
  PROVE  <<a, b>> = <<a>> \o <<b>>
<1> DEFINE S == {a, b}
           s == <<a>>
           t == <<a, b>>
<1>1. s \in Seq(S) /\ Len(s) = 1 /\ s[1] = a
  OBVIOUS
<1>2. t \in Seq(S) /\ Len(t) = 2 /\ t[1] = a /\ t[2] = b
  OBVIOUS
<1>3. b \in S
  OBVIOUS
<1> HIDE DEF s, t, S
<1>4. \A i \in 1..Len(s) : t[i] = s[i]
  BY <1>1, <1>2
<1>5. Len(t) = Len(s) + 1 /\ t[Len(t)] = b
  BY <1>1, <1>2
<1>6. t = s \o <<b>>
  <2>1. Extends(S, s, t, b)
    BY <1>1, <1>2, <1>3, <1>4, <1>5 DEF Extends
  <2> QED BY <2>1, Longer
<1> QED BY <1>6 DEF s, t

LEMMA Triple ==
  ASSUME NEW a, NEW b, NEW c
  PROVE  <<a, b, c>> = <<a, b>> \o <<c>>
<1> DEFINE S == {a, b, c}
           s == <<a, b>>
           t == <<a, b, c>>
<1>1. s \in Seq(S) /\ Len(s) = 2 /\ s[1] = a /\ s[2] = b
  OBVIOUS
<1>2. t \in Seq(S) /\ Len(t) = 3 /\ t[1] = a /\ t[2] = b /\ t[3] = c
  OBVIOUS
<1>3. c \in S
  OBVIOUS
<1> HIDE DEF s, t, S
<1>4. \A i \in 1..Len(s) : t[i] = s[i]
  BY <1>1, <1>2
<1>5. Len(t) = Len(s) + 1 /\ t[Len(t)] = c
  BY <1>1, <1>2
<1>6. t = s \o <<c>>
  <2>1. Extends(S, s, t, c)
    BY <1>1, <1>2, <1>3, <1>4, <1>5 DEF Extends
  <2> QED BY <2>1, Longer
<1> QED BY <1>6 DEF s, t

LEMMA Four ==
  ASSUME NEW a, NEW b, NEW c, NEW d
  PROVE  <<a, b, c, d>> = <<a, b, c>> \o <<d>>
<1> DEFINE S == {a, b, c, d}
           s == <<a, b, c>>
           t == <<a, b, c, d>>
<1>1. s \in Seq(S) /\ Len(s) = 3 /\ s[1] = a /\ s[2] = b /\ s[3] = c
  OBVIOUS
<1>2. t \in Seq(S) /\ Len(t) = 4 /\ t[1] = a /\ t[2] = b /\ t[3] = c /\ t[4] = d
  OBVIOUS
<1>3. d \in S
  OBVIOUS
<1> HIDE DEF s, t, S
<1>4. \A i \in 1..Len(s) : t[i] = s[i]
  BY <1>1, <1>2
<1>5. Len(t) = Len(s) + 1 /\ t[Len(t)] = d
  BY <1>1, <1>2
<1>6. t = s \o <<d>>
  <2>1. Extends(S, s, t, d)
    BY <1>1, <1>2, <1>3, <1>4, <1>5 DEF Extends
  <2> QED BY <2>1, Longer
<1> QED BY <1>6 DEF s, t

LEMMA Five ==
  ASSUME NEW a, NEW b, NEW c, NEW d, NEW e
  PROVE  <<a, b, c, d, e>> = <<a, b, c, d>> \o <<e>>
<1> DEFINE S == {a, b, c, d, e}
           s == <<a, b, c, d>>
           t == <<a, b, c, d, e>>
<1>1. s \in Seq(S) /\ Len(s) = 4 /\ s[1] = a /\ s[2] = b /\ s[3] = c /\ s[4] = d
  OBVIOUS
<1>2. t \in Seq(S) /\ Len(t) = 5 /\ t[1] = a /\ t[2] = b /\ t[3] = c /\ t[4] = d /\ t[5] = e
  OBVIOUS
<1>3. e \in S
  OBVIOUS
<1> HIDE DEF s, t, S
<1>4. \A i \in 1..Len(s) : t[i] = s[i]
  BY <1>1, <1>2
<1>5. Len(t) = Len(s) + 1 /\ t[Len(t)] = e
  BY <1>1, <1>2
<1>6. t = s \o <<e>>
  <2>1. Extends(S, s, t, e)
    BY <1>1, <1>2, <1>3, <1>4, <1>5 DEF Extends
  <2> QED BY <2>1, Longer
<1> QED BY <1>6 DEF s, t

LEMMA Six ==
  ASSUME NEW a, NEW b, NEW c, NEW d, NEW e, NEW f
  PROVE  <<a, b, c, d, e, f>> = <<a, b, c, d, e>> \o <<f>>
<1> DEFINE S == {a, b, c, d, e, f}
           s == <<a, b, c, d, e>>
           t == <<a, b, c, d, e, f>>
<1>1. s \in Seq(S) /\ Len(s) = 5 /\ s[1] = a /\ s[2] = b /\ s[3] = c /\ s[4] = d /\ s[5] = e
  OBVIOUS
<1>2. t \in Seq(S) /\ Len(t) = 6 /\ t[1] = a /\ t[2] = b /\ t[3] = c /\ t[4] = d /\ t[5] = e /\ t[6] = f
  OBVIOUS
<1>3. f \in S
  OBVIOUS
<1> HIDE DEF s, t, S
<1>4. \A i \in 1..Len(s) : t[i] = s[i]
  BY <1>1, <1>2
<1>5. Len(t) = Len(s) + 1 /\ t[Len(t)] = f
  BY <1>1, <1>2
<1>6. t = s \o <<f>>
  <2>1. Extends(S, s, t, f)
    BY <1>1, <1>2, <1>3, <1>4, <1>5 DEF Extends
  <2> QED BY <2>1, Longer
<1> QED BY <1>6 DEF s, t

LEMMA PairChecks ==
  ASSUME NEW p1, NEW p2,
         NEW e1, NEW e2
  PROVE  /\ Listed(<<Check(p1, e1), Check(p2, e2)>>)
         /\ AllHold(<<Check(p1, e1), Check(p2, e2)>>) <=> p1 /\ p2
         /\ FirstError(<<Check(p1, e1), Check(p2, e2)>>) =
              IF ~p1 THEN e1 ELSE IF ~p2 THEN e2 ELSE "none"
<1> DEFINE s == <<Check(p1, e1)>>
           c == <<Check(p2, e2)>>
           t == <<Check(p1, e1), Check(p2, e2)>>
<1>1. t = s \o c
  BY Pair
<1>2. Listed(s) /\ (AllHold(s) <=> p1) /\ FirstError(s) = IF ~p1 THEN e1 ELSE "none"
  BY OneCheck
<1>3. Listed(c) /\ (AllHold(c) <=> p2) /\ FirstError(c) = IF p2 THEN "none" ELSE e2
  BY OneCheck
<1> HIDE DEF s, c, t
<1>4. Listed(t) /\ (AllHold(t) <=> AllHold(s) /\ AllHold(c))
      /\ FirstError(t) = IF AllHold(s) THEN FirstError(c) ELSE FirstError(s)
  BY <1>1, <1>2, <1>3, MoreChecks
<1>5. /\ Listed(t) /\ (AllHold(t) <=> p1 /\ p2)
      /\ FirstError(t) = IF ~p1 THEN e1 ELSE IF ~p2 THEN e2 ELSE "none"
  BY <1>2, <1>3, <1>4
<1> QED BY <1>5 DEF t

LEMMA TripleChecks ==
  ASSUME NEW p1, NEW p2, NEW p3,
         NEW e1, NEW e2, NEW e3
  PROVE  /\ Listed(<<Check(p1, e1), Check(p2, e2), Check(p3, e3)>>)
         /\ AllHold(<<Check(p1, e1), Check(p2, e2), Check(p3, e3)>>) <=> p1 /\ p2 /\ p3
         /\ FirstError(<<Check(p1, e1), Check(p2, e2), Check(p3, e3)>>) =
              IF ~p1 THEN e1 ELSE IF ~p2 THEN e2 ELSE IF ~p3 THEN e3 ELSE "none"
<1> DEFINE s == <<Check(p1, e1), Check(p2, e2)>>
           c == <<Check(p3, e3)>>
           t == <<Check(p1, e1), Check(p2, e2), Check(p3, e3)>>
<1>1. t = s \o c
  BY Triple
<1>2. /\ Listed(s) /\ (AllHold(s) <=> p1 /\ p2)
      /\ FirstError(s) = IF ~p1 THEN e1 ELSE IF ~p2 THEN e2 ELSE "none"
  BY PairChecks
<1>3. Listed(c) /\ (AllHold(c) <=> p3) /\ FirstError(c) = IF p3 THEN "none" ELSE e3
  BY OneCheck
<1> HIDE DEF s, c, t
<1>4. Listed(t) /\ (AllHold(t) <=> AllHold(s) /\ AllHold(c))
      /\ FirstError(t) = IF AllHold(s) THEN FirstError(c) ELSE FirstError(s)
  BY <1>1, <1>2, <1>3, MoreChecks
<1>5. /\ Listed(t) /\ (AllHold(t) <=> p1 /\ p2 /\ p3)
      /\ FirstError(t) = IF ~p1 THEN e1 ELSE IF ~p2 THEN e2 ELSE IF ~p3 THEN e3 ELSE "none"
  BY <1>2, <1>3, <1>4
<1> QED BY <1>5 DEF t

LEMMA FourChecks ==
  ASSUME NEW p1, NEW p2, NEW p3, NEW p4,
         NEW e1, NEW e2, NEW e3, NEW e4
  PROVE  /\ Listed(<<Check(p1, e1), Check(p2, e2), Check(p3, e3), Check(p4, e4)>>)
         /\ AllHold(<<Check(p1, e1), Check(p2, e2), Check(p3, e3),
                      Check(p4, e4)>>)
              <=> p1 /\ p2 /\ p3 /\ p4
         /\ FirstError(<<Check(p1, e1), Check(p2, e2), Check(p3, e3), Check(p4, e4)>>) =
              IF ~p1 THEN e1 ELSE IF ~p2 THEN e2 ELSE IF ~p3 THEN e3 ELSE IF ~p4 THEN e4 ELSE "none"
<1> DEFINE s == <<Check(p1, e1), Check(p2, e2), Check(p3, e3)>>
           c == <<Check(p4, e4)>>
           t == <<Check(p1, e1), Check(p2, e2), Check(p3, e3), Check(p4, e4)>>
<1>1. t = s \o c
  BY Four
<1>2. /\ Listed(s) /\ (AllHold(s) <=> p1 /\ p2 /\ p3)
      /\ FirstError(s) = IF ~p1 THEN e1 ELSE IF ~p2 THEN e2 ELSE IF ~p3 THEN e3 ELSE "none"
  BY TripleChecks
<1>3. Listed(c) /\ (AllHold(c) <=> p4) /\ FirstError(c) = IF p4 THEN "none" ELSE e4
  BY OneCheck
<1> HIDE DEF s, c, t
<1>4. Listed(t) /\ (AllHold(t) <=> AllHold(s) /\ AllHold(c))
      /\ FirstError(t) = IF AllHold(s) THEN FirstError(c) ELSE FirstError(s)
  BY <1>1, <1>2, <1>3, MoreChecks
<1>5. /\ Listed(t) /\ (AllHold(t) <=> p1 /\ p2 /\ p3 /\ p4)
      /\ FirstError(t) = IF ~p1 THEN e1 ELSE IF ~p2 THEN e2 ELSE IF ~p3 THEN e3 ELSE IF ~p4 THEN e4
                         ELSE "none"
  BY <1>2, <1>3, <1>4
<1> QED BY <1>5 DEF t

LEMMA FiveChecks ==
  ASSUME NEW p1, NEW p2, NEW p3, NEW p4, NEW p5,
         NEW e1, NEW e2, NEW e3, NEW e4, NEW e5
  PROVE  /\ Listed(<<Check(p1, e1), Check(p2, e2), Check(p3, e3), Check(p4, e4), Check(p5, e5)>>)
         /\ AllHold(<<Check(p1, e1), Check(p2, e2), Check(p3, e3),
                      Check(p4, e4), Check(p5, e5)>>)
              <=> p1 /\ p2 /\ p3 /\ p4 /\ p5
         /\ FirstError(<<Check(p1, e1), Check(p2, e2), Check(p3, e3), Check(p4, e4), Check(p5, e5)>>) =
              IF ~p1 THEN e1 ELSE IF ~p2 THEN e2 ELSE IF ~p3 THEN e3 ELSE IF ~p4 THEN e4
              ELSE IF ~p5 THEN e5 ELSE "none"
<1> DEFINE s == <<Check(p1, e1), Check(p2, e2), Check(p3, e3), Check(p4, e4)>>
           c == <<Check(p5, e5)>>
           t == <<Check(p1, e1), Check(p2, e2), Check(p3, e3), Check(p4, e4), Check(p5, e5)>>
<1>1. t = s \o c
  BY Five
<1>2. /\ Listed(s) /\ (AllHold(s) <=> p1 /\ p2 /\ p3 /\ p4)
      /\ FirstError(s) = IF ~p1 THEN e1 ELSE IF ~p2 THEN e2 ELSE IF ~p3 THEN e3 ELSE IF ~p4 THEN e4
                         ELSE "none"
  BY FourChecks
<1>3. Listed(c) /\ (AllHold(c) <=> p5) /\ FirstError(c) = IF p5 THEN "none" ELSE e5
  BY OneCheck
<1> HIDE DEF s, c, t
<1>4. Listed(t) /\ (AllHold(t) <=> AllHold(s) /\ AllHold(c))
      /\ FirstError(t) = IF AllHold(s) THEN FirstError(c) ELSE FirstError(s)
  BY <1>1, <1>2, <1>3, MoreChecks
<1>5. /\ Listed(t) /\ (AllHold(t) <=> p1 /\ p2 /\ p3 /\ p4 /\ p5)
      /\ FirstError(t) = IF ~p1 THEN e1 ELSE IF ~p2 THEN e2 ELSE IF ~p3 THEN e3 ELSE IF ~p4 THEN e4
                         ELSE IF ~p5 THEN e5 ELSE "none"
  BY <1>2, <1>3, <1>4
<1> QED BY <1>5 DEF t

LEMMA SixChecks ==
  ASSUME NEW p1, NEW p2, NEW p3, NEW p4, NEW p5, NEW p6,
         NEW e1, NEW e2, NEW e3, NEW e4, NEW e5, NEW e6
  PROVE  /\ Listed(<<Check(p1, e1), Check(p2, e2), Check(p3, e3),
                     Check(p4, e4), Check(p5, e5), Check(p6, e6)>>)
         /\ AllHold(<<Check(p1, e1), Check(p2, e2), Check(p3, e3),
                      Check(p4, e4), Check(p5, e5), Check(p6, e6)>>)
              <=> p1 /\ p2 /\ p3 /\ p4 /\ p5 /\ p6
         /\ FirstError(<<Check(p1, e1), Check(p2, e2), Check(p3, e3),
                         Check(p4, e4), Check(p5, e5), Check(p6, e6)>>) =
              IF ~p1 THEN e1 ELSE IF ~p2 THEN e2 ELSE IF ~p3 THEN e3 ELSE IF ~p4 THEN e4
              ELSE IF ~p5 THEN e5 ELSE IF ~p6 THEN e6 ELSE "none"
<1> DEFINE s == <<Check(p1, e1), Check(p2, e2), Check(p3, e3), Check(p4, e4), Check(p5, e5)>>
           c == <<Check(p6, e6)>>
           t == <<Check(p1, e1), Check(p2, e2), Check(p3, e3),
                  Check(p4, e4), Check(p5, e5), Check(p6, e6)>>
<1>1. t = s \o c
  BY Six
<1>2. /\ Listed(s) /\ (AllHold(s) <=> p1 /\ p2 /\ p3 /\ p4 /\ p5)
      /\ FirstError(s) = IF ~p1 THEN e1 ELSE IF ~p2 THEN e2 ELSE IF ~p3 THEN e3 ELSE IF ~p4 THEN e4
                         ELSE IF ~p5 THEN e5 ELSE "none"
  BY FiveChecks
<1>3. Listed(c) /\ (AllHold(c) <=> p6) /\ FirstError(c) = IF p6 THEN "none" ELSE e6
  BY OneCheck
<1> HIDE DEF s, c, t
<1>4. Listed(t) /\ (AllHold(t) <=> AllHold(s) /\ AllHold(c))
      /\ FirstError(t) = IF AllHold(s) THEN FirstError(c) ELSE FirstError(s)
  BY <1>1, <1>2, <1>3, MoreChecks
<1>5. /\ Listed(t) /\ (AllHold(t) <=> p1 /\ p2 /\ p3 /\ p4 /\ p5 /\ p6)
      /\ FirstError(t) = IF ~p1 THEN e1 ELSE IF ~p2 THEN e2 ELSE IF ~p3 THEN e3 ELSE IF ~p4 THEN e4
                         ELSE IF ~p5 THEN e5 ELSE IF ~p6 THEN e6 ELSE "none"
  BY <1>2, <1>3, <1>4
<1> QED BY <1>5 DEF t

-----------------------------------------------------------------------------
(* What is read of an item of message at, when it has been damaged. *)
Seen(damage, at, item) ==
  IF damage.at # at THEN item.value
  ELSE IF Refusing(damage)
  THEN IF damage.how = "error_elsewhere" /\ item.type = "State" THEN NoOctets ELSE item.value
  ELSE IF item.type # damage.what THEN item.value
  ELSE IF damage.how = "dropped" THEN NoOctets
  ELSE IF damage.how = "resized" THEN Resized(item.value, item.value.bytes - 1)
  ELSE Code(damage.to)

SeenError(damage, at) ==
  IF damage.at = at /\ Refusing(damage) THEN Code(damage.to) ELSE NoOctets

(* The damages of a kind (Pairing). *)
Kinds(damage) ==
  \/ damage = Unhurt
  \/ damage.how \in {"dropped", "resized"}
  \/ damage.how = "state" /\ damage.what = "State"
  \/ damage.how \in {"error", "error_elsewhere"} /\ damage.what = "Error"

LEMMA DamageKinds ==
  ASSUME NEW damage, damage \in SetupDamages \/ damage \in VerifyDamages
  PROVE  Kinds(damage)
BY DEF SetupDamages, VerifyDamages, Damages, Kinds

(* A message: no two of its items of one type, and all of types that are read. *)
Message(items, n) ==
  /\ n \in Nat /\ DOMAIN items = 1..n
  /\ \A i \in 1..n : items[i].type # "Ignored"
  /\ \A i, j \in 1..n : items[i].type = items[j].type => i = j

LEMMA ItemsAre ==
  ASSUME NEW items
  PROVE  Items(items).kind = "items" /\ Items(items).of = items /\ itemsOf(Items(items)) = items
BY DEF Items, Octets, itemsOf

(* What is read of an item that has been altered. *)
LEMMA AlteredIsSeen ==
  ASSUME NEW damage, Kinds(damage), NEW at, damage.at = at, at # 0, NEW item, item.type # "Ignored",
         NEW altered, altered = IF item.type = damage.what \/ Refusing(damage)
                                THEN Altered(damage, item) ELSE item
  PROVE  /\ altered.type \in {item.type, "Ignored"}
         /\ altered.type = item.type => altered.value = Seen(damage, at, item)
         /\ altered.type # item.type => Seen(damage, at, item) = NoOctets
<1>1. CASE damage.how = "error"
  BY <1>1 DEF Altered, Seen, Refusing
<1>2. CASE damage.how = "error_elsewhere"
  <2>1. altered = IF item.type = "State" THEN Item("Ignored", item.value) ELSE item
    BY <1>2 DEF Altered, Refusing
  <2> QED BY <1>2, <2>1 DEF Seen, Refusing, Item
<1>3. CASE damage.how = "dropped"
  <2>1. altered = IF item.type = damage.what THEN Item("Ignored", item.value) ELSE item
    BY <1>3 DEF Altered, Refusing
  <2> QED BY <1>3, <2>1 DEF Seen, Refusing, Item
<1>4. CASE damage.how = "resized"
  <2> DEFINE value == Resized(item.value, item.value.bytes - 1)
  <2>1. altered = IF item.type = damage.what THEN Item(item.type, value) ELSE item
    BY <1>4 DEF Altered, Refusing
  <2>2. Seen(damage, at, item) = IF item.type = damage.what THEN value ELSE item.value
    BY <1>4 DEF Seen, Refusing
  <2> HIDE DEF value
  <2> QED BY <2>1, <2>2 DEF Item
<1>5. CASE damage.how = "state" /\ damage.what = "State"
  <2>1. altered = IF item.type = "State" THEN Item("State", Code(damage.to)) ELSE item
    BY <1>5 DEF Altered, Refusing, State, Code
  <2>2. Seen(damage, at, item) = IF item.type = "State" THEN Code(damage.to) ELSE item.value
    BY <1>5 DEF Seen, Refusing
  <2> QED BY <2>1, <2>2 DEF Item
<1>6. damage # Unhurt
  BY DEF Unhurt
<1> QED BY <1>1, <1>2, <1>3, <1>4, <1>5, <1>6 DEF Kinds

(* What a reader finds in what arrives of a message. *)
LEMMA HurtFinds ==
  ASSUME NEW damage, Kinds(damage), NEW at \in 1..6,
         NEW payload, payload.kind = "items", NEW n, Message(itemsOf(payload), n),
         NEW got, got = Hurt(damage, at, payload)
  PROVE  /\ got.kind = "items"
         /\ \A i \in 1..n : itemsOf(payload)[i].type # "Error" =>
               findItem(itemsOf(got), itemsOf(payload)[i].type) = Seen(damage, at, itemsOf(payload)[i])
         /\ \A type : type \notin {"Ignored", "Error"} /\ (\A i \in 1..n : itemsOf(payload)[i].type # type)
               => findItem(itemsOf(got), type) = NoOctets
         /\ (\A i \in 1..n : itemsOf(payload)[i].type # "Error")
               => findItem(itemsOf(got), "Error") = SeenError(damage, at)
<1> DEFINE items == itemsOf(payload)
<1> USE DEF Message
<1>1. CASE damage.at # at
  <2>1. got = payload
    BY <1>1 DEF Hurt
  <2>2. ASSUME NEW i \in 1..n PROVE findItem(items, items[i].type) = items[i].value
    <3>1. n \in Nat /\ DOMAIN items = 1..n /\ \A j \in 1..n : j < i => items[j].type # items[i].type
      OBVIOUS
    <3> HIDE DEF items
    <3> QED BY <3>1, FindAt
  <2>3. \A type : (\A i \in 1..n : items[i].type # type) => findItem(items, type) = NoOctets
    BY FindNot
  <2> QED BY <1>1, <2>1, <2>2, <2>3 DEF Seen, SeenError
<1>2. CASE damage.at = at
  <2> DEFINE Touched(item) == item.type = damage.what \/ Refusing(damage)
             hurt == [i \in DOMAIN items |-> IF Touched(items[i]) THEN Altered(damage, items[i]) ELSE items[i]]
             last == Item("Error", Code(damage.to))
             seen == IF Refusing(damage) THEN Append(hurt, last) ELSE hurt
  <2>1. got = Items(seen)
    BY <1>2 DEF Hurt
  <2>2. got.kind = "items" /\ itemsOf(got) = seen
    BY <2>1, ItemsAre
  <2>3. ASSUME NEW i \in 1..n
        PROVE  /\ hurt[i].type \in {items[i].type, "Ignored"}
               /\ hurt[i].type = items[i].type => hurt[i].value = Seen(damage, at, items[i])
               /\ hurt[i].type # items[i].type => Seen(damage, at, items[i]) = NoOctets
    <3>1. hurt[i] = IF Touched(items[i]) THEN Altered(damage, items[i]) ELSE items[i]
      OBVIOUS
    <3> HIDE DEF hurt, items
    <3> QED BY <1>2, <3>1, AlteredIsSeen DEF items
  <2> DEFINE S == {hurt[i] : i \in 1..n} \cup {last}
  <2>4. hurt \in Seq(S) /\ Len(hurt) = n /\ last \in S
    OBVIOUS
  <2>5. last.type = "Error" /\ last.value = Code(damage.to)
    BY DEF Item
  <2> HIDE DEF hurt, S, last
  <2>6. /\ \A i \in 1..n : seen[i] = hurt[i]
        /\ ~Refusing(damage) => DOMAIN seen = 1..n
        /\ Refusing(damage) => DOMAIN seen = 1..(n + 1) /\ seen[n + 1] = last
    <3>1. CASE Refusing(damage)
      <4>1. seen = Append(hurt, last)
        BY <3>1
      <4> HIDE DEF seen
      <4> QED BY <2>4, <3>1, <4>1, AppendProperties
    <3>2. CASE ~Refusing(damage)
      BY <2>4, <3>2
    <3> QED BY <3>1, <3>2
  <2> HIDE DEF seen, items
  <2>7. PICK m \in Nat : DOMAIN seen = 1..m /\ m >= n /\ \A j \in 1..m : j > n => seen[j].type = "Error"
    <3>1. n \in Nat
      BY DEF items
    <3>2. CASE Refusing(damage)
      BY <2>5, <2>6, <3>1, <3>2
    <3>3. CASE ~Refusing(damage)
      BY <2>6, <3>1, <3>3
    <3> QED BY <3>2, <3>3
  <2>8. ASSUME NEW i \in 1..n, items[i].type # "Error"
        PROVE  findItem(seen, items[i].type) = Seen(damage, at, items[i])
    <3>1. items[i].type # "Ignored"
      BY DEF items
    <3>2. \A j \in 1..n : j # i => seen[j].type # items[i].type
      <4> TAKE j \in 1..n
      <4>1. j # i => items[j].type # items[i].type
        BY DEF items
      <4> QED BY <2>3, <2>6, <3>1, <4>1
    <3>3. CASE seen[i].type = items[i].type
      <4>1. n \in Nat /\ i \in 1..m
        BY <2>7 DEF items
      <4>2. \A j \in 1..m : j < i => seen[j].type # items[i].type
        BY <2>7, <3>2, <4>1
      <4>3. findItem(seen, items[i].type) = seen[i].value
        BY <2>7, <3>3, <4>1, <4>2, FindAt
      <4> QED BY <2>3, <2>6, <3>3, <4>3
    <3>4. CASE seen[i].type # items[i].type
      <4>1. \A j \in 1..m : seen[j].type # items[i].type
        BY <2>7, <2>8, <3>2, <3>4
      <4>2. findItem(seen, items[i].type) = NoOctets
        BY <2>7, <4>1, FindNot
      <4> QED BY <2>3, <2>6, <3>4, <4>2
    <3> QED BY <3>3, <3>4
  <2>9. ASSUME NEW type, type \notin {"Ignored", "Error"}, \A i \in 1..n : items[i].type # type
        PROVE  findItem(seen, type) = NoOctets
    <3>1. \A j \in DOMAIN seen : seen[j].type # type
      BY <2>3, <2>6, <2>7, <2>9
    <3> QED BY <3>1, FindNot
  <2>10. ASSUME \A i \in 1..n : items[i].type # "Error"
         PROVE  findItem(seen, "Error") = SeenError(damage, at)
    <3>1. \A i \in 1..n : seen[i].type # "Error"
      BY <2>3, <2>6, <2>10
    <3>2. CASE Refusing(damage)
      <4>1. n + 1 \in Nat /\ n + 1 \in 1..(n + 1) /\ \A j \in 1..(n + 1) : j < n + 1 => j \in 1..n
        BY DEF items
      <4>2. seen[n + 1].type = "Error" /\ seen[n + 1].value = Code(damage.to)
        BY <2>5, <2>6, <3>2
      <4>3. findItem(seen, "Error") = seen[n + 1].value
        BY <2>6, <3>1, <3>2, <4>1, <4>2, FindAt
      <4> QED BY <1>2, <3>2, <4>2, <4>3 DEF SeenError
    <3>3. CASE ~Refusing(damage)
      BY <1>2, <2>6, <3>1, <3>3, FindNot DEF SeenError
    <3> QED BY <3>2, <3>3
  <2> QED BY <2>2, <2>8, <2>9, <2>10 DEF items
<1> QED BY <1>1, <1>2

-----------------------------------------------------------------------------
(* The checks of each reader, one by one (Response/Read.ts, Tlv8.ts).      *)
LEMMA ResponseChecks ==
  ASSUME NEW r, NEW n
  PROVE  /\ Listed(readResponse(r, n))
         /\ AllHold(readResponse(r, n)) <=>
              /\ r.kind = "items"
              /\ ~has(itemsOf(r), "Error")
              /\ findItem(itemsOf(r), "State") = Code(n)
         /\ FirstError(readResponse(r, n)) =
              IF r.kind # "items" THEN "SchemaError"
              ELSE IF has(itemsOf(r), "Error") THEN fromWire(findItem(itemsOf(r), "Error"))
              ELSE IF findItem(itemsOf(r), "State") # Code(n) THEN "UnexpectedState" ELSE "none"
<1> DEFINE read    == r.kind = "items"
           granted == ~has(itemsOf(r), "Error")
           turned  == findItem(itemsOf(r), "State") = Code(n)
           blame   == fromWire(findItem(itemsOf(r), "Error"))
           checks  == <<Check(read, "SchemaError"), Check(granted, blame), Check(turned, "UnexpectedState")>>
<1>1. readResponse(r, n) = checks
  BY DEF readResponse, refusal, expectState
<1>2. /\ Listed(checks) /\ (AllHold(checks) <=> read /\ granted /\ turned)
      /\ FirstError(checks) = IF ~read THEN "SchemaError" ELSE IF ~granted THEN blame
                              ELSE IF ~turned THEN "UnexpectedState" ELSE "none"
  <2> HIDE DEF read, granted, turned, blame
  <2> QED BY TripleChecks
<1> HIDE DEF checks
<1> QED BY <1>1, <1>2

LEMMA RequiredChecks ==
  ASSUME NEW items, NEW type
  PROVE  /\ Listed(required(items, type))
         /\ AllHold(required(items, type)) <=> has(items, type)
         /\ FirstError(required(items, type)) = IF has(items, type) THEN "none" ELSE "MissingItem"
BY OneCheck DEF required

LEMMA ExactlyChecks ==
  ASSUME NEW items, NEW type, NEW n
  PROVE  /\ Listed(exactlyOf(items, type, n))
         /\ AllHold(exactlyOf(items, type, n)) <=> has(items, type) /\ exactly(items, type, n)
         /\ FirstError(exactlyOf(items, type, n)) =
              IF ~has(items, type) THEN "MissingItem"
              ELSE IF ~exactly(items, type, n) THEN "MalformedItem" ELSE "none"
<1> DEFINE c == <<Check(exactly(items, type, n), "MalformedItem")>>
           r == required(items, type)
<1>1. /\ Listed(c) /\ (AllHold(c) <=> exactly(items, type, n))
      /\ FirstError(c) = IF exactly(items, type, n) THEN "none" ELSE "MalformedItem"
  BY OneCheck
<1>2. /\ Listed(r) /\ (AllHold(r) <=> has(items, type))
      /\ FirstError(r) = IF has(items, type) THEN "none" ELSE "MissingItem"
  BY RequiredChecks
<1>3. exactlyOf(items, type, n) = r \o c
  BY DEF exactlyOf
<1> HIDE DEF c, r
<1> QED BY <1>1, <1>2, <1>3, MoreChecks

LEMMA AtMostChecks ==
  ASSUME NEW items, NEW type, NEW n
  PROVE  /\ Listed(atMostOf(items, type, n))
         /\ AllHold(atMostOf(items, type, n)) <=> has(items, type) /\ atMost(items, type, n)
         /\ FirstError(atMostOf(items, type, n)) =
              IF ~has(items, type) THEN "MissingItem"
              ELSE IF ~atMost(items, type, n) THEN "MalformedItem" ELSE "none"
<1> DEFINE c == <<Check(atMost(items, type, n), "MalformedItem")>>
           r == required(items, type)
<1>1. /\ Listed(c) /\ (AllHold(c) <=> atMost(items, type, n))
      /\ FirstError(c) = IF atMost(items, type, n) THEN "none" ELSE "MalformedItem"
  BY OneCheck
<1>2. /\ Listed(r) /\ (AllHold(r) <=> has(items, type))
      /\ FirstError(r) = IF has(items, type) THEN "none" ELSE "MissingItem"
  BY RequiredChecks
<1>3. atMostOf(items, type, n) = r \o c
  BY DEF atMostOf
<1> HIDE DEF c, r
<1> QED BY <1>1, <1>2, <1>3, MoreChecks

(* M2 as the controller reads it. *)
LEMMA M3Error ==
  ASSUME NEW r, NEW pin, NEW private
  PROVE  m3(r, pin, private).error =
           IF r.kind # "items" THEN "SchemaError"
           ELSE IF has(itemsOf(r), "Error") THEN fromWire(findItem(itemsOf(r), "Error"))
           ELSE IF findItem(itemsOf(r), "State") # Code(2) THEN "UnexpectedState"
           ELSE IF ~has(itemsOf(r), "Salt") \/ ~has(itemsOf(r), "PublicKey") THEN "MissingItem"
           ELSE "none"
<1> DEFINE a == readResponse(r, 2)
           b == required(itemsOf(r), "Salt")
           c == required(itemsOf(r), "PublicKey")
<1>1. Listed(a) /\ Listed(b) /\ Listed(c)
  BY ResponseChecks, RequiredChecks
<1>2. m3(r, pin, private).error = FirstError(a \o b \o c)
  BY DEF m3
<1>3. FirstError(a \o b \o c) =
        IF AllHold(a) THEN IF AllHold(b) THEN FirstError(c) ELSE FirstError(b) ELSE FirstError(a)
  <2> HIDE DEF a, b, c
  <2>1. /\ Listed(a \o b) /\ (AllHold(a \o b) <=> AllHold(a) /\ AllHold(b))
        /\ FirstError(a \o b) = IF AllHold(a) THEN FirstError(b) ELSE FirstError(a)
    BY <1>1, MoreChecks
  <2> QED BY <1>1, <2>1, MoreChecks
<1> QED BY <1>2, <1>3, ResponseChecks, RequiredChecks

(* Checks whose errors are errors: nothing fails just when all of them hold. *)
Proper(checks) == Listed(checks) /\ (FirstError(checks) = "none" <=> AllHold(checks))

LEMMA ProperMore ==
  ASSUME NEW a, NEW b, Proper(a), Proper(b)
  PROVE  /\ Proper(a \o b)
         /\ AllHold(a \o b) <=> AllHold(a) /\ AllHold(b)
         /\ FirstError(a \o b) = IF AllHold(a) THEN FirstError(b) ELSE FirstError(a)
<1>1. Listed(a) /\ Listed(b)
  BY DEF Proper
<1>2. /\ Listed(a \o b) /\ (AllHold(a \o b) <=> AllHold(a) /\ AllHold(b))
      /\ FirstError(a \o b) = IF AllHold(a) THEN FirstError(b) ELSE FirstError(a)
  BY <1>1, MoreChecks
<1> QED BY <1>2 DEF Proper

LEMMA ProperParts ==
  ASSUME NEW items, NEW type, NEW n, NEW r
  PROVE  /\ Proper(required(items, type)) /\ Proper(exactlyOf(items, type, n))
         /\ Proper(atMostOf(items, type, n)) /\ Proper(readResponse(r, n))
<1>1. fromWire(findItem(itemsOf(r), "Error")) # "none"
  BY DEF fromWire
<1> QED BY <1>1, RequiredChecks, ExactlyChecks, AtMostChecks, ResponseChecks DEF Proper

LEMMA ProperOne ==
  ASSUME NEW ok, NEW name, name # "none" \/ ok
  PROVE  /\ Proper(<<Check(ok, name)>>)
         /\ AllHold(<<Check(ok, name)>>) <=> ok
         /\ FirstError(<<Check(ok, name)>>) = IF ok THEN "none" ELSE name
BY OneCheck DEF Proper

LEMMA ProperTwo ==
  ASSUME NEW p, NEW e, NEW q, NEW f, e # "none" \/ p, f # "none" \/ q
  PROVE  /\ Proper(<<Check(p, e), Check(q, f)>>)
         /\ AllHold(<<Check(p, e), Check(q, f)>>) <=> p /\ q
         /\ FirstError(<<Check(p, e), Check(q, f)>>) = IF ~p THEN e ELSE IF ~q THEN f ELSE "none"
BY PairChecks DEF Proper

(* M4 as the controller reads it. *)
LEMMA M5Error ==
  ASSUME NEW r, NEW key, NEW identity
  PROVE  m5(r, key, identity).error =
           IF r.kind # "items" THEN "SchemaError"
           ELSE IF has(itemsOf(r), "Error") THEN fromWire(findItem(itemsOf(r), "Error"))
           ELSE IF findItem(itemsOf(r), "State") # Code(4) THEN "UnexpectedState"
           ELSE IF ~has(itemsOf(r), "Proof") THEN "MissingItem"
           ELSE IF ~exactly(itemsOf(r), "Proof", PROOF_BYTES) THEN "MalformedItem"
           ELSE IF findItem(itemsOf(r), "Proof") # ServerProof(key) THEN "ProofRejected"
           ELSE IF ~(identity.identifier.bytes <= MAX_IDENTIFIER_BYTES) THEN "IdentifierTooLong"
           ELSE "none"
<1> DEFINE proved == findItem(itemsOf(r), "Proof") = ServerProof(key)
           fits == identity.identifier.bytes <= MAX_IDENTIFIER_BYTES
           a == readResponse(r, 4)
           b == exactlyOf(itemsOf(r), "Proof", PROOF_BYTES)
           c == <<Check(proved, "ProofRejected"), Check(fits, "IdentifierTooLong")>>
<1>1. Proper(a) /\ Proper(b)
  BY ProperParts
<1>2. /\ Proper(c) /\ (AllHold(c) <=> proved /\ fits)
      /\ FirstError(c) = IF ~proved THEN "ProofRejected" ELSE IF ~fits THEN "IdentifierTooLong" ELSE "none"
  <2> HIDE DEF proved, fits
  <2> QED BY ProperTwo
<1>3. m5(r, key, identity).error = FirstError(a \o b \o c)
  BY DEF m5
<1>4. FirstError(a \o b \o c) =
        IF AllHold(a) THEN IF AllHold(b) THEN FirstError(c) ELSE FirstError(b) ELSE FirstError(a)
  <2> HIDE DEF a, b, c
  <2>1. /\ Proper(a \o b) /\ (AllHold(a \o b) <=> AllHold(a) /\ AllHold(b))
        /\ FirstError(a \o b) = IF AllHold(a) THEN FirstError(b) ELSE FirstError(a)
    BY <1>1, ProperMore
  <2> QED BY <1>2, <2>1, ProperMore
<1> HIDE DEF c
<1> QED BY <1>2, <1>3, <1>4, ResponseChecks, ExactlyChecks

(* What open and ed25519Verify end in. *)
LEMMA OpenEnds ==
  ASSUME NEW key, NEW nonce, NEW sealed, NEW associated
  PROVE  open(key, nonce, sealed, associated).error \in {"none", "BadArgument", "ForgedFrame"}
BY DEF open, Ok, Fails

(* M6 as the controller reads it: an error that is no refusal has a name   *)
(* of its own. *)
NamedErrors == {"UnexpectedState", "MissingItem", "MalformedItem", "SchemaError", "SignatureRejected",
          "BadArgument", "ForgedFrame"}

(* An introduction holds what it must. *)
Whole(sub) ==
  /\ has(sub, "Identifier") /\ atMost(sub, "Identifier", MAX_IDENTIFIER_BYTES)
  /\ has(sub, "PublicKey") /\ exactly(sub, "PublicKey", PUBLIC_KEY)
  /\ has(sub, "Signature") /\ exactly(sub, "Signature", SIGNATURE)

LEMMA FinishEnds ==
  ASSUME NEW r, NEW key, NEW last, last = finish(r, key), NEW items, items = itemsOf(r),
         NEW opened,
         opened = open(EncryptionKey(key), Msg06, findItem(items, "EncryptedData"), Joined(<<>>)),
         NEW sub, sub = itemsOf(opened.value),
         NEW signed,
         signed = ed25519Verify(findItem(sub, "PublicKey"),
                                deviceInfo(AccessoryX(key), findItem(sub, "Identifier"),
                                           findItem(sub, "PublicKey")),
                                findItem(sub, "Signature"))
  PROVE  /\ last.peer = Peer(findItem(sub, "Identifier"), findItem(sub, "PublicKey"))
         /\ r.kind # "items" => last.error = "SchemaError"
         /\ r.kind = "items" /\ has(items, "Error") => last.error = fromWire(findItem(items, "Error"))
         /\ r.kind = "items" /\ ~has(items, "Error") => last.error \in NamedErrors \cup {"none"}
         /\ last.error = "none" <=>
              /\ r.kind = "items" /\ ~has(items, "Error") /\ findItem(items, "State") = Code(6)
              /\ has(items, "EncryptedData") /\ opened.error = "none" /\ opened.value.kind = "items"
              /\ Whole(sub) /\ signed.value = Text("true", 1)
<1> DEFINE openedOk == opened.error = "none"
           itemsOk  == opened.value.kind = "items"
           signedOk == signed.value = Text("true", 1)
           a == readResponse(r, 6)
           b == required(items, "EncryptedData")
           c == <<Check(openedOk, opened.error), Check(itemsOk, "SchemaError")>>
           d == atMostOf(sub, "Identifier", MAX_IDENTIFIER_BYTES)
           e == exactlyOf(sub, "PublicKey", PUBLIC_KEY)
           f == exactlyOf(sub, "Signature", SIGNATURE)
           g == <<Check(signedOk, "SignatureRejected")>>
<1>1. Proper(a) /\ Proper(b) /\ Proper(d) /\ Proper(e) /\ Proper(f)
  BY ProperParts
<1>2. opened.error \in {"none", "BadArgument", "ForgedFrame"}
  BY OpenEnds
<1>3. /\ Proper(c) /\ (AllHold(c) <=> openedOk /\ itemsOk)
      /\ FirstError(c) = IF ~openedOk THEN opened.error ELSE IF ~itemsOk THEN "SchemaError" ELSE "none"
  <2>1. opened.error # "none" \/ openedOk
    OBVIOUS
  <2> HIDE DEF openedOk, itemsOk
  <2> QED BY <2>1, ProperTwo
<1>4. /\ Proper(g) /\ (AllHold(g) <=> signedOk)
      /\ FirstError(g) = IF signedOk THEN "none" ELSE "SignatureRejected"
  <2> HIDE DEF signedOk
  <2> QED BY ProperOne
<1>5. /\ last.error = FirstError(a \o b \o c \o d \o e \o f \o g)
      /\ last.peer = Peer(findItem(sub, "Identifier"), findItem(sub, "PublicKey"))
  BY DEF finish, Peer
<1>6. /\ FirstError(a \o b \o c \o d \o e \o f \o g) =
           IF ~AllHold(a) THEN FirstError(a) ELSE IF ~AllHold(b) THEN FirstError(b)
           ELSE IF ~AllHold(c) THEN FirstError(c) ELSE IF ~AllHold(d) THEN FirstError(d)
           ELSE IF ~AllHold(e) THEN FirstError(e) ELSE IF ~AllHold(f) THEN FirstError(f)
           ELSE FirstError(g)
      /\ FirstError(g) = "none" <=> AllHold(g)
  <2> HIDE DEF a, b, c, d, e, f, g
  <2>1. /\ Proper(a \o b) /\ (AllHold(a \o b) <=> AllHold(a) /\ AllHold(b))
        /\ FirstError(a \o b) = IF AllHold(a) THEN FirstError(b) ELSE FirstError(a)
    BY <1>1, ProperMore
  <2>2. /\ Proper(a \o b \o c) /\ (AllHold(a \o b \o c) <=> AllHold(a \o b) /\ AllHold(c))
        /\ FirstError(a \o b \o c) = IF AllHold(a \o b) THEN FirstError(c) ELSE FirstError(a \o b)
    BY <1>3, <2>1, ProperMore
  <2>3. /\ Proper(a \o b \o c \o d) /\ (AllHold(a \o b \o c \o d) <=> AllHold(a \o b \o c) /\ AllHold(d))
        /\ FirstError(a \o b \o c \o d) =
             IF AllHold(a \o b \o c) THEN FirstError(d) ELSE FirstError(a \o b \o c)
    BY <1>1, <2>2, ProperMore
  <2>4. /\ Proper(a \o b \o c \o d \o e)
        /\ AllHold(a \o b \o c \o d \o e) <=> AllHold(a \o b \o c \o d) /\ AllHold(e)
        /\ FirstError(a \o b \o c \o d \o e) =
             IF AllHold(a \o b \o c \o d) THEN FirstError(e) ELSE FirstError(a \o b \o c \o d)
    BY <1>1, <2>3, ProperMore
  <2>5. /\ Proper(a \o b \o c \o d \o e \o f)
        /\ AllHold(a \o b \o c \o d \o e \o f) <=> AllHold(a \o b \o c \o d \o e) /\ AllHold(f)
        /\ FirstError(a \o b \o c \o d \o e \o f) =
             IF AllHold(a \o b \o c \o d \o e) THEN FirstError(f) ELSE FirstError(a \o b \o c \o d \o e)
    BY <1>1, <2>4, ProperMore
  <2>6. FirstError(a \o b \o c \o d \o e \o f \o g) =
          IF AllHold(a \o b \o c \o d \o e \o f) THEN FirstError(g)
          ELSE FirstError(a \o b \o c \o d \o e \o f)
    BY <1>4, <2>5, ProperMore
  <2> QED BY <1>4, <2>1, <2>2, <2>3, <2>4, <2>5, <2>6 DEF Proper
<1>7. /\ AllHold(a) <=> r.kind = "items" /\ ~has(items, "Error") /\ findItem(items, "State") = Code(6)
      /\ FirstError(a) =
           IF r.kind # "items" THEN "SchemaError"
           ELSE IF has(items, "Error") THEN fromWire(findItem(items, "Error"))
           ELSE IF findItem(items, "State") # Code(6) THEN "UnexpectedState" ELSE "none"
  BY ResponseChecks
<1>8. /\ AllHold(b) <=> has(items, "EncryptedData")
      /\ FirstError(b) \in {"none", "MissingItem"}
      /\ AllHold(d) <=> has(sub, "Identifier") /\ atMost(sub, "Identifier", MAX_IDENTIFIER_BYTES)
      /\ AllHold(e) <=> has(sub, "PublicKey") /\ exactly(sub, "PublicKey", PUBLIC_KEY)
      /\ AllHold(f) <=> has(sub, "Signature") /\ exactly(sub, "Signature", SIGNATURE)
      /\ {FirstError(d), FirstError(e), FirstError(f)} \subseteq {"none", "MissingItem", "MalformedItem"}
  BY RequiredChecks, AtMostChecks, ExactlyChecks
<1>9. \A x \in {a, b, c, d, e, f, g} : FirstError(x) = "none" <=> AllHold(x)
  BY <1>1, <1>3, <1>4 DEF Proper
<1> HIDE DEF a, b, c, d, e, f, g
<1>10. fromWire(findItem(items, "Error")) # "none"
  BY DEF fromWire
<1> QED BY <1>2, <1>3, <1>4, <1>5, <1>6, <1>7, <1>8, <1>9, <1>10 DEF NamedErrors, Whole

-----------------------------------------------------------------------------
(* What the accessory answers (Accessory.ts). *)
LEMMA RequestChecks ==
  ASSUME NEW r, NEW n
  PROVE  /\ Proper(requestChecks(r, n))
         /\ AllHold(requestChecks(r, n)) <=> r.kind = "items" /\ findItem(itemsOf(r), "State") = Code(n)
<1> DEFINE read   == r.kind = "items"
           short  == findItem(itemsOf(r), "State").bytes = 1
           turned == findItem(itemsOf(r), "State") = Code(n)
           checks == <<Check(read, "MalformedMessage"), Check(short, "MalformedMessage"),
                       Check(turned, "UnexpectedState")>>
<1>1. requestChecks(r, n) = checks
  BY DEF requestChecks
<1>2. /\ Listed(checks) /\ (AllHold(checks) <=> read /\ short /\ turned)
      /\ FirstError(checks) = IF ~read THEN "MalformedMessage" ELSE IF ~short THEN "MalformedMessage"
                              ELSE IF ~turned THEN "UnexpectedState" ELSE "none"
  <2> HIDE DEF read, short, turned
  <2> QED BY TripleChecks
<1> HIDE DEF checks
<1>3. turned => short
  BY DEF Code, Number
<1> QED BY <1>1, <1>2, <1>3 DEF Proper

LEMMA BeginAnswers ==
  ASSUME NEW r, NEW accessory
  PROVE  begin(r, accessory) =
           IF /\ r.kind = "items" /\ findItem(itemsOf(r), "State") = Code(1)
              /\ findItem(itemsOf(r), "Method") = Code(PairSetupMethod)
           THEN Answered(Items(<<State(2), Item("Salt", accessory.salt),
                                 Item("PublicKey", Public(accessory.private))>>))
           ELSE Failed
<1> DEFINE methodOk == findItem(itemsOf(r), "Method") = Code(PairSetupMethod)
           a == requestChecks(r, 1)
           b == <<Check(methodOk, "MalformedMessage")>>
           answered == Answered(Items(<<State(2), Item("Salt", accessory.salt),
                                        Item("PublicKey", Public(accessory.private))>>))
<1>1. Proper(a)
  BY RequestChecks
<1>2. Proper(b) /\ (AllHold(b) <=> methodOk)
  <2> HIDE DEF methodOk
  <2> QED BY ProperOne
<1>3. begin(r, accessory) = OrFailed(a \o b, answered)
  BY DEF begin
<1>4. FirstError(a \o b) = "none" <=> AllHold(a) /\ AllHold(b)
  <2> HIDE DEF a, b
  <2> QED BY <1>1, <1>2, ProperMore DEF Proper
<1>5. AllHold(a) <=> r.kind = "items" /\ findItem(itemsOf(r), "State") = Code(1)
  BY RequestChecks
<1> HIDE DEF a, b, answered
<1>6. begin(r, accessory) =
        IF r.kind = "items" /\ findItem(itemsOf(r), "State") = Code(1) /\ methodOk THEN answered ELSE Failed
  BY <1>2, <1>3, <1>4, <1>5 DEF OrFailed
<1> QED BY <1>6 DEF answered

LEMMA ProveAnswers ==
  ASSUME NEW r, NEW accessory, NEW items, items = itemsOf(r), NEW key,
         key = SessionKey(accessory.setupCode, accessory.salt, findItem(items, "PublicKey"),
                          Public(accessory.private))
  PROVE  prove(r, accessory) =
           IF /\ r.kind = "items" /\ findItem(items, "State") = Code(3)
              /\ has(items, "PublicKey") /\ has(items, "Proof") /\ exactly(items, "Proof", PROOF_BYTES)
           THEN IF findItem(items, "Proof") = ClientProof(key)
                THEN Answered(Items(<<State(4), Item("Proof", ServerProof(key))>>))
                ELSE Handled(refuse(4, Authentication), TRUE, Nobody)
           ELSE Failed
<1> DEFINE a == requestChecks(r, 3)
           b == required(items, "PublicKey")
           c == exactlyOf(items, "Proof", PROOF_BYTES)
           proved == Answered(Items(<<State(4), Item("Proof", ServerProof(key))>>))
           refused == Handled(refuse(4, Authentication), TRUE, Nobody)
           answered == IF findItem(items, "Proof") = ClientProof(key) THEN proved ELSE refused
<1>1. Proper(a) /\ Proper(b) /\ Proper(c)
  BY RequestChecks, ProperParts
<1>2. prove(r, accessory) = OrFailed(a \o b \o c, answered)
  BY DEF prove
<1>3. FirstError(a \o b \o c) = "none" <=> AllHold(a) /\ AllHold(b) /\ AllHold(c)
  <2> HIDE DEF a, b, c
  <2>1. Proper(a \o b) /\ (AllHold(a \o b) <=> AllHold(a) /\ AllHold(b))
    BY <1>1, ProperMore
  <2> QED BY <1>1, <2>1, ProperMore DEF Proper
<1>4. AllHold(a) <=> r.kind = "items" /\ findItem(items, "State") = Code(3)
  BY RequestChecks
<1>5. /\ AllHold(b) <=> has(items, "PublicKey")
      /\ AllHold(c) <=> has(items, "Proof") /\ exactly(items, "Proof", PROOF_BYTES)
  BY RequiredChecks, ExactlyChecks
<1> HIDE DEF a, b, c, proved, refused
<1>7. prove(r, accessory) =
        IF /\ r.kind = "items" /\ findItem(items, "State") = Code(3)
           /\ has(items, "PublicKey") /\ has(items, "Proof") /\ exactly(items, "Proof", PROOF_BYTES)
        THEN IF findItem(items, "Proof") = ClientProof(key) THEN proved ELSE refused
        ELSE Failed
  BY <1>2, <1>3, <1>4, <1>5 DEF OrFailed
<1> QED BY <1>7 DEF proved, refused

(* What introduce comes to, with names for what it makes on the way. *)
Introduced(did, r, key, items, opened, sub, signed, own) ==
  did = IF /\ r.kind = "items" /\ findItem(items, "State") = Code(5)
           /\ has(items, "EncryptedData") /\ opened.error = "none" /\ opened.value.kind = "items"
           /\ Whole(sub)
        THEN IF signed.value = Text("true", 1)
             THEN Handled(Items(<<State(6),
                                  Item("EncryptedData",
                                       seal(EncryptionKey(key), Msg06, own, Joined(<<>>)).value)>>),
                          FALSE, Peer(findItem(sub, "Identifier"), findItem(sub, "PublicKey")))
             ELSE Answered(refuse(6, Authentication))
        ELSE Failed

LEMMA IntroduceAnswers ==
  ASSUME NEW r, NEW accessory, NEW key, NEW items, items = itemsOf(r),
         NEW opened,
         opened = open(EncryptionKey(key), Msg05, findItem(items, "EncryptedData"), Joined(<<>>)),
         NEW sub, sub = itemsOf(opened.value),
         NEW signed,
         signed = ed25519Verify(findItem(sub, "PublicKey"),
                                signedInfo(ControllerX(key), findItem(sub, "Identifier"),
                                           findItem(sub, "PublicKey")),
                                findItem(sub, "Signature")),
         NEW own,
         own = Items(<<Item("Identifier", accessory.identifier),
                       Item("PublicKey", publicKey(accessory.seed)),
                       Item("Signature",
                            ed25519Sign(accessory.seed,
                                        signedInfo(AccessoryX(key), accessory.identifier,
                                                   publicKey(accessory.seed))).value)>>)
  PROVE  Introduced(introduce(r, accessory, key), r, key, items, opened, sub, signed, own)
<1> DEFINE openedOk == opened.error = "none"
           itemsOk  == opened.value.kind = "items"
           a == requestChecks(r, 5)
           b == required(items, "EncryptedData")
           c == <<Check(openedOk, opened.error), Check(itemsOk, "MalformedMessage")>>
           d == atMostOf(sub, "Identifier", MAX_IDENTIFIER_BYTES)
           e == exactlyOf(sub, "PublicKey", PUBLIC_KEY)
           f == exactlyOf(sub, "Signature", SIGNATURE)
           m6 == Items(<<State(6), Item("EncryptedData",
                                        seal(EncryptionKey(key), Msg06, own, Joined(<<>>)).value)>>)
           them == Peer(findItem(sub, "Identifier"), findItem(sub, "PublicKey"))
           kept == Handled(m6, FALSE, them)
           answered == IF signed.value = Text("true", 1) THEN kept ELSE Answered(refuse(6, Authentication))
<1>1. Proper(a) /\ Proper(b) /\ Proper(d) /\ Proper(e) /\ Proper(f)
  BY RequestChecks, ProperParts
<1>2. Proper(c) /\ (AllHold(c) <=> openedOk /\ itemsOk)
  <2>1. opened.error # "none" \/ openedOk
    OBVIOUS
  <2> HIDE DEF openedOk, itemsOk
  <2> QED BY <2>1, ProperTwo
<1>3. introduce(r, accessory, key) = OrFailed(a \o b \o c \o d \o e \o f, answered)
  BY DEF introduce, Peer
<1>4. FirstError(a \o b \o c \o d \o e \o f) = "none" <=>
        AllHold(a) /\ AllHold(b) /\ AllHold(c) /\ AllHold(d) /\ AllHold(e) /\ AllHold(f)
  <2> HIDE DEF a, b, c, d, e, f
  <2>1. Proper(a \o b) /\ (AllHold(a \o b) <=> AllHold(a) /\ AllHold(b))
    BY <1>1, ProperMore
  <2>2. Proper(a \o b \o c) /\ (AllHold(a \o b \o c) <=> AllHold(a \o b) /\ AllHold(c))
    BY <1>2, <2>1, ProperMore
  <2>3. Proper(a \o b \o c \o d) /\ (AllHold(a \o b \o c \o d) <=> AllHold(a \o b \o c) /\ AllHold(d))
    BY <1>1, <2>2, ProperMore
  <2>4. /\ Proper(a \o b \o c \o d \o e)
        /\ AllHold(a \o b \o c \o d \o e) <=> AllHold(a \o b \o c \o d) /\ AllHold(e)
    BY <1>1, <2>3, ProperMore
  <2>5. /\ Proper(a \o b \o c \o d \o e \o f)
        /\ AllHold(a \o b \o c \o d \o e \o f) <=> AllHold(a \o b \o c \o d \o e) /\ AllHold(f)
    BY <1>1, <2>4, ProperMore
  <2> QED BY <2>1, <2>2, <2>3, <2>4, <2>5 DEF Proper
<1>5. AllHold(a) <=> r.kind = "items" /\ findItem(items, "State") = Code(5)
  BY RequestChecks
<1>6. /\ AllHold(b) <=> has(items, "EncryptedData")
      /\ AllHold(d) <=> has(sub, "Identifier") /\ atMost(sub, "Identifier", MAX_IDENTIFIER_BYTES)
      /\ AllHold(e) <=> has(sub, "PublicKey") /\ exactly(sub, "PublicKey", PUBLIC_KEY)
      /\ AllHold(f) <=> has(sub, "Signature") /\ exactly(sub, "Signature", SIGNATURE)
  BY RequiredChecks, AtMostChecks, ExactlyChecks
<1> HIDE DEF a, b, c, d, e, f, m6, kept, them
<1>8. introduce(r, accessory, key) =
        IF /\ r.kind = "items" /\ findItem(items, "State") = Code(5)
           /\ has(items, "EncryptedData") /\ openedOk /\ itemsOk
           /\ Whole(sub)
        THEN answered ELSE Failed
  BY <1>2, <1>3, <1>4, <1>5, <1>6 DEF OrFailed, Whole
<1> QED BY <1>8 DEF Introduced, m6, kept, them

-----------------------------------------------------------------------------
(* The invariant of a setup: what each message is, whose keys are whose,   *)
(* and what an error says of the damage.                                   *)
Second ==
  Items(<<State(2), Item("Salt", Accessory.salt), Item("PublicKey", Public(Accessory.private))>>)
Third(key) == Items(<<State(3), Item("PublicKey", Public(Private)), Item("Proof", ClientProof(key))>>)
Fourth(key) == Items(<<State(4), Item("Proof", ServerProof(key))>>)

Signed(private, info) == ed25519Sign(private, info).value
Sealed(key, nonce, items) == seal(EncryptionKey(key), nonce, items, Joined(<<>>)).value

Introduction(key, us) ==
  Items(<<Item("Identifier", us.identifier), Item("PublicKey", us.publicKey),
          Item("Signature", Signed(us.privateKey,
                                   deviceInfo(ControllerX(key), us.identifier, us.publicKey)))>>)
Fifth(key, us) ==
  Items(<<State(5), Item("EncryptedData", Sealed(key, Msg05, Introduction(key, us)))>>)

Own(key) ==
  Items(<<Item("Identifier", Accessory.identifier), Item("PublicKey", publicKey(Accessory.seed)),
          Item("Signature", Signed(Accessory.seed,
                                   signedInfo(AccessoryX(key), Accessory.identifier,
                                              publicKey(Accessory.seed))))>>)
Sixth(key) == Items(<<State(6), Item("EncryptedData", Sealed(key, Msg06, Own(key)))>>)

Excuse == Failed.answer

(* No message up to the n-th is damaged; the n-th has become a refusal.    *)
Intact(n) == attempt.damage.at \notin 1..n
Refused(n) == attempt.damage.at = n /\ Refusing(attempt.damage)
Blame == fromWire(Code(attempt.damage.to))

(* Either key is the one of the code typed or kept, or what it is made of  *)
(* was damaged. *)
KeyOf(code) == SessionKey(code, Accessory.salt, Public(Private), Public(Accessory.private))
OursIsTyped ==
  ours = KeyOf(attempt.code) \/ (attempt.damage.at = 2 /\ attempt.damage.what \in {"Salt", "PublicKey"})
TheirsIsKept ==
  theirs = KeyOf(Accessory.setupCode) \/ (attempt.damage.at = 3 /\ attempt.damage.what = "PublicKey")

Agreed == ours = theirs /\ ~counted /\ Fits /\ ~Refused(4)

Keys ==
  /\ turn >= 3 => OursIsTyped /\ ~Refused(2)
  /\ turn >= 4 => TheirsIsKept
  /\ turn >= 5 => Agreed

Kept ==
  /\ turn < 4 => ~counted
  /\ turn < 6 => stored = Nobody
  /\ turn < 7 => peer = Nobody
  /\ turn >= 7 => stored = Us /\ peer = Them /\ error = "none" /\ ~Refused(6)

Says1 == message = m1(attempt.flags)
Says2 == message = Second \/ (message = Excuse /\ ~Intact(1))
Says4 ==
  \/ message = Excuse /\ ~counted /\ ~Intact(3)
  \/ message = refuse(4, Authentication) /\ counted /\ ours # theirs
  \/ message = Fourth(ours) /\ ~counted /\ ours = theirs
Says6 ==
  \/ message = Excuse /\ stored = Nobody /\ ~Intact(5)
  \/ message = Sixth(ours) /\ stored = Us

Said ==
  /\ turn = 1 => Says1
  /\ turn = 2 => Says2
  /\ turn = 3 => message = Third(ours)
  /\ turn = 4 => Says4
  /\ turn = 5 => message = Fifth(ours, attempt.controller)
  /\ turn = 6 => Says6

Ended2 ==
  /\ ~Intact(2)
  /\ IF Refused(2) THEN error = Blame ELSE error # "WrongSetupCode"
Ended4 ==
  \/ ~Intact(3) /\ ~counted /\ error # "WrongSetupCode"
  \/ counted /\ ours # theirs /\ (Intact(4) => error = "WrongSetupCode")
  \/ /\ ~counted /\ ours = theirs
     /\ IF Refused(4) THEN error = Blame ELSE error # "WrongSetupCode"
     /\ Intact(4) => error = "IdentifierTooLong" /\ ~Fits
Ended6 ==
  /\ ~Intact(6)
  /\ IF Refused(6) THEN error = Blame ELSE error # "WrongSetupCode"

Ended ==
  error # "none" =>
    /\ turn \in {2, 4, 6}
    /\ turn = 2 => Ended2
    /\ turn = 4 => Ended4
    /\ turn = 6 => Ended6

SetupInd ==
  attempt \in Attempts /\ turn \in 0..8 /\ Keys /\ Kept /\ Said /\ Ended

-----------------------------------------------------------------------------
(* What a reader finds in a list of two or three items, and in what        *)
(* arrives of it. *)
LEMMA Find2 ==
  ASSUME NEW t1, NEW t2, t1 # t2, NEW v1, NEW v2, NEW items, items = <<Item(t1, v1), Item(t2, v2)>>
  PROVE  findItem(items, t1) = v1 /\ findItem(items, t2) = v2
<1>1. /\ DOMAIN items = 1..2
      /\ items[1].type = t1 /\ items[1].value = v1 /\ items[2].type = t2 /\ items[2].value = v2
  BY DEF Item
<1>2. 1 \in 1..2 /\ 2 \in 1..2 /\ 2 \in Nat
  OBVIOUS
<1>3. findItem(items, t1) = v1
  <2>1. \A j \in 1..2 : j < 1 => items[j].type # t1
    OBVIOUS
  <2> QED BY <1>1, <1>2, <2>1, FindAt
<1>4. findItem(items, t2) = v2
  <2>1. \A j \in 1..2 : j < 2 => items[j].type # t2
    BY <1>1
  <2> QED BY <1>1, <1>2, <2>1, FindAt
<1> QED BY <1>3, <1>4

LEMMA Find3 ==
  ASSUME NEW t1, NEW t2, NEW t3, t1 # t2, t1 # t3, t2 # t3, NEW v1, NEW v2, NEW v3,
         NEW items, items = <<Item(t1, v1), Item(t2, v2), Item(t3, v3)>>
  PROVE  findItem(items, t1) = v1 /\ findItem(items, t2) = v2 /\ findItem(items, t3) = v3
<1>1. /\ DOMAIN items = 1..3
      /\ items[1].type = t1 /\ items[1].value = v1 /\ items[2].type = t2 /\ items[2].value = v2
      /\ items[3].type = t3 /\ items[3].value = v3
  BY DEF Item
<1>2. 1 \in 1..3 /\ 2 \in 1..3 /\ 3 \in 1..3 /\ 3 \in Nat
  OBVIOUS
<1>3. findItem(items, t1) = v1
  <2>1. \A j \in 1..3 : j < 1 => items[j].type # t1
    OBVIOUS
  <2>2. First(items, 3, t1, 1)
    BY <1>1, <1>2, <2>1 DEF First
  <2> QED BY <1>1, <2>2, FindFirst
<1>4. findItem(items, t2) = v2
  <2>1. \A j \in 1..3 : j < 2 => items[j].type # t2
    BY <1>1
  <2>2. First(items, 3, t2, 2)
    BY <1>1, <1>2, <2>1 DEF First
  <2> QED BY <1>1, <2>2, FindFirst
<1>5. findItem(items, t3) = v3
  <2>1. \A j \in 1..3 : j < 3 => items[j].type # t3
    BY <1>1
  <2>2. First(items, 3, t3, 3)
    BY <1>1, <1>2, <2>1 DEF First
  <2> QED BY <1>1, <2>2, FindFirst
<1> QED BY <1>3, <1>4, <1>5

(* What is read of a message of two or three items in what arrives of it. *)
Heard2(got, damage, at, t1, v1, t2, v2) ==
  /\ got.kind = "items"
  /\ findItem(itemsOf(got), t1) = Seen(damage, at, Item(t1, v1))
  /\ findItem(itemsOf(got), t2) = Seen(damage, at, Item(t2, v2))
  /\ findItem(itemsOf(got), "Error") = SeenError(damage, at)

Heard3(got, damage, at, t1, v1, t2, v2, t3, v3) ==
  /\ Heard2(got, damage, at, t1, v1, t2, v2)
  /\ findItem(itemsOf(got), t3) = Seen(damage, at, Item(t3, v3))

LEMMA Hurt2 ==
  ASSUME NEW damage, Kinds(damage), NEW at \in 1..6, NEW t1, NEW t2, t1 # t2,
         t1 \notin {"Ignored", "Error"}, t2 \notin {"Ignored", "Error"}, NEW v1, NEW v2,
         NEW got, got = Hurt(damage, at, Items(<<Item(t1, v1), Item(t2, v2)>>))
  PROVE  Heard2(got, damage, at, t1, v1, t2, v2)
<1> DEFINE items == <<Item(t1, v1), Item(t2, v2)>>
<1>1. DOMAIN items = 1..2 /\ items[1] = Item(t1, v1) /\ items[2] = Item(t2, v2)
  OBVIOUS
<1> HIDE DEF items
<1>2. items[1].type = t1 /\ items[2].type = t2
  BY <1>1 DEF Item
<1>3. Message(items, 2)
  <2>1. \A i \in 1..2 : items[i].type \notin {"Ignored", "Error"}
    BY <1>2
  <2>2. \A i, j \in 1..2 : items[i].type = items[j].type => i = j
    BY <1>2
  <2> QED BY <1>1, <2>1, <2>2 DEF Message
<1>4. Items(items).kind = "items" /\ itemsOf(Items(items)) = items
  BY ItemsAre
<1>5. /\ got.kind = "items"
      /\ \A i \in 1..2 : items[i].type # "Error" =>
           findItem(itemsOf(got), items[i].type) = Seen(damage, at, items[i])
      /\ (\A i \in 1..2 : items[i].type # "Error")
           => findItem(itemsOf(got), "Error") = SeenError(damage, at)
  <2>1. got = Hurt(damage, at, Items(items))
    BY DEF items
  <2> DEFINE payload == Items(items)
  <2> HIDE DEF payload
  <2>2. payload.kind = "items" /\ itemsOf(payload) = items /\ got = Hurt(damage, at, payload)
    BY <1>4, <2>1 DEF payload
  <2>3. Message(itemsOf(payload), 2)
    BY <1>3, <2>2
  <2>4. /\ got.kind = "items"
        /\ \A i \in 1..2 : itemsOf(payload)[i].type # "Error" =>
             findItem(itemsOf(got), itemsOf(payload)[i].type) = Seen(damage, at, itemsOf(payload)[i])
        /\ (\A i \in 1..2 : itemsOf(payload)[i].type # "Error")
             => findItem(itemsOf(got), "Error") = SeenError(damage, at)
    BY <2>2, <2>3, HurtFinds
  <2> QED BY <2>2, <2>4
<1> QED BY <1>1, <1>2, <1>5 DEF Heard2

LEMMA Hurt3 ==
  ASSUME NEW damage, Kinds(damage), NEW at \in 1..6, NEW t1, NEW t2, NEW t3, t1 # t2, t1 # t3, t2 # t3,
         t1 \notin {"Ignored", "Error"}, t2 \notin {"Ignored", "Error"}, t3 \notin {"Ignored", "Error"},
         NEW v1, NEW v2, NEW v3,
         NEW got, got = Hurt(damage, at, Items(<<Item(t1, v1), Item(t2, v2), Item(t3, v3)>>))
  PROVE  Heard3(got, damage, at, t1, v1, t2, v2, t3, v3)
<1> DEFINE items == <<Item(t1, v1), Item(t2, v2), Item(t3, v3)>>
<1>1. DOMAIN items = 1..3 /\ items[1] = Item(t1, v1) /\ items[2] = Item(t2, v2) /\ items[3] = Item(t3, v3)
  OBVIOUS
<1> HIDE DEF items
<1>2. items[1].type = t1 /\ items[2].type = t2 /\ items[3].type = t3
  BY <1>1 DEF Item
<1>3. Message(items, 3)
  <2>1. \A i \in 1..3 : items[i].type \notin {"Ignored", "Error"}
    BY <1>2
  <2>2. \A i, j \in 1..3 : items[i].type = items[j].type => i = j
    BY <1>2
  <2> QED BY <1>1, <2>1, <2>2 DEF Message
<1>4. Items(items).kind = "items" /\ itemsOf(Items(items)) = items
  BY ItemsAre
<1>5. /\ got.kind = "items"
      /\ \A i \in 1..3 : items[i].type # "Error" =>
           findItem(itemsOf(got), items[i].type) = Seen(damage, at, items[i])
      /\ (\A i \in 1..3 : items[i].type # "Error")
           => findItem(itemsOf(got), "Error") = SeenError(damage, at)
  <2>1. got = Hurt(damage, at, Items(items))
    BY DEF items
  <2> DEFINE payload == Items(items)
  <2> HIDE DEF payload
  <2>2. payload.kind = "items" /\ itemsOf(payload) = items /\ got = Hurt(damage, at, payload)
    BY <1>4, <2>1 DEF payload
  <2>3. Message(itemsOf(payload), 3)
    BY <1>3, <2>2
  <2>4. /\ got.kind = "items"
        /\ \A i \in 1..3 : itemsOf(payload)[i].type # "Error" =>
             findItem(itemsOf(got), itemsOf(payload)[i].type) = Seen(damage, at, itemsOf(payload)[i])
        /\ (\A i \in 1..3 : itemsOf(payload)[i].type # "Error")
             => findItem(itemsOf(got), "Error") = SeenError(damage, at)
    BY <2>2, <2>3, HurtFinds
  <2> QED BY <2>2, <2>4
<1> QED BY <1>1, <1>2, <1>5 DEF Heard2, Heard3

(* An item is read as it was sent, unless it is the one damaged. *)
LEMMA SeenOtherwise ==
  ASSUME NEW damage, Kinds(damage), NEW at \in 1..6, NEW type, NEW value, type # "State",
         NEW seen, seen = Seen(damage, at, Item(type, value))
  PROVE  \/ seen = value
         \/ /\ damage.at = at /\ damage.what = type /\ ~Refusing(damage)
            /\ seen = NoOctets \/ seen = Resized(value, value.bytes - 1)
<1> DEFINE item == Item(type, value)
<1>1. item.type = type /\ item.value = value
  BY DEF Item
<1> HIDE DEF item
<1>2. CASE damage.at # at
  BY <1>1, <1>2 DEF Seen, item
<1>3. CASE damage.at = at /\ Refusing(damage)
  BY <1>1, <1>3 DEF Seen, item
<1>4. CASE damage.at = at /\ ~Refusing(damage) /\ damage.how \in {"dropped", "resized"}
  <2>1. Seen(damage, at, item) =
          IF type # damage.what THEN value
          ELSE IF damage.how = "dropped" THEN NoOctets ELSE Resized(value, value.bytes - 1)
    BY <1>1, <1>4 DEF Seen
  <2> QED BY <1>4, <2>1 DEF item
<1>5. CASE damage.at = at /\ ~Refusing(damage) /\ damage.what = "State"
  BY <1>1, <1>5 DEF Seen, item
<1>6. damage = Unhurt => damage.what = "none" /\ damage.how = "none" /\ damage.at = 0
  BY DEF Unhurt
<1>7. CASE damage = Unhurt
  BY <1>2, <1>6, <1>7
<1> QED BY <1>2, <1>3, <1>4, <1>5, <1>7 DEF Kinds, Refusing

LEMMA SeenAsSent ==
  ASSUME NEW damage, NEW at, damage.at # at, NEW type, NEW value
  PROVE  Seen(damage, at, Item(type, value)) = value /\ SeenError(damage, at) = NoOctets
BY DEF Seen, SeenError, Item

(* Some octets, there or not. *)
LEMMA Kind ==
  ASSUME NEW kind, NEW of, NEW bytes
  PROVE  /\ Octets(kind, of, bytes).kind = kind /\ Octets(kind, of, bytes).of = of
         /\ Octets(kind, of, bytes).bytes = bytes
BY DEF Octets

LEMMA Absent == NoOctets.kind = "none" /\ NoOctets.bytes = -1
BY DEF NoOctets, Octets

LEMMA Numbers ==
  ASSUME NEW m, NEW n, NEW bytes
  PROVE  /\ Number(m, bytes).kind = "number"
         /\ Number(m, bytes) = Number(n, bytes) => m = n
<1>1. Number(m, bytes).number = m /\ Number(n, bytes).number = n /\ Number(m, bytes).kind = "number"
  BY DEF Number
<1> QED BY <1>1

(* The primitives of the suite, as far as they are relied on. *)
OpensOnly(key, nonce, plaintext, associated, sealed) ==
  /\ open(key, nonce, sealed, associated) = Ok(plaintext)
  /\ \A n, a : n # nonce \/ a # associated => open(key, n, sealed, a) = Fails("ForgedFrame")
  /\ \A k, n, a : a # associated => open(k, n, sealed, a).error # "none"

LEMMA OpenSealed ==
  ASSUME NEW key, key.bytes = KEY, NEW nonce, NEW plaintext, NEW associated, NEW sealed,
         sealed = seal(key, nonce, plaintext, associated).value
  PROVE  /\ open(key, nonce, sealed, associated) = Ok(plaintext)
         /\ sealed.kind = "sealed" /\ sealed # NoOctets
         /\ OpensOnly(key, nonce, plaintext, associated, sealed)
<1> DEFINE parts == <<key, nonce, plaintext, associated>>
<1>1. sealed = Octets("sealed", parts, plaintext.bytes + TAG)
  BY DEF seal, Ok
<1>2. sealed.kind = "sealed" /\ sealed.of = parts
  BY <1>1, Kind
<1>3. parts[1] = key /\ parts[2] = nonce /\ parts[3] = plaintext /\ parts[4] = associated
  OBVIOUS
<1> HIDE DEF parts
<1>4. sealed # NoOctets
  BY <1>2, Absent
<1>5. open(key, nonce, sealed, associated) = Ok(plaintext)
  BY <1>2, <1>3 DEF open
<1>6. \A n, a : n # nonce \/ a # associated => open(key, n, sealed, a) = Fails("ForgedFrame")
  BY <1>2, <1>3 DEF open
<1>7. \A k, n, a : a # associated => open(k, n, sealed, a).error # "none"
  BY <1>2, <1>3 DEF open, Fails
<1> QED BY <1>2, <1>4, <1>5, <1>6, <1>7 DEF OpensOnly

LEMMA OpenOther ==
  ASSUME NEW key, NEW nonce, NEW other, NEW associated, other.kind # "sealed"
  PROVE  open(key, nonce, other, associated).error # "none"
BY DEF open, Fails

LEMMA SignedVerifies ==
  ASSUME NEW private, private.bytes = KEY, NEW info
  PROVE  /\ ed25519Verify(publicKey(private), info, Signed(private, info)).value = Text("true", 1)
         /\ Signed(private, info).bytes = SIGNATURE /\ Signed(private, info) # NoOctets
         /\ publicKey(private).bytes = PUBLIC_KEY /\ publicKey(private) # NoOctets
<1> DEFINE public == publicKey(private)
           signature == Signed(private, info)
<1>1. signature = Octets("signature", <<private, info>>, SIGNATURE)
  BY DEF Signed, ed25519Sign, Ok
<1>2. signature.bytes = SIGNATURE /\ signature.kind = "signature"
  BY <1>1, Kind
<1>3. public.kind = "public" /\ public.of[1] = private /\ public.bytes = PUBLIC_KEY
  <2>1. <<private>>[1] = private
    OBVIOUS
  <2> QED BY <2>1, Kind DEF publicKey
<1> HIDE DEF public, signature
<1>4. exactSizes(<< <<public, PUBLIC_KEY>>, <<signature, SIGNATURE>> >>)
  BY <1>2, <1>3 DEF exactSizes
<1>5. ed25519Verify(public, info, signature) = Ok(Text("true", 1))
  BY <1>1, <1>3, <1>4 DEF ed25519Verify
<1> QED BY <1>2, <1>3, <1>5, Absent DEF Ok, public, signature

LEMMA EncryptionKeyBytes ==
  ASSUME NEW key
  PROVE  EncryptionKey(key).bytes = KEY
BY Kind DEF EncryptionKey, hkdfSha512

-----------------------------------------------------------------------------
(* What each message comes to, whatever happens to it on the way.          *)
LEMMA Codes1 ==
  ASSUME NEW n, NEW m
  PROVE  /\ Code(n) # NoOctets /\ fromWire(Code(n)) # "none"
         /\ Code(n) = Code(m) => n = m
         /\ State(n) = Item("State", Code(n))
<1>1. Code(n) # NoOctets
  BY Numbers, Absent DEF Code
<1>2. fromWire(Code(n)) # "none"
  BY DEF fromWire
<1>3. Code(n) = Code(m) => n = m
  BY Numbers DEF Code
<1> QED BY <1>1, <1>2, <1>3 DEF State, Code

LEMMA Errors1 ==
  ASSUME NEW damage, NEW at
  PROVE  /\ SeenError(damage, at) # NoOctets <=> damage.at = at /\ Refusing(damage)
         /\ damage.at = at /\ Refusing(damage) => SeenError(damage, at) = Code(damage.to)
BY Codes1 DEF SeenError

(* M1 with flags or without them is read the same. *)
LEMMA M1IsRead ==
  ASSUME NEW flags, NEW got, got = m1(flags)
  PROVE  /\ got.kind = "items"
         /\ findItem(itemsOf(got), "State") = Code(1)
         /\ findItem(itemsOf(got), "Method") = Code(PairSetupMethod)
<1> DEFINE s == <<State(1), Item("Method", Code(PairSetupMethod))>>
           extra == Item("Flags", Number(flags, width(flags)))
           rest == IF width(flags) = 0 THEN <<>> ELSE <<extra>>
           items == s \o rest
           S == {State(1), Item("Method", Code(PairSetupMethod)), extra}
<1>1. got = Items(items)
  BY DEF m1
<1>2. got.kind = "items" /\ itemsOf(got) = items
  BY <1>1, ItemsAre
<1>3. s \in Seq(S) /\ Len(s) = 2 /\ s[1] = State(1) /\ s[2] = Item("Method", Code(PairSetupMethod))
  OBVIOUS
<1>4. rest \in Seq(S) /\ Len(rest) \in Nat
  <2>1. extra \in S
    OBVIOUS
  <2> HIDE DEF extra, S
  <2> QED BY <2>1
<1> HIDE DEF s, rest, S
<1>5. PICK n \in Nat : n >= 2 /\ DOMAIN items = 1..n /\ items[1] = s[1] /\ items[2] = s[2]
  <2>0. /\ items \in Seq(S) /\ Len(items) = Len(s) + Len(rest)
        /\ \A i \in 1..(Len(s) + Len(rest)) : items[i] = IF i <= Len(s) THEN s[i] ELSE rest[i - Len(s)]
    BY <1>3, <1>4, ConcatProperties
  <2> HIDE DEF items
  <2>1. /\ items \in Seq(S) /\ Len(items) = 2 + Len(rest)
        /\ \A i \in 1..(2 + Len(rest)) : items[i] = IF i <= 2 THEN s[i] ELSE rest[i - 2]
    BY <1>3, <1>4, <2>0
  <2>2. 2 + Len(rest) \in Nat /\ 2 + Len(rest) >= 2
    BY <1>4
  <2>3. items[1] = s[1] /\ items[2] = s[2]
    BY <2>1, <2>2
  <2> QED BY <2>1, <2>2, <2>3
<1> HIDE DEF items
<1>6. /\ items[1].type = "State" /\ items[1].value = Code(1)
      /\ items[2].type = "Method" /\ items[2].value = Code(PairSetupMethod)
  BY <1>3, <1>5, Codes1 DEF Item
<1>7. 1 \in 1..n /\ 2 \in 1..n
  BY <1>5
<1>8. findItem(items, "State") = Code(1)
  <2>1. \A j \in 1..n : j < 1 => items[j].type # "State"
    BY <1>5
  <2> QED BY <1>5, <1>6, <1>7, <2>1, FindAt
<1>9. findItem(items, "Method") = Code(PairSetupMethod)
  <2>1. \A j \in 1..n : j < 2 => items[j].type # "Method"
    BY <1>5, <1>6
  <2> QED BY <1>5, <1>6, <1>7, <2>1, FindAt
<1> QED BY <1>2, <1>8, <1>9

(* M1 is answered with M2, or was damaged. *)
LEMMA M1ComesTo ==
  ASSUME NEW damage, NEW flags, NEW did, did = begin(Hurt(damage, 1, m1(flags)), Accessory)
  PROVE  /\ did.answer = Second \/ (did.answer = Excuse /\ damage.at = 1)
<1> DEFINE got == Hurt(damage, 1, m1(flags))
<1>1. CASE damage.at = 1
  <2> HIDE DEF got
  <2>1. did = Answered(Second) \/ did = Failed
    BY BeginAnswers DEF got, Second
  <2> QED BY <1>1, <2>1 DEF Answered, Handled, Excuse
<1>2. CASE damage.at # 1
  <2>1. got = m1(flags)
    BY <1>2 DEF Hurt
  <2> HIDE DEF got
  <2>2. did = Answered(Second)
    BY <2>1, M1IsRead, BeginAnswers DEF got, Second
  <2> QED BY <2>2 DEF Answered, Handled
<1> QED BY <1>1, <1>2

(* M2 makes the controller's key, of the code typed and what it read.       *)
LEMMA M2ComesTo ==
  ASSUME NEW damage, Kinds(damage), NEW pin, NEW step, step = m3(Hurt(damage, 2, Second), pin, Private)
  PROVE  /\ damage.at = 2 /\ Refusing(damage) => step.error = fromWire(Code(damage.to))
         /\ ~(damage.at = 2 /\ Refusing(damage)) => step.error # "WrongSetupCode"
         /\ damage.at # 2 => step.error = "none"
         /\ step.error = "none" =>
              step.srpKey = KeyOf(pin) \/ (damage.at = 2 /\ damage.what \in {"Salt", "PublicKey"})
         /\ step.request = Third(step.srpKey)
<1> DEFINE got == Hurt(damage, 2, Second)
           items == itemsOf(got)
<1>1. /\ got.kind = "items"
      /\ findItem(items, "State") = Seen(damage, 2, Item("State", Code(2)))
      /\ findItem(items, "Salt") = Seen(damage, 2, Item("Salt", Accessory.salt))
      /\ findItem(items, "PublicKey") = Seen(damage, 2, Item("PublicKey", Public(Accessory.private)))
      /\ findItem(items, "Error") = SeenError(damage, 2)
  <2>1. got = Hurt(damage, 2, Items(<<Item("State", Code(2)), Item("Salt", Accessory.salt),
                                      Item("PublicKey", Public(Accessory.private))>>))
    BY Codes1 DEF Second
  <2> HIDE DEF got
  <2>2. 2 \in 1..6
    OBVIOUS
  <2>3. /\ "State" \notin {"Ignored", "Error"} /\ "Salt" \notin {"Ignored", "Error"}
        /\ "PublicKey" \notin {"Ignored", "Error"}
        /\ "State" # "Salt" /\ "State" # "PublicKey" /\ "Salt" # "PublicKey"
    OBVIOUS
  <2>4. Heard3(got, damage, 2, "State", Code(2), "Salt", Accessory.salt,
               "PublicKey", Public(Accessory.private))
    BY <2>1, <2>2, <2>3, Hurt3
  <2> QED BY <2>4 DEF Heard2, Heard3
<1>2. step.error = m3(got, pin, Private).error
  OBVIOUS
<1>3. /\ step.srpKey = SessionKey(pin, findItem(items, "Salt"), Public(Private), findItem(items, "PublicKey"))
      /\ step.request = Third(step.srpKey)
  BY DEF m3, Third
<1> HIDE DEF got, items
<1>4. step.error =
        IF has(items, "Error") THEN fromWire(findItem(items, "Error"))
        ELSE IF findItem(items, "State") # Code(2) THEN "UnexpectedState"
        ELSE IF ~has(items, "Salt") \/ ~has(items, "PublicKey") THEN "MissingItem" ELSE "none"
  BY <1>1, <1>2, M3Error DEF items
<1>5. has(items, "Error") <=> damage.at = 2 /\ Refusing(damage)
  BY <1>1, Errors1 DEF has
<1>6. damage.at # 2 =>
        /\ findItem(items, "State") = Code(2)
        /\ findItem(items, "Salt") = Accessory.salt
        /\ findItem(items, "PublicKey") = Public(Accessory.private)
  BY <1>1, SeenAsSent
<1>7. Accessory.salt # NoOctets /\ Public(Accessory.private) # NoOctets
  BY PairingAssumption, Kind, Absent DEF Public
<1>8. /\ findItem(items, "Salt") = Accessory.salt \/ (damage.at = 2 /\ damage.what = "Salt")
      /\ findItem(items, "PublicKey") = Public(Accessory.private) \/ (damage.at = 2 /\ damage.what = "PublicKey")
  BY <1>1, SeenOtherwise
<1>9. CASE damage.at = 2 /\ Refusing(damage)
  BY <1>1, <1>3, <1>4, <1>5, <1>9, Codes1, Errors1
<1>10. CASE ~(damage.at = 2 /\ Refusing(damage))
  <2>1. step.error # "WrongSetupCode" /\ (damage.at # 2 => step.error = "none")
    BY <1>4, <1>5, <1>6, <1>7, <1>10 DEF has
  <2>2. step.srpKey = KeyOf(pin) \/ (damage.at = 2 /\ damage.what \in {"Salt", "PublicKey"})
    BY <1>3, <1>8 DEF KeyOf
  <2> QED BY <1>3, <1>10, <2>1, <2>2
<1> QED BY <1>9, <1>10

(* A proof tells its key. *)
LEMMA Proofs1 ==
  ASSUME NEW k, NEW l
  PROVE  /\ ClientProof(k) = ClientProof(l) => k = l
         /\ ClientProof(k) # NoOctets /\ ClientProof(k).bytes = PROOF_BYTES
         /\ ServerProof(k) # NoOctets /\ ServerProof(k).bytes = PROOF_BYTES
<1>1. <<k>>[1] = k /\ <<l>>[1] = l
  OBVIOUS
<1>2. ClientProof(k).of = <<k>> /\ ClientProof(l).of = <<l>>
  <2>1. \A kind, of, bytes : Octets(kind, of, bytes).of = of
    BY Kind
  <2> QED BY <2>1 DEF ClientProof
<1>3. /\ ClientProof(k).kind = "m1" /\ ClientProof(k).bytes = PROOF_BYTES
      /\ ServerProof(k).kind = "m2" /\ ServerProof(k).bytes = PROOF_BYTES
  BY Kind DEF ClientProof, ServerProof
<1> QED BY <1>1, <1>2, <1>3, Absent

(* Octets of a length the protocol fixes are not read when it is another.  *)
LEMMA ExactOnly ==
  ASSUME NEW damage, Kinds(damage), NEW at \in 1..6, NEW type, NEW value, type # "State",
         NEW n \in Nat, value.bytes = n, value # NoOctets, NEW seen, seen = Seen(damage, at, Item(type, value)),
         seen # NoOctets, seen.bytes = n
  PROVE  seen = value
<1>1. CASE seen = Resized(value, value.bytes - 1)
  <2>1. seen.bytes = n - 1
    BY <1>1, Kind DEF Resized
  <2> QED BY <2>1
<1> QED BY <1>1, SeenOtherwise

(* M3 is answered by the keys that the two sides have, or was damaged.      *)
LEMMA M3ComesTo ==
  ASSUME NEW damage, Kinds(damage), NEW key, NEW got, got = Hurt(damage, 3, Third(key)),
         NEW did, did = prove(got, Accessory),
         NEW back, back = SessionKey(Accessory.setupCode, Accessory.salt,
                                     findItem(itemsOf(got), "PublicKey"), Public(Accessory.private))
  PROVE  /\ back = KeyOf(Accessory.setupCode) \/ (damage.at = 3 /\ damage.what = "PublicKey")
         /\ \/ did.answer = Excuse /\ ~did.counted /\ damage.at = 3
            \/ did.answer = refuse(4, Authentication) /\ did.counted /\ key # back
            \/ did.answer = Fourth(key) /\ ~did.counted /\ key = back
<1> DEFINE items == itemsOf(got)
<1>1. /\ got.kind = "items"
      /\ findItem(items, "State") = Seen(damage, 3, Item("State", Code(3)))
      /\ findItem(items, "PublicKey") = Seen(damage, 3, Item("PublicKey", Public(Private)))
      /\ findItem(items, "Proof") = Seen(damage, 3, Item("Proof", ClientProof(key)))
  <2>1. got = Hurt(damage, 3, Items(<<Item("State", Code(3)), Item("PublicKey", Public(Private)),
                                      Item("Proof", ClientProof(key))>>))
    BY Codes1 DEF Third
  <2>2. 3 \in 1..6
    OBVIOUS
  <2>3. /\ "State" \notin {"Ignored", "Error"} /\ "Proof" \notin {"Ignored", "Error"}
        /\ "PublicKey" \notin {"Ignored", "Error"}
        /\ "State" # "Proof" /\ "State" # "PublicKey" /\ "PublicKey" # "Proof"
    OBVIOUS
  <2>4. Heard3(got, damage, 3, "State", Code(3), "PublicKey", Public(Private), "Proof", ClientProof(key))
    BY <2>1, <2>2, <2>3, Hurt3
  <2> QED BY <2>4 DEF Heard2, Heard3
<1> HIDE DEF items
<1>2. findItem(items, "PublicKey") = Public(Private) \/ (damage.at = 3 /\ damage.what = "PublicKey")
  BY <1>1, SeenOtherwise
<1>3. back = KeyOf(Accessory.setupCode) \/ (damage.at = 3 /\ damage.what = "PublicKey")
  BY <1>2 DEF KeyOf, items
<1>7. damage.at # 3 =>
        /\ findItem(items, "State") = Code(3) /\ findItem(items, "PublicKey") = Public(Private)
        /\ findItem(items, "Proof") = ClientProof(key)
  <2> SUFFICES ASSUME damage.at # 3
               PROVE  /\ findItem(items, "State") = Code(3) /\ findItem(items, "PublicKey") = Public(Private)
                      /\ findItem(items, "Proof") = ClientProof(key)
    OBVIOUS
  <2>1. Seen(damage, 3, Item("State", Code(3))) = Code(3)
    BY DEF Seen, Item
  <2>2. Seen(damage, 3, Item("PublicKey", Public(Private))) = Public(Private)
    BY DEF Seen, Item
  <2>3. Seen(damage, 3, Item("Proof", ClientProof(key))) = ClientProof(key)
    BY DEF Seen, Item
  <2> QED BY <1>1, <2>1, <2>2, <2>3
<1> DEFINE passes == /\ got.kind = "items" /\ findItem(items, "State") = Code(3)
                     /\ has(items, "PublicKey") /\ has(items, "Proof") /\ exactly(items, "Proof", PROOF_BYTES)
<1>4. did = IF passes
            THEN IF findItem(items, "Proof") = ClientProof(back) THEN Answered(Fourth(back))
                 ELSE Handled(refuse(4, Authentication), TRUE, Nobody)
            ELSE Failed
  BY ProveAnswers DEF items, Fourth
<1>5. CASE passes
  <2>1. findItem(items, "Proof") = ClientProof(key)
    <3>1. PROOF_BYTES \in Nat
      BY DEF PROOF_BYTES
    <3>2. 3 \in 1..6 /\ "Proof" # "State"
      OBVIOUS
    <3>3. findItem(items, "Proof") # NoOctets /\ findItem(items, "Proof").bytes = PROOF_BYTES
      BY <1>5 DEF has, exactly
    <3> QED BY <1>1, <3>1, <3>2, <3>3, ExactOnly, Proofs1
  <2>2. CASE key = back
    BY <1>3, <1>4, <1>5, <2>1, <2>2 DEF Answered, Handled
  <2>3. CASE key # back
    <3>1. did = Handled(refuse(4, Authentication), TRUE, Nobody)
      BY <1>4, <1>5, <2>1, <2>3, Proofs1
    <3> QED BY <1>3, <2>3, <3>1 DEF Handled
  <2> QED BY <2>2, <2>3
<1>6. CASE ~passes
  <2>1. damage.at = 3
    <3> SUFFICES ASSUME damage.at # 3 PROVE passes
      BY <1>6
    <3>1. /\ findItem(items, "State") = Code(3) /\ findItem(items, "PublicKey") = Public(Private)
          /\ findItem(items, "Proof") = ClientProof(key)
      BY <1>7
    <3>2. Public(Private) # NoOctets
      BY Kind, Absent DEF Public
    <3> QED BY <1>1, <3>1, <3>2, Proofs1 DEF has, exactly
  <2>2. did.answer = Excuse /\ ~did.counted
    <3>1. did = Failed
      BY <1>4, <1>6
    <3> DEFINE excuse == Text("Pair-setup failed", 17)
    <3>2. Failed = Handled(excuse, FALSE, Nobody)
      BY DEF Failed, Answered
    <3> HIDE DEF excuse
    <3>3. Handled(excuse, FALSE, Nobody).answer = excuse /\ ~Handled(excuse, FALSE, Nobody).counted
      BY DEF Handled
    <3> QED BY <3>1, <3>2, <3>3 DEF Excuse
  <2> QED BY <1>3, <2>1, <2>2
<1> QED BY <1>5, <1>6

(* A refusal at M4 is one, however it is damaged; unhurt, it says so. *)
LEMMA RefusalComesTo ==
  ASSUME NEW damage, Kinds(damage), NEW key, NEW us, NEW step,
         step = m5(Hurt(damage, 4, refuse(4, Authentication)), key, us)
  PROVE  /\ step.error # "none"
         /\ damage.at # 4 => step.error = "WrongSetupCode"
<1> DEFINE sent == refuse(4, Authentication)
           got == Hurt(damage, 4, sent)
<1>1. sent = Items(<<Item("State", Code(4)), Item("Error", Code(Authentication))>>)
  BY Codes1 DEF refuse
<1>2. sent.kind = "items" /\ itemsOf(sent) = <<Item("State", Code(4)), Item("Error", Code(Authentication))>>
  BY <1>1, ItemsAre
<1>3. step.error = m5(got, key, us).error
  OBVIOUS
<1> HIDE DEF sent
<1>4. /\ DOMAIN itemsOf(sent) = 1..2
      /\ itemsOf(sent)[1].type = "State" /\ itemsOf(sent)[2].type = "Error"
      /\ itemsOf(sent)[2].value = Code(Authentication)
  BY <1>2 DEF Item
<1>5. CASE damage.at # 4
  <2>1. got = sent
    BY <1>5 DEF Hurt
  <2> HIDE DEF got
  <2>2. findItem(itemsOf(got), "Error") = Code(Authentication)
    <3>1. 2 \in 1..2 /\ 2 \in Nat /\ \A j \in 1..2 : j < 2 => itemsOf(got)[j].type # "Error"
      BY <1>4, <2>1
    <3> QED BY <1>4, <2>1, <3>1, FindAt
  <2>3. has(itemsOf(got), "Error") /\ got.kind = "items"
    BY <1>2, <2>1, <2>2, Codes1 DEF has
  <2>4. step.error = fromWire(Code(Authentication))
    BY <1>3, <2>2, <2>3, M5Error
  <2> QED BY <2>4 DEF fromWire
<1>6. CASE damage.at = 4
  <2>1. Message(itemsOf(sent), 2)
    <3>1. \A i \in 1..2 : itemsOf(sent)[i].type # "Ignored"
      BY <1>4
    <3>2. \A i, j \in 1..2 : itemsOf(sent)[i].type = itemsOf(sent)[j].type => i = j
      BY <1>4
    <3> QED BY <1>4, <3>1, <3>2 DEF Message
  <2>2. \A i \in 1..2 : itemsOf(sent)[i].type # "Proof"
    BY <1>4
  <2>3. findItem(itemsOf(got), "Proof") = NoOctets
    <3>1. 4 \in 1..6 /\ got = Hurt(damage, 4, sent) /\ "Proof" \notin {"Ignored", "Error"}
      OBVIOUS
    <3> HIDE DEF got
    <3> QED BY <1>2, <2>1, <2>2, <3>1, HurtFinds
  <2> HIDE DEF got
  <2>4. fromWire(findItem(itemsOf(got), "Error")) # "none"
    BY DEF fromWire
  <2> QED BY <1>3, <1>6, <2>3, <2>4, M5Error DEF has
<1> QED BY <1>5, <1>6

(* M4 takes the controller on, or says what stands in the way.              *)
LEMMA M4ComesTo ==
  ASSUME NEW damage, Kinds(damage), NEW key, NEW us, NEW step,
         step = m5(Hurt(damage, 4, Fourth(key)), key, us)
  PROVE  /\ damage.at = 4 /\ Refusing(damage) => step.error = fromWire(Code(damage.to))
         /\ ~(damage.at = 4 /\ Refusing(damage)) => step.error # "WrongSetupCode"
         /\ step.error = "none" => us.identifier.bytes <= MAX_IDENTIFIER_BYTES
         /\ damage.at # 4 /\ step.error # "none" =>
              step.error = "IdentifierTooLong" /\ ~(us.identifier.bytes <= MAX_IDENTIFIER_BYTES)
<1> DEFINE got == Hurt(damage, 4, Fourth(key))
           items == itemsOf(got)
<1>1. /\ got.kind = "items"
      /\ findItem(items, "State") = Seen(damage, 4, Item("State", Code(4)))
      /\ findItem(items, "Proof") = Seen(damage, 4, Item("Proof", ServerProof(key)))
      /\ findItem(items, "Error") = SeenError(damage, 4)
  <2>1. got = Hurt(damage, 4, Items(<<Item("State", Code(4)), Item("Proof", ServerProof(key))>>))
    BY Codes1 DEF Fourth
  <2> HIDE DEF got
  <2>2. 4 \in 1..6
    OBVIOUS
  <2>3. /\ "State" \notin {"Ignored", "Error"} /\ "Proof" \notin {"Ignored", "Error"} /\ "State" # "Proof"
    OBVIOUS
  <2>4. Heard2(got, damage, 4, "State", Code(4), "Proof", ServerProof(key))
    BY <2>1, <2>2, <2>3, Hurt2
  <2> QED BY <2>4 DEF Heard2
<1>2. step.error = m5(got, key, us).error
  OBVIOUS
<1> HIDE DEF got, items
<1> DEFINE fits == us.identifier.bytes <= MAX_IDENTIFIER_BYTES
<1>3. step.error =
        IF has(items, "Error") THEN fromWire(findItem(items, "Error"))
        ELSE IF findItem(items, "State") # Code(4) THEN "UnexpectedState"
        ELSE IF ~has(items, "Proof") THEN "MissingItem"
        ELSE IF ~exactly(items, "Proof", PROOF_BYTES) THEN "MalformedItem"
        ELSE IF findItem(items, "Proof") # ServerProof(key) THEN "ProofRejected"
        ELSE IF ~fits THEN "IdentifierTooLong" ELSE "none"
  BY <1>1, <1>2, M5Error DEF items
<1> HIDE DEF fits
<1>4. has(items, "Error") <=> damage.at = 4 /\ Refusing(damage)
  BY <1>1, Errors1 DEF has
<1>5. damage.at # 4 => findItem(items, "State") = Code(4) /\ findItem(items, "Proof") = ServerProof(key)
  BY <1>1, SeenAsSent
<1>6. CASE damage.at = 4 /\ Refusing(damage)
  BY <1>1, <1>3, <1>4, <1>6, Codes1, Errors1 DEF fits
<1>7. CASE ~(damage.at = 4 /\ Refusing(damage))
  <2>1. step.error # "WrongSetupCode" /\ (step.error = "none" => fits)
    BY <1>3, <1>4, <1>7
  <2>2. damage.at # 4 /\ step.error # "none" => step.error = "IdentifierTooLong" /\ ~fits
    BY <1>3, <1>4, <1>5, <1>7, Proofs1 DEF has, exactly
  <2> QED BY <1>7, <2>1, <2>2 DEF fits
<1> QED BY <1>6, <1>7

(* A line of text is no payload: whoever reads it says so. *)
LEMMA ExcuseComesTo ==
  ASSUME NEW damage, NEW at, NEW pin, NEW key, NEW us
  PROVE  /\ Hurt(damage, at, Excuse) = Excuse
         /\ m3(Excuse, pin, Private).error = "SchemaError"
         /\ m5(Excuse, key, us).error = "SchemaError"
         /\ finish(Excuse, key).error = "SchemaError"
<1> DEFINE excuse == Text("Pair-setup failed", 17)
<1>1. Excuse = excuse
  <2>1. Failed = Handled(excuse, FALSE, Nobody)
    BY DEF Failed, Answered
  <2> HIDE DEF excuse
  <2>2. Handled(excuse, FALSE, Nobody).answer = excuse
    BY DEF Handled
  <2> QED BY <2>1, <2>2 DEF Excuse
<1>2. excuse.kind = "Pair-setup failed"
  BY DEF Text, Octets
<1> HIDE DEF excuse
<1>3. Excuse.kind # "items"
  BY <1>1, <1>2
<1>4. Hurt(damage, at, Excuse) = Excuse
  BY <1>3 DEF Hurt
<1>5. m3(Excuse, pin, Private).error = "SchemaError"
  BY <1>3, M3Error
<1>6. m5(Excuse, key, us).error = "SchemaError"
  BY <1>3, M5Error
<1>7. finish(Excuse, key).error = "SchemaError"
  BY <1>3, FinishEnds
<1> QED BY <1>4, <1>5, <1>6, <1>7

(* What is sealed for the other end is read as it was sealed, or not read. *)
LEMMA SealedSeen ==
  ASSUME NEW damage, Kinds(damage), NEW at \in 1..6, NEW key, NEW nonce, NEW items, NEW seen,
         seen = Seen(damage, at, Item("EncryptedData", Sealed(key, nonce, items)))
  PROVE  \/ /\ seen # NoOctets
            /\ open(EncryptionKey(key), nonce, seen, Joined(<<>>)).error = "none"
            /\ open(EncryptionKey(key), nonce, seen, Joined(<<>>)).value = items
         \/ /\ damage.at = at /\ ~Refusing(damage)
            /\ open(EncryptionKey(key), nonce, seen, Joined(<<>>)).error # "none"
<1> DEFINE sealed == Sealed(key, nonce, items)
<1>1. /\ open(EncryptionKey(key), nonce, sealed, Joined(<<>>)) = Ok(items)
      /\ sealed # NoOctets
  BY EncryptionKeyBytes, OpenSealed DEF Sealed
<1> HIDE DEF sealed
<1>2. \/ seen = sealed
      \/ /\ damage.at = at /\ ~Refusing(damage)
         /\ seen = NoOctets \/ seen = Resized(sealed, sealed.bytes - 1)
  <2>1. seen = Seen(damage, at, Item("EncryptedData", sealed)) /\ "EncryptedData" # "State"
    BY DEF sealed
  <2> QED BY <2>1, SeenOtherwise
<1>3. CASE seen = sealed
  BY <1>1, <1>3 DEF Ok
<1>4. CASE damage.at = at /\ ~Refusing(damage) /\ (seen = NoOctets \/ seen = Resized(sealed, sealed.bytes - 1))
  <2>1. seen.kind # "sealed"
    <3>1. Resized(sealed, sealed.bytes - 1).kind = "resized"
      BY Kind DEF Resized
    <3> QED BY <1>4, <3>1, Absent
  <2> QED BY <1>4, <2>1, OpenOther
<1> QED BY <1>2, <1>3, <1>4

(* A side introduces itself: its own items are found, and its signature    *)
(* is its own. *)
LEMMA IntroductionIsRead ==
  ASSUME NEW identifier, identifier # NoOctets, identifier.bytes <= MAX_IDENTIFIER_BYTES,
         NEW private, private.bytes = KEY, NEW info,
         NEW sub, sub = itemsOf(Items(<<Item("Identifier", identifier), Item("PublicKey", publicKey(private)),
                                        Item("Signature", Signed(private, info))>>))
  PROVE  /\ findItem(sub, "Identifier") = identifier /\ findItem(sub, "PublicKey") = publicKey(private)
         /\ Whole(sub)
         /\ ed25519Verify(findItem(sub, "PublicKey"), info, findItem(sub, "Signature")).value = Text("true", 1)
<1> DEFINE public == publicKey(private)
           signature == Signed(private, info)
<1>1. /\ ed25519Verify(public, info, signature).value = Text("true", 1)
      /\ signature.bytes = SIGNATURE /\ signature # NoOctets
      /\ public.bytes = PUBLIC_KEY /\ public # NoOctets
  BY SignedVerifies
<1>2. sub = <<Item("Identifier", identifier), Item("PublicKey", public), Item("Signature", signature)>>
  BY ItemsAre
<1> HIDE DEF public, signature
<1>3. /\ findItem(sub, "Identifier") = identifier /\ findItem(sub, "PublicKey") = public
      /\ findItem(sub, "Signature") = signature
  <2>1. "Identifier" # "PublicKey" /\ "Identifier" # "Signature" /\ "PublicKey" # "Signature"
    OBVIOUS
  <2> QED BY <1>2, <2>1, Find3
<1>4. public = publicKey(private)
  BY DEF public
<1> QED BY <1>1, <1>3, <1>4 DEF Whole, has, atMost, exactly

(* M5 is answered with M6, and the controller kept, or it was damaged.      *)
LEMMA M5ComesTo ==
  ASSUME NEW damage, Kinds(damage), NEW key, NEW us,
         us.identifier # NoOctets, us.identifier.bytes <= MAX_IDENTIFIER_BYTES,
         us.privateKey.bytes = KEY, us.publicKey = publicKey(us.privateKey),
         NEW did, did = introduce(Hurt(damage, 5, Fifth(key, us)), Accessory, key)
  PROVE  \/ did.answer = Excuse /\ did.stored = Nobody /\ damage.at = 5
         \/ did.answer = Sixth(key) /\ did.stored = Peer(us.identifier, us.publicKey)
<1> DEFINE got == Hurt(damage, 5, Fifth(key, us))
           items == itemsOf(got)
           found == findItem(items, "EncryptedData")
           opened == open(EncryptionKey(key), Msg05, found, Joined(<<>>))
           sub == itemsOf(opened.value)
           signed == ed25519Verify(findItem(sub, "PublicKey"),
                                   signedInfo(ControllerX(key), findItem(sub, "Identifier"),
                                              findItem(sub, "PublicKey")),
                                   findItem(sub, "Signature"))
           passes == /\ got.kind = "items" /\ findItem(items, "State") = Code(5)
                     /\ has(items, "EncryptedData") /\ opened.error = "none" /\ opened.value.kind = "items"
                     /\ Whole(sub)
<1>1. /\ got.kind = "items"
      /\ findItem(items, "State") = Seen(damage, 5, Item("State", Code(5)))
      /\ found = Seen(damage, 5, Item("EncryptedData", Sealed(key, Msg05, Introduction(key, us))))
  <2>1. got = Hurt(damage, 5, Items(<<Item("State", Code(5)),
                                      Item("EncryptedData", Sealed(key, Msg05, Introduction(key, us)))>>))
    BY Codes1 DEF Fifth
  <2> HIDE DEF got
  <2>2. 5 \in 1..6 /\ "State" \notin {"Ignored", "Error"} /\ "EncryptedData" \notin {"Ignored", "Error"}
        /\ "State" # "EncryptedData"
    OBVIOUS
  <2>4. Heard2(got, damage, 5, "State", Code(5), "EncryptedData", Sealed(key, Msg05, Introduction(key, us)))
    BY <2>1, <2>2, Hurt2
  <2> QED BY <2>4 DEF Heard2
<1>2. did = IF passes
            THEN IF signed.value = Text("true", 1)
                 THEN Handled(Sixth(key), FALSE, Peer(findItem(sub, "Identifier"), findItem(sub, "PublicKey")))
                 ELSE Answered(refuse(6, Authentication))
            ELSE Failed
  <2>1. did = introduce(got, Accessory, key)
    OBVIOUS
  <2> HIDE DEF got
  <2> DEFINE own == Own(key)
  <2>2. own = Items(<<Item("Identifier", Accessory.identifier), Item("PublicKey", publicKey(Accessory.seed)),
                      Item("Signature",
                           ed25519Sign(Accessory.seed,
                                       signedInfo(AccessoryX(key), Accessory.identifier,
                                                  publicKey(Accessory.seed))).value)>>)
    BY DEF Own, Signed
  <2> HIDE DEF own
  <2>3. Sixth(key) = Items(<<State(6), Item("EncryptedData",
                                             seal(EncryptionKey(key), Msg06, own, Joined(<<>>)).value)>>)
    BY DEF Sixth, Sealed, own
  <2>4. Introduced(introduce(got, Accessory, key), got, key, items, opened, sub, signed, own)
    <3>1. /\ items = itemsOf(got)
          /\ opened = open(EncryptionKey(key), Msg05, findItem(items, "EncryptedData"), Joined(<<>>))
          /\ sub = itemsOf(opened.value)
          /\ signed = ed25519Verify(findItem(sub, "PublicKey"),
                                    signedInfo(ControllerX(key), findItem(sub, "Identifier"),
                                               findItem(sub, "PublicKey")),
                                    findItem(sub, "Signature"))
      OBVIOUS
    <3> HIDE DEF items, opened, sub, signed
    <3> QED BY <2>2, <3>1, IntroduceAnswers
  <2> HIDE DEF signed, sub, opened, items
  <2> QED BY <2>1, <2>3, <2>4 DEF Introduced
<1> HIDE DEF got, items
<1>3. damage.at # 5 => findItem(items, "State") = Code(5)
  BY <1>1 DEF Seen, Item
<1>4. \/ /\ found # NoOctets /\ opened.error = "none" /\ opened.value = Introduction(key, us)
      \/ damage.at = 5 /\ ~Refusing(damage) /\ opened.error # "none"
  <2> HIDE DEF found
  <2>1. 5 \in 1..6
    OBVIOUS
  <2> QED BY <1>1, <2>1, SealedSeen
<1>5. CASE opened.error # "none"
  <2>1. did = Failed
    BY <1>2, <1>5
  <2>2. Failed.answer = Excuse /\ Failed.stored = Nobody
    BY DEF Failed, Answered, Handled, Excuse
  <2> QED BY <1>4, <1>5, <2>1, <2>2
<1>6. CASE found # NoOctets /\ opened.error = "none" /\ opened.value = Introduction(key, us)
  <2>1. /\ findItem(sub, "Identifier") = us.identifier /\ findItem(sub, "PublicKey") = us.publicKey
        /\ Whole(sub) /\ signed.value = Text("true", 1)
    <3> DEFINE info == deviceInfo(ControllerX(key), us.identifier, us.publicKey)
    <3>1. sub = itemsOf(Items(<<Item("Identifier", us.identifier), Item("PublicKey", publicKey(us.privateKey)),
                                Item("Signature", Signed(us.privateKey, info))>>))
      <4> HIDE DEF found, opened
      <4> QED BY <1>6 DEF Introduction
    <3> HIDE DEF sub, info
    <3>2. /\ findItem(sub, "Identifier") = us.identifier /\ findItem(sub, "PublicKey") = us.publicKey
          /\ Whole(sub)
          /\ ed25519Verify(findItem(sub, "PublicKey"), info, findItem(sub, "Signature")).value = Text("true", 1)
      BY <3>1, IntroductionIsRead
    <3>3. info = signedInfo(ControllerX(key), findItem(sub, "Identifier"), findItem(sub, "PublicKey"))
      BY <3>2 DEF info, deviceInfo, signedInfo
    <3> QED BY <3>2, <3>3
  <2>2. opened.value.kind = "items" /\ has(items, "EncryptedData")
    BY <1>6, ItemsAre DEF Introduction, has
  <2> HIDE DEF signed, sub, opened, found
  <2>3. CASE findItem(items, "State") = Code(5)
    <3>1. did = Handled(Sixth(key), FALSE, Peer(us.identifier, us.publicKey))
      BY <1>1, <1>2, <1>6, <2>1, <2>2, <2>3
    <3> QED BY <3>1 DEF Handled
  <2>4. CASE findItem(items, "State") # Code(5)
    <3>1. did = Failed
      BY <1>2, <2>4
    <3>2. Failed.answer = Excuse /\ Failed.stored = Nobody
      BY DEF Failed, Answered, Handled, Excuse
    <3> QED BY <1>3, <2>4, <3>1, <3>2
  <2> QED BY <2>3, <2>4
<1> QED BY <1>4, <1>5, <1>6

(* M6 pairs the controller with the accessory, or was damaged.              *)
LEMMA M6ComesTo ==
  ASSUME NEW damage, Kinds(damage), NEW key, NEW last, last = finish(Hurt(damage, 6, Sixth(key)), key)
  PROVE  /\ damage.at = 6 /\ Refusing(damage) => last.error = fromWire(Code(damage.to))
         /\ ~(damage.at = 6 /\ Refusing(damage)) => last.error # "WrongSetupCode"
         /\ damage.at # 6 => last.error = "none"
         /\ last.error = "none" => last.peer = Them
<1> DEFINE got == Hurt(damage, 6, Sixth(key))
           items == itemsOf(got)
           found == findItem(items, "EncryptedData")
           opened == open(EncryptionKey(key), Msg06, found, Joined(<<>>))
           sub == itemsOf(opened.value)
           signed == ed25519Verify(findItem(sub, "PublicKey"),
                                   deviceInfo(AccessoryX(key), findItem(sub, "Identifier"),
                                              findItem(sub, "PublicKey")),
                                   findItem(sub, "Signature"))
<1>1. /\ got.kind = "items"
      /\ findItem(items, "State") = Seen(damage, 6, Item("State", Code(6)))
      /\ found = Seen(damage, 6, Item("EncryptedData", Sealed(key, Msg06, Own(key))))
      /\ findItem(items, "Error") = SeenError(damage, 6)
  <2>1. got = Hurt(damage, 6, Items(<<Item("State", Code(6)),
                                      Item("EncryptedData", Sealed(key, Msg06, Own(key)))>>))
    BY Codes1 DEF Sixth
  <2> HIDE DEF got
  <2>2. 6 \in 1..6 /\ "State" \notin {"Ignored", "Error"} /\ "EncryptedData" \notin {"Ignored", "Error"}
        /\ "State" # "EncryptedData"
    OBVIOUS
  <2>4. Heard2(got, damage, 6, "State", Code(6), "EncryptedData", Sealed(key, Msg06, Own(key)))
    BY <2>1, <2>2, Hurt2
  <2> QED BY <2>4 DEF Heard2
<1>2. /\ last.peer = Peer(findItem(sub, "Identifier"), findItem(sub, "PublicKey"))
      /\ got.kind = "items" /\ has(items, "Error") => last.error = fromWire(findItem(items, "Error"))
      /\ got.kind = "items" /\ ~has(items, "Error") => last.error \in NamedErrors \cup {"none"}
      /\ last.error = "none" <=>
           /\ got.kind = "items" /\ ~has(items, "Error") /\ findItem(items, "State") = Code(6)
           /\ has(items, "EncryptedData") /\ opened.error = "none" /\ opened.value.kind = "items"
           /\ Whole(sub) /\ signed.value = Text("true", 1)
  <2>1. last = finish(got, key)
    OBVIOUS
  <2> HIDE DEF got
  <2> QED BY <2>1, FinishEnds
<1> HIDE DEF got, items
<1>3. damage.at # 6 => findItem(items, "State") = Code(6)
  BY <1>1, SeenAsSent
<1>4. \/ /\ found # NoOctets /\ opened.error = "none" /\ opened.value = Own(key)
      \/ damage.at = 6 /\ ~Refusing(damage) /\ opened.error # "none"
  <2> HIDE DEF found
  <2>1. 6 \in 1..6
    OBVIOUS
  <2> QED BY <1>1, <2>1, SealedSeen
<1>5. has(items, "Error") <=> damage.at = 6 /\ Refusing(damage)
  BY <1>1, Errors1 DEF has
<1>6. opened.error = "none" =>
        /\ found # NoOctets /\ opened.value = Own(key)
        /\ findItem(sub, "Identifier") = Accessory.identifier
        /\ findItem(sub, "PublicKey") = publicKey(Accessory.seed)
        /\ Whole(sub) /\ signed.value = Text("true", 1)
  <2> SUFFICES ASSUME opened.error = "none"
               PROVE  /\ found # NoOctets /\ opened.value = Own(key)
                      /\ findItem(sub, "Identifier") = Accessory.identifier
                      /\ findItem(sub, "PublicKey") = publicKey(Accessory.seed)
                      /\ Whole(sub) /\ signed.value = Text("true", 1)
    OBVIOUS
  <2> DEFINE info == signedInfo(AccessoryX(key), Accessory.identifier, publicKey(Accessory.seed))
  <2> HIDE DEF found, opened
  <2>1. found # NoOctets /\ opened.value = Own(key)
    BY <1>4
  <2>2. sub = itemsOf(Items(<<Item("Identifier", Accessory.identifier),
                              Item("PublicKey", publicKey(Accessory.seed)),
                              Item("Signature", Signed(Accessory.seed, info))>>))
    BY <2>1 DEF Own
  <2>3. /\ Accessory.identifier # NoOctets /\ Accessory.identifier.bytes <= MAX_IDENTIFIER_BYTES
        /\ Accessory.seed.bytes = KEY
    BY PairingAssumption DEF MAX_IDENTIFIER_BYTES
  <2> HIDE DEF sub, info
  <2>4. /\ findItem(sub, "Identifier") = Accessory.identifier
        /\ findItem(sub, "PublicKey") = publicKey(Accessory.seed) /\ Whole(sub)
        /\ ed25519Verify(findItem(sub, "PublicKey"), info, findItem(sub, "Signature")).value = Text("true", 1)
    BY <2>2, <2>3, IntroductionIsRead
  <2>5. info = deviceInfo(AccessoryX(key), findItem(sub, "Identifier"), findItem(sub, "PublicKey"))
    BY <2>4 DEF info, deviceInfo, signedInfo
  <2> QED BY <2>1, <2>4, <2>5
<1>7. opened.error = "none" => opened.value.kind = "items" /\ has(items, "EncryptedData")
  <2> HIDE DEF sub, signed
  <2> QED BY <1>6, ItemsAre DEF Own, has
<1> HIDE DEF signed, sub, opened, found
<1>8. damage.at = 6 /\ Refusing(damage) => last.error = fromWire(Code(damage.to))
  BY <1>1, <1>2, <1>5, Errors1
<1>9. ~(damage.at = 6 /\ Refusing(damage)) => last.error # "WrongSetupCode"
  BY <1>1, <1>2, <1>5 DEF NamedErrors
<1>10. damage.at # 6 => last.error = "none"
  BY <1>1, <1>2, <1>3, <1>4, <1>5, <1>6, <1>7
<1>11. last.error = "none" => last.peer = Them
  BY <1>2, <1>6 DEF Them
<1> QED BY <1>8, <1>9, <1>10, <1>11

-----------------------------------------------------------------------------
(* Who pairs, and the damage, are what PairingAssumption says of them.     *)
LEMMA AttemptIs ==
  ASSUME attempt \in Attempts
  PROVE  /\ Kinds(attempt.damage)
         /\ attempt.controller.identifier # NoOctets /\ attempt.controller.identifier.bytes \in Nat
         /\ attempt.controller.privateKey.bytes = KEY
         /\ attempt.controller.publicKey = publicKey(attempt.controller.privateKey)
<1>1. attempt.damage \in SetupDamages /\ attempt.controller \in Controllers
  BY DEF Attempts
<1>2. Kinds(attempt.damage)
  BY <1>1, DamageKinds
<1> QED BY <1>1, <1>2, PairingAssumption

(* M5 does not depend on what M4 was. *)
LEMMA Requests ==
  ASSUME NEW got, NEW key, NEW us
  PROVE  m5(got, key, us).request = Fifth(key, us)
BY DEF m5, Fifth, Sealed, Introduction, Signed

(* The invariant holds at the start, and every step keeps it. *)
LEMMA SetupStarts == Init => SetupInd
<1> SUFFICES ASSUME Init PROVE SetupInd
  OBVIOUS
<1> QED BY DEF Init, SetupInd, Keys, Kept, Said, Ended

LEMMA StepM1 == SetupInd /\ SaysM1 => SetupInd'
<1> SUFFICES ASSUME SetupInd, SaysM1 PROVE SetupInd'
  OBVIOUS
<1>1. /\ turn' = 1 /\ message' = m1(attempt.flags) /\ error' = "none"
      /\ UNCHANGED <<attempt, link, ours, theirs, counted, stored, peer>> /\ turn = 0
  BY DEF SaysM1, Turn, Says
<1>2. Keys' /\ Kept' /\ Ended'
  BY <1>1 DEF SetupInd, Keys, Kept, Ended
<1>3. Said'
  BY <1>1 DEF Said, Says1
<1> QED BY <1>1, <1>2, <1>3 DEF SetupInd

LEMMA StepM2 == SetupInd /\ SaysM2 => SetupInd'
<1> SUFFICES ASSUME SetupInd, SaysM2 PROVE SetupInd'
  OBVIOUS
<1> DEFINE did == begin(Hurt(attempt.damage, 1, m1(attempt.flags)), Accessory)
<1>0. turn = 1 /\ message = m1(attempt.flags)
  BY DEF SaysM2, Turn, SetupInd, Said, Says1
<1>1. /\ turn' = 2 /\ message' = did.answer /\ error' = "none"
      /\ UNCHANGED <<attempt, link, ours, theirs, counted, stored, peer>>
  BY <1>0 DEF SaysM2, Turn, Says, Arrived
<1>2. did.answer = Second \/ (did.answer = Excuse /\ attempt.damage.at = 1)
  BY M1ComesTo
<1> HIDE DEF did
<1>3. Keys' /\ Kept' /\ Ended'
  BY <1>0, <1>1 DEF SetupInd, Keys, Kept, Ended
<1>4. Said'
  BY <1>1, <1>2 DEF Said, Says2, Intact
<1> QED BY <1>1, <1>3, <1>4 DEF SetupInd

LEMMA StepM3 == SetupInd /\ SaysM3 => SetupInd'
<1> SUFFICES ASSUME SetupInd, SaysM3 PROVE SetupInd'
  OBVIOUS
<1> DEFINE step == m3(Hurt(attempt.damage, 2, message), attempt.code, Private)
<1>0. turn = 2 /\ error = "none"
  BY DEF SaysM3, Turn
<1>1. /\ Goes(step, 3) /\ ours' = step.srpKey
      /\ UNCHANGED <<attempt, link, theirs, counted, stored, peer>>
  BY <1>0 DEF SaysM3, Turn, Arrived
<1>2. /\ Refused(2) => step.error = Blame
      /\ ~Refused(2) => step.error # "WrongSetupCode"
      /\ Intact(2) => step.error = "none"
      /\ step.error = "none" =>
           /\ step.srpKey = KeyOf(attempt.code)
                \/ (attempt.damage.at = 2 /\ attempt.damage.what \in {"Salt", "PublicKey"})
           /\ step.request = Third(step.srpKey) /\ ~Refused(2)
  <2>1. Says2 /\ Kinds(attempt.damage) /\ Blame # "none"
    BY <1>0, AttemptIs, Codes1 DEF SetupInd, Said, Blame
  <2>2. CASE message = Second
    <3>1. step = m3(Hurt(attempt.damage, 2, Second), attempt.code, Private)
      BY <2>2
    <3> HIDE DEF step
    <3> QED BY <2>1, <3>1, M2ComesTo DEF Refused, Intact, Blame
  <2>3. CASE message = Excuse /\ ~Intact(1)
    <3>1. step.error = "SchemaError"
      BY <2>3, ExcuseComesTo
    <3> HIDE DEF step
    <3>2. ~Refused(2) /\ ~Intact(2)
      BY <2>3 DEF Intact, Refused
    <3> QED BY <3>1, <3>2
  <2> QED BY <2>1, <2>2, <2>3 DEF Says2
<1> HIDE DEF step
<1>3. CASE step.error = "none"
  <2>1. turn' = 3 /\ message' = step.request /\ error' = "none"
    BY <1>1, <1>3 DEF Goes, Says
  <2>2. Keys'
    BY <1>1, <1>2, <1>3, <2>1 DEF Keys, OursIsTyped, Refused
  <2>3. Kept' /\ Ended'
    BY <1>0, <1>1, <2>1 DEF SetupInd, Kept, Ended
  <2>4. Said'
    BY <1>1, <1>2, <1>3, <2>1 DEF Said
  <2> QED BY <1>1, <2>1, <2>2, <2>3, <2>4 DEF SetupInd
<1>4. CASE step.error # "none"
  <2>1. error' = step.error /\ turn' = 2 /\ message' = message
    BY <1>0, <1>1, <1>4 DEF Goes, EndsIn
  <2>2. Keys' /\ Kept'
    BY <1>0, <1>1, <2>1 DEF SetupInd, Keys, Kept
  <2>3. Said'
    BY <1>0, <1>1, <2>1 DEF SetupInd, Said, Says2, Intact
  <2>4. Ended'
    BY <1>1, <1>2, <1>4, <2>1 DEF Ended, Ended2, Intact, Refused, Blame
  <2> QED BY <1>1, <2>1, <2>2, <2>3, <2>4 DEF SetupInd
<1> QED BY <1>3, <1>4

LEMMA StepM4 == SetupInd /\ SaysM4 => SetupInd'
<1> SUFFICES ASSUME SetupInd, SaysM4 PROVE SetupInd'
  OBVIOUS
<1> DEFINE got == Hurt(attempt.damage, 3, Third(ours))
           did == prove(got, Accessory)
           back == SessionKey(Accessory.setupCode, Accessory.salt,
                              findItem(itemsOf(got), "PublicKey"), Public(Accessory.private))
<1>0. turn = 3 /\ error = "none" /\ message = Third(ours) /\ OursIsTyped /\ ~Refused(2)
  BY DEF SaysM4, Turn, SetupInd, Said, Keys
<1>1. /\ turn' = 4 /\ message' = did.answer /\ error' = "none" /\ counted' = did.counted /\ theirs' = back
      /\ UNCHANGED <<attempt, link, ours, stored, peer>>
  BY <1>0 DEF SaysM4, Turn, Says, Arrived
<1>2. /\ back = KeyOf(Accessory.setupCode) \/ (attempt.damage.at = 3 /\ attempt.damage.what = "PublicKey")
      /\ \/ did.answer = Excuse /\ ~did.counted /\ attempt.damage.at = 3
         \/ did.answer = refuse(4, Authentication) /\ did.counted /\ ours # back
         \/ did.answer = Fourth(ours) /\ ~did.counted /\ ours = back
  <2>1. Kinds(attempt.damage)
    BY AttemptIs DEF SetupInd
  <2> QED BY <2>1, M3ComesTo
<1> HIDE DEF did, back
<1>3. Keys'
  BY <1>0, <1>1, <1>2 DEF Keys, OursIsTyped, TheirsIsKept, Refused
<1>4. Kept' /\ Ended'
  BY <1>0, <1>1 DEF SetupInd, Kept, Ended
<1>5. Said'
  BY <1>1, <1>2 DEF Said, Says4, Intact
<1> QED BY <1>1, <1>3, <1>4, <1>5 DEF SetupInd

LEMMA StepM5 == SetupInd /\ SaysM5 => SetupInd'
<1> SUFFICES ASSUME SetupInd, SaysM5 PROVE SetupInd'
  OBVIOUS
<1> DEFINE step == m5(Hurt(attempt.damage, 4, message), ours, attempt.controller)
<1>0. turn = 4 /\ error = "none" /\ Says4 /\ OursIsTyped /\ TheirsIsKept /\ ~Refused(2)
  BY DEF SaysM5, Turn, SetupInd, Said, Keys
<1>1. Goes(step, 5) /\ UNCHANGED <<attempt, link, ours, theirs, counted, stored, peer>>
  BY <1>0 DEF SaysM5, Turn, Arrived
<1>2. step.request = Fifth(ours, attempt.controller)
  BY Requests
<1>3. \/ ~Intact(3) /\ ~counted /\ step.error = "SchemaError"
      \/ counted /\ ours # theirs /\ step.error # "none" /\ (Intact(4) => step.error = "WrongSetupCode")
      \/ /\ ~counted /\ ours = theirs
         /\ Refused(4) => step.error = Blame
         /\ ~Refused(4) => step.error # "WrongSetupCode"
         /\ step.error = "none" => Fits /\ ~Refused(4)
         /\ Intact(4) /\ step.error # "none" => step.error = "IdentifierTooLong" /\ ~Fits
  <2>1. Kinds(attempt.damage) /\ Blame # "none"
    BY AttemptIs, Codes1 DEF SetupInd, Blame
  <2>2. CASE message = Excuse /\ ~counted /\ ~Intact(3)
    <3>1. step.error = "SchemaError"
      BY <2>2, ExcuseComesTo
    <3> QED BY <2>2, <3>1
  <2>3. CASE message = refuse(4, Authentication) /\ counted /\ ours # theirs
    <3>1. step = m5(Hurt(attempt.damage, 4, refuse(4, Authentication)), ours, attempt.controller)
      BY <2>3
    <3> HIDE DEF step
    <3>2. step.error # "none" /\ (attempt.damage.at # 4 => step.error = "WrongSetupCode")
      BY <2>1, <3>1, RefusalComesTo
    <3> QED BY <2>3, <3>2 DEF Intact
  <2>4. CASE message = Fourth(ours) /\ ~counted /\ ours = theirs
    <3>1. step = m5(Hurt(attempt.damage, 4, Fourth(ours)), ours, attempt.controller)
      BY <2>4
    <3> HIDE DEF step
    <3>2. /\ Refused(4) => step.error = Blame
          /\ ~Refused(4) => step.error # "WrongSetupCode"
          /\ step.error = "none" => Fits
          /\ attempt.damage.at # 4 /\ step.error # "none" => step.error = "IdentifierTooLong" /\ ~Fits
      BY <2>1, <3>1, M4ComesTo DEF Refused, Blame, Fits
    <3> QED BY <2>1, <2>4, <3>2 DEF Intact
  <2> QED BY <1>0, <2>2, <2>3, <2>4 DEF Says4
<1> HIDE DEF step
<1>4. CASE step.error = "none"
  <2>1. turn' = 5 /\ message' = step.request /\ error' = "none"
    BY <1>1, <1>4 DEF Goes, Says
  <2>2. Keys'
    BY <1>0, <1>1, <1>3, <1>4, <2>1 DEF Keys, OursIsTyped, TheirsIsKept, Agreed, Refused, Fits
  <2>3. Kept' /\ Ended'
    BY <1>0, <1>1, <2>1 DEF SetupInd, Kept, Ended
  <2>4. Said'
    BY <1>1, <1>2, <2>1 DEF Said
  <2> QED BY <1>1, <2>1, <2>2, <2>3, <2>4 DEF SetupInd
<1>5. CASE step.error # "none"
  <2>1. error' = step.error /\ turn' = 4 /\ message' = message
    BY <1>0, <1>1, <1>5 DEF Goes, EndsIn
  <2>2. Keys' /\ Kept'
    BY <1>0, <1>1, <2>1 DEF SetupInd, Keys, Kept, OursIsTyped, TheirsIsKept, Refused
  <2>3. Said'
    BY <1>0, <1>1, <2>1 DEF Said, Says4, Intact
  <2>4. Ended4'
    BY <1>1, <1>3, <1>5, <2>1 DEF Ended4, Intact, Refused, Blame, Fits
  <2> QED BY <1>1, <2>1, <2>2, <2>3, <2>4 DEF SetupInd, Ended
<1> QED BY <1>4, <1>5

LEMMA StepM6 == SetupInd /\ SaysM6 => SetupInd'
<1> SUFFICES ASSUME SetupInd, SaysM6 PROVE SetupInd'
  OBVIOUS
<1> DEFINE did == introduce(Hurt(attempt.damage, 5, Fifth(ours, attempt.controller)), Accessory, ours)
<1>0. turn = 5 /\ error = "none" /\ message = Fifth(ours, attempt.controller) /\ ours = theirs /\ Keys /\ Fits
  BY DEF SaysM6, Turn, SetupInd, Said, Keys, Agreed
<1>1. /\ turn' = 6 /\ message' = did.answer /\ error' = "none" /\ stored' = did.stored
      /\ UNCHANGED <<attempt, link, ours, theirs, counted, peer>>
  BY <1>0 DEF SaysM6, Turn, Says, Arrived
<1>2. \/ did.answer = Excuse /\ did.stored = Nobody /\ attempt.damage.at = 5
      \/ did.answer = Sixth(ours) /\ did.stored = Us
  <2>1. /\ Kinds(attempt.damage)
        /\ attempt.controller.identifier # NoOctets
        /\ attempt.controller.privateKey.bytes = KEY
        /\ attempt.controller.publicKey = publicKey(attempt.controller.privateKey)
    BY AttemptIs DEF SetupInd
  <2>2. attempt.controller.identifier.bytes <= MAX_IDENTIFIER_BYTES
    BY <1>0 DEF Fits
  <2> QED BY <2>1, <2>2, M5ComesTo DEF Us
<1> HIDE DEF did
<1>3. Keys'
  BY <1>0, <1>1 DEF Keys, OursIsTyped, TheirsIsKept, Agreed, Refused, Fits
<1>4. Kept' /\ Ended'
  BY <1>0, <1>1 DEF SetupInd, Kept, Ended
<1>5. Said'
  BY <1>1, <1>2 DEF Said, Says6, Intact, Us
<1> QED BY <1>1, <1>3, <1>4, <1>5 DEF SetupInd

LEMMA StepFinishes == SetupInd /\ Finishes => SetupInd'
<1> SUFFICES ASSUME SetupInd, Finishes PROVE SetupInd'
  OBVIOUS
<1> DEFINE last == finish(Hurt(attempt.damage, 6, message), ours)
<1>0. turn = 6 /\ error = "none" /\ Says6 /\ Keys
  BY DEF Finishes, Turn, SetupInd, Said
<1>1. /\ IF last.error = "none" THEN peer' = last.peer /\ Says(7, message)
                                ELSE EndsIn(last.error) /\ UNCHANGED peer
      /\ UNCHANGED <<attempt, link, ours, theirs, counted, stored>>
  BY <1>0 DEF Finishes, Turn, Arrived
<1>2. /\ Refused(6) => last.error = Blame
      /\ ~Refused(6) => last.error # "WrongSetupCode"
      /\ Intact(6) => last.error = "none"
      /\ last.error = "none" => last.peer = Them /\ stored = Us /\ ~Refused(6)
  <2>1. Kinds(attempt.damage) /\ Blame # "none"
    BY AttemptIs, Codes1 DEF SetupInd, Blame
  <2>2. CASE message = Excuse /\ stored = Nobody /\ ~Intact(5)
    <3>1. last.error = "SchemaError"
      BY <2>2, ExcuseComesTo
    <3> HIDE DEF last
    <3>2. ~Refused(6) /\ ~Intact(6)
      BY <2>2 DEF Intact, Refused
    <3> QED BY <3>1, <3>2
  <2>3. CASE message = Sixth(ours) /\ stored = Us
    <3>1. last = finish(Hurt(attempt.damage, 6, Sixth(ours)), ours)
      BY <2>3
    <3> HIDE DEF last
    <3> QED BY <2>1, <2>3, <3>1, M6ComesTo DEF Refused, Intact, Blame
  <2> QED BY <1>0, <2>2, <2>3 DEF Says6
<1> HIDE DEF last
<1>3. CASE last.error = "none"
  <2>1. turn' = 7 /\ message' = message /\ error' = "none" /\ peer' = Them /\ stored' = Us /\ ~Refused(6)
    BY <1>1, <1>2, <1>3 DEF Says
  <2>2. Keys'
    BY <1>0, <1>1, <2>1 DEF Keys, OursIsTyped, TheirsIsKept, Agreed, Refused, Fits
  <2>3. Kept'
    BY <1>1, <2>1 DEF Kept, Us, Them, Refused
  <2>4. Said' /\ Ended'
    BY <2>1 DEF Said, Ended
  <2> QED BY <1>1, <2>1, <2>2, <2>3, <2>4 DEF SetupInd
<1>4. CASE last.error # "none"
  <2>1. error' = last.error /\ turn' = 6 /\ message' = message /\ peer' = peer
    BY <1>0, <1>1, <1>4 DEF EndsIn
  <2>2. Keys'
    BY <1>0, <1>1, <2>1 DEF Keys, OursIsTyped, TheirsIsKept, Agreed, Refused, Fits
  <2>3. Kept'
    BY <1>0, <1>1, <2>1 DEF SetupInd, Kept
  <2>4. Said'
    BY <1>0, <1>1, <2>1 DEF Said, Says6, Intact, Us
  <2>5. Ended6'
    BY <1>1, <1>2, <1>4, <2>1 DEF Ended6, Intact, Refused, Blame
  <2> QED BY <1>1, <2>1, <2>2, <2>3, <2>4, <2>5 DEF SetupInd, Ended
<1> QED BY <1>3, <1>4

LEMMA StepVerifies ==
  ASSUME NEW device \in Devices, NEW damage \in VerifyDamages
  PROVE  SetupInd /\ Verifies(device, damage) => SetupInd'
<1> SUFFICES ASSUME SetupInd, Verifies(device, damage) PROVE SetupInd'
  OBVIOUS
<1>1. /\ turn = 7 /\ turn' = 8 /\ error = "none"
      /\ UNCHANGED <<attempt, message, ours, theirs, counted, stored, peer, error>>
  BY DEF Verifies
<1>2. Keys'
  BY <1>1 DEF SetupInd, Keys, OursIsTyped, TheirsIsKept, Agreed, Refused, Fits
<1>3. Kept'
  BY <1>1 DEF SetupInd, Kept, Us, Them, Refused
<1>4. Said' /\ Ended'
  BY <1>1 DEF Said, Ended
<1> QED BY <1>1, <1>2, <1>3, <1>4 DEF SetupInd

LEMMA StepStutters == SetupInd /\ UNCHANGED vars => SetupInd'
<1> SUFFICES ASSUME SetupInd, UNCHANGED vars PROVE SetupInd'
  OBVIOUS
<1>1. UNCHANGED <<attempt, turn, message, ours, theirs, counted, stored, peer, error>>
  BY DEF vars
<1>2. Keys'
  BY <1>1 DEF SetupInd, Keys, OursIsTyped, TheirsIsKept, Agreed, Refused, Fits
<1>3. Kept'
  BY <1>1 DEF SetupInd, Kept, Us, Them, Refused
<1>4. Said'
  BY <1>1 DEF SetupInd, Said, Says1, Says2, Says4, Says6, Intact, Us
<1>5. Ended'
  BY <1>1 DEF SetupInd, Ended, Ended2, Ended4, Ended6, Intact, Refused, Blame, Fits
<1> QED BY <1>1, <1>2, <1>3, <1>4, <1>5 DEF SetupInd

(* Whatever is said, damaged or refused in a setup, each side has what the *)
(* invariant says: the messages are made of the two keys, the keys differ  *)
(* only for a code that differs or a damage that explains it, and an error *)
(* says no more than the damage does.                                      *)
THEOREM SetupHolds == Spec => []SetupInd
<1>1. SetupInd /\ [Next]_vars => SetupInd'
  BY StepM1, StepM2, StepM3, StepM4, StepM5, StepM6, StepFinishes, StepVerifies, StepStutters DEF Next
<1> QED BY SetupStarts, <1>1, PTL DEF Spec

(* Keys made of different codes are different. *)
LEMMA KeysTell ==
  ASSUME NEW a, NEW b, KeyOf(a) = KeyOf(b)
  PROVE  a = b
<1> DEFINE parts(code) == <<code, Accessory.salt, Public(Private), Public(Accessory.private)>>
<1>1. parts(a)[1] = a /\ parts(b)[1] = b
  OBVIOUS
<1>2. KeyOf(a) = Octets("srpKey", parts(a), PROOF_BYTES) /\ KeyOf(b) = Octets("srpKey", parts(b), PROOF_BYTES)
  BY DEF KeyOf, SessionKey
<1> HIDE DEF parts
<1>3. \A of : Octets("srpKey", of, PROOF_BYTES).of = of
  BY Kind
<1> QED BY <1>1, <1>2, <1>3

(* An undamaged setup pairs the two sides with one another, or says that   *)
(* the code was wrong (and counts it once), or that the controller's       *)
(* identifier does not fit (M5, Controller.ts).                            *)
THEOREM SetupEnds == Spec => []SetupConverses
<1>1. SetupInd => SetupConverses
  <2> SUFFICES ASSUME SetupInd, Over, attempt.damage = Unhurt
               PROVE  /\ error = IF attempt.code # Accessory.setupCode THEN "WrongSetupCode"
                                 ELSE IF ~Fits THEN "IdentifierTooLong" ELSE "none"
                      /\ counted <=> attempt.code # Accessory.setupCode
                      /\ error = "none" => stored = Us /\ peer = Them
                      /\ error # "none" => stored = Nobody /\ peer = Nobody
    BY DEF SetupConverses
  <2>1. attempt.damage.at = 0
    BY DEF Unhurt
  <2>2. \A n \in 1..6 : Intact(n) /\ ~Refused(n)
    BY <2>1 DEF Intact, Refused
  <2>3. ours = KeyOf(attempt.code) /\ theirs = KeyOf(Accessory.setupCode) =>
          (ours = theirs <=> attempt.code = Accessory.setupCode)
    BY KeysTell
  <2>4. turn >= 4 => ours = KeyOf(attempt.code) /\ theirs = KeyOf(Accessory.setupCode)
    BY <2>1 DEF SetupInd, Keys, OursIsTyped, TheirsIsKept
  <2>5. CASE error # "none"
    <3>1. turn = 4 /\ Ended4
      BY <2>2, <2>5 DEF SetupInd, Ended, Ended2, Ended6
    <3>2. stored = Nobody /\ peer = Nobody
      BY <3>1 DEF SetupInd, Kept
    <3>3. \/ counted /\ ours # theirs /\ error = "WrongSetupCode"
          \/ ~counted /\ ours = theirs /\ error = "IdentifierTooLong" /\ ~Fits
      BY <2>2, <3>1 DEF Ended4
    <3> QED BY <2>3, <2>4, <2>5, <3>1, <3>2, <3>3
  <2>6. CASE error = "none"
    <3>1. turn >= 7
      BY <2>6 DEF SetupInd, Over
    <3>2. stored = Us /\ peer = Them /\ ours = theirs /\ ~counted /\ Fits
      BY <3>1 DEF SetupInd, Keys, Kept, Agreed
    <3> QED BY <2>3, <2>4, <2>6, <3>1, <3>2 DEF SetupInd
  <2> QED BY <2>5, <2>6
<1> QED BY SetupHolds, <1>1, PTL

(* With the right code, a damaged setup ends in the refusal that arrived,  *)
(* or blames the code only when a salt or a public key was altered; and    *)
(* nobody is kept but the two who took part.                               *)
THEOREM DamageIsNoBlame == Spec => []DamageNotBlamed
<1>1. SetupInd => DamageNotBlamed
  <2> DEFINE damage == attempt.damage
             refused == damage.at \in {2, 4, 6} /\ Refusing(damage)
  <2> SUFFICES ASSUME SetupInd, Over, damage # Unhurt, attempt.code = Accessory.setupCode, Fits
               PROVE  /\ refused => error = fromWire(Code(damage.to))
                      /\ error = "WrongSetupCode" =>
                            \/ refused /\ damage.to = Authentication
                            \/ damage.at \in {2, 3} /\ damage.what \in {"Salt", "PublicKey"}
                      /\ counted => damage.at \in {2, 3} /\ damage.what \in {"Salt", "PublicKey", "Proof"}
                      /\ stored \in {Nobody, Us} /\ peer \in {Nobody, Them}
                      /\ error = "none" => stored = Us /\ peer = Them
    BY DEF DamageNotBlamed
  <2>1. Blame = "WrongSetupCode" => damage.to = Authentication
    BY Codes1 DEF Blame, fromWire
  <2>2. Blame = fromWire(Code(damage.to))
    BY DEF Blame
  <2>3. turn >= 4 /\ ours # theirs =>
          damage.at \in {2, 3} /\ damage.what \in {"Salt", "PublicKey"}
    BY DEF SetupInd, Keys, OursIsTyped, TheirsIsKept
  <2>4. \A n \in {2, 4, 6} : Refused(n) <=> refused /\ damage.at = n
    BY DEF Refused
  <2> HIDE DEF damage
  <2>5. \A n \in 1..6 : Intact(n) <=> damage.at \notin 1..n
    BY DEF Intact, damage
  <2> HIDE DEF refused
  <2>6. refused => damage.at \in {2, 4, 6}
    BY DEF refused
  <2>7. CASE error # "none" /\ turn = 2
    <3>1. Ended2 /\ ~counted /\ stored = Nobody /\ peer = Nobody
      BY <2>7 DEF SetupInd, Ended, Kept
    <3> QED BY <2>1, <2>2, <2>4, <2>5, <2>6, <2>7, <3>1 DEF Ended2
  <2>8. CASE error # "none" /\ turn = 4
    <3>1. Ended4 /\ stored = Nobody /\ peer = Nobody /\ ~Refused(2)
      BY <2>8 DEF SetupInd, Ended, Kept, Keys
    <3>2. CASE ~Intact(3) /\ ~counted /\ error # "WrongSetupCode"
      <4>1. ~refused
        BY <2>4, <2>5, <2>6, <3>1, <3>2
      <4> QED BY <2>8, <3>1, <3>2, <4>1
    <3>3. CASE counted /\ ours # theirs
      <4>1. damage.at \in {2, 3} /\ damage.what \in {"Salt", "PublicKey"}
        BY <2>3, <2>8, <3>3
      <4>2. ~refused
        BY <2>4, <2>6, <3>1, <4>1
      <4> QED BY <2>8, <3>1, <4>1, <4>2
    <3>4. CASE /\ ~counted /\ ours = theirs
               /\ IF Refused(4) THEN error = Blame ELSE error # "WrongSetupCode"
               /\ Intact(4) => error = "IdentifierTooLong" /\ ~Fits
      <4>1. damage.at \in 1..4
        BY <2>5, <3>4
      <4>2. refused <=> Refused(4)
        BY <2>4, <2>6, <3>1, <4>1
      <4> QED BY <2>1, <2>2, <2>8, <3>1, <3>4, <4>2
    <3> QED BY <3>1, <3>2, <3>3, <3>4 DEF Ended4
  <2>9. CASE error # "none" /\ turn = 6
    <3>1. Ended6 /\ stored \in {Nobody, Us} /\ peer = Nobody /\ ~counted /\ ~Refused(2) /\ ~Refused(4)
      BY <2>9 DEF SetupInd, Ended, Kept, Keys, Agreed, Said, Says6
    <3>2. refused <=> Refused(6)
      BY <2>4, <2>6, <3>1
    <3> QED BY <2>1, <2>2, <2>9, <3>1, <3>2 DEF Ended6
  <2>10. CASE error = "none"
    <3>1. turn >= 7
      BY <2>10 DEF SetupInd, Over
    <3>2. stored = Us /\ peer = Them /\ ~counted /\ ~Refused(2) /\ ~Refused(4) /\ ~Refused(6)
      BY <3>1 DEF SetupInd, Keys, Kept, Agreed
    <3>3. ~refused
      BY <2>4, <2>6, <3>2
    <3> QED BY <2>10, <3>2, <3>3
  <2> QED BY <2>7, <2>8, <2>9, <2>10 DEF SetupInd, Ended
<1> QED BY SetupHolds, <1>1, PTL

-----------------------------------------------------------------------------
(* Pair verify: what the controller makes of M2.                           *)
Opens(r, items, opened, sub) ==
  /\ r.kind = "items" /\ findItem(items, "State") = Code(2) /\ ~has(items, "Error")
  /\ has(items, "PublicKey") /\ exactly(items, "PublicKey", PUBLIC_KEY) /\ has(items, "EncryptedData")
  /\ opened.error = "none" /\ opened.value.kind = "items"
  /\ has(sub, "Identifier") /\ exactly(sub, "Signature", SIGNATURE)

Concludes(ends, r, items, opened, sub, signed) ==
  /\ ends = "none" <=> Opens(r, items, opened, sub) /\ signed.value = Text("true", 1)
  /\ Opens(r, items, opened, sub) /\ signed.value # Text("true", 1) => ends = "SignatureRejected"

LEMMA VerifyEnds ==
  ASSUME NEW r, NEW pinned, NEW us, NEW items, items = itemsOf(r),
         NEW found, found = findItem(items, "PublicKey"),
         NEW opened,
         opened = open(verifyKey(x25519SharedSecret(Ephemeral, found).value), PVMsg02,
                       findItem(items, "EncryptedData"), Joined(<<>>)),
         NEW sub, sub = itemsOf(opened.value),
         NEW signed,
         signed = ed25519Verify(pinned,
                                pairVerifyInfo(found, findItem(sub, "Identifier"), publicKey(Ephemeral)),
                                findItem(sub, "Signature"))
  PROVE  Concludes(verifyM3(r, Ephemeral, pinned, us).error, r, items, opened, sub, signed)
<1> DEFINE p1 == r.kind = "items"
           q1 == has(items, "State")
           q2 == findItem(items, "State") = State(2).value
           q3 == ~has(items, "Error")
           q4 == has(items, "PublicKey")
           q5 == exactly(items, "PublicKey", PUBLIC_KEY)
           q6 == has(items, "EncryptedData")
           s1 == opened.error = "none"
           s2 == opened.value.kind = "items"
           s3 == has(sub, "Identifier")
           s4 == exactly(sub, "Signature", SIGNATURE)
           s5 == signed.value = Text("true", 1)
           a == <<Check(p1, "SchemaError")>>
           b == <<Check(q1, "InvalidValue"), Check(q2, "InvalidValue"), Check(q3, "Refused"),
                  Check(q4, "InvalidValue"), Check(q5, "InvalidValue"), Check(q6, "InvalidValue")>>
           c == <<Check(s1, opened.error), Check(s2, "SchemaError"), Check(s3, "InvalidValue"),
                  Check(s4, "InvalidValue"), Check(s5, "SignatureRejected")>>
<1>1. verifyM3(r, Ephemeral, pinned, us).error = FirstError(a \o b \o c)
  <2>1. b = verifyChecks(items)
    BY DEF verifyChecks
  <2> HIDE DEF b
  <2> QED BY <2>1 DEF verifyM3
<1>2. Proper(a) /\ (AllHold(a) <=> p1)
  <2> HIDE DEF p1
  <2> QED BY ProperOne
<1>3. Proper(b) /\ (AllHold(b) <=> q1 /\ q2 /\ q3 /\ q4 /\ q5 /\ q6)
  <2> HIDE DEF q1, q2, q3, q4, q5, q6
  <2>1. /\ Listed(b) /\ (AllHold(b) <=> q1 /\ q2 /\ q3 /\ q4 /\ q5 /\ q6)
        /\ FirstError(b) = IF ~q1 THEN "InvalidValue" ELSE IF ~q2 THEN "InvalidValue" ELSE IF ~q3 THEN "Refused"
                           ELSE IF ~q4 THEN "InvalidValue" ELSE IF ~q5 THEN "InvalidValue"
                           ELSE IF ~q6 THEN "InvalidValue" ELSE "none"
    BY SixChecks
  <2> HIDE DEF b
  <2> QED BY <2>1 DEF Proper
<1>4. /\ Proper(c) /\ (AllHold(c) <=> s1 /\ s2 /\ s3 /\ s4 /\ s5)
      /\ s1 /\ s2 /\ s3 /\ s4 /\ ~s5 => FirstError(c) = "SignatureRejected"
  <2>0. opened.error # "none" \/ s1
    OBVIOUS
  <2> HIDE DEF s1, s2, s3, s4, s5
  <2>1. /\ Listed(c) /\ (AllHold(c) <=> s1 /\ s2 /\ s3 /\ s4 /\ s5)
        /\ FirstError(c) = IF ~s1 THEN opened.error ELSE IF ~s2 THEN "SchemaError" ELSE IF ~s3 THEN "InvalidValue"
                           ELSE IF ~s4 THEN "InvalidValue" ELSE IF ~s5 THEN "SignatureRejected" ELSE "none"
    BY FiveChecks
  <2> HIDE DEF c
  <2> QED BY <2>0, <2>1 DEF Proper
<1>5. /\ FirstError(a \o b \o c) = "none" <=> AllHold(a) /\ AllHold(b) /\ AllHold(c)
      /\ AllHold(a) /\ AllHold(b) => FirstError(a \o b \o c) = FirstError(c)
  <2> HIDE DEF a, b, c
  <2>1. Proper(a \o b) /\ (AllHold(a \o b) <=> AllHold(a) /\ AllHold(b))
    BY <1>2, <1>3, ProperMore
  <2>2. /\ Proper(a \o b \o c) /\ (AllHold(a \o b \o c) <=> AllHold(a \o b) /\ AllHold(c))
        /\ FirstError(a \o b \o c) = IF AllHold(a \o b) THEN FirstError(c) ELSE FirstError(a \o b)
    BY <1>4, <2>1, ProperMore
  <2> QED BY <2>1, <2>2 DEF Proper
<1> HIDE DEF a, b, c
<1>6. q2 <=> findItem(items, "State") = Code(2)
  BY Codes1 DEF Item
<1>7. q2 => q1
  BY <1>6, Codes1 DEF has
<1> DEFINE before == p1 /\ q1 /\ q2 /\ q3 /\ q4 /\ q5 /\ q6 /\ s1 /\ s2 /\ s3 /\ s4
<1>8. before <=> Opens(r, items, opened, sub)
  BY <1>6, <1>7 DEF Opens
<1> HIDE DEF p1, q1, q2, q3, q4, q5, q6, s1, s2, s3, s4
<1>9. FirstError(a \o b \o c) = "none" <=> before /\ s5
  BY <1>2, <1>3, <1>4, <1>5
<1>10. before /\ ~s5 => FirstError(a \o b \o c) = "SignatureRejected"
  BY <1>2, <1>3, <1>4, <1>5
<1> HIDE DEF before
<1> QED BY <1>1, <1>8, <1>9, <1>10 DEF Concludes, s5

(* The two ends of an exchange share a secret, whichever half is theirs.   *)
Shared(device) == Octets("shared", SetToSeq({Ephemeral, device.ephemeral}), KEY)

LEMMA BothShare ==
  ASSUME NEW device \in Devices
  PROVE  /\ x25519SharedSecret(Ephemeral, publicKey(device.ephemeral)).value = Shared(device)
         /\ x25519SharedSecret(device.ephemeral, publicKey(Ephemeral)).value = Shared(device)
<1>1. /\ \A k : publicKey(k).kind = "public" /\ publicKey(k).bytes = PUBLIC_KEY /\ publicKey(k).of = <<k>>
  BY Kind DEF publicKey
<1>2. \A k : publicKey(k).of[1] = k
  <2>1. \A k : <<k>>[1] = k
    OBVIOUS
  <2> QED BY <1>1, <2>1
<1>3. Ephemeral.bytes = KEY /\ device.ephemeral.bytes = KEY
  BY PairingAssumption
<1>4. {device.ephemeral, Ephemeral} = {Ephemeral, device.ephemeral}
  OBVIOUS
<1>5. ASSUME NEW private, private.bytes = KEY, NEW public, public.kind = "public", public.bytes = PUBLIC_KEY
      PROVE  x25519SharedSecret(private, public).value =
               Octets("shared", SetToSeq({private, public.of[1]}), KEY)
  <2>1. exactSizes(<< <<private, KEY>>, <<public, PUBLIC_KEY>> >>)
    BY <1>5 DEF exactSizes
  <2> QED BY <1>5, <2>1 DEF x25519SharedSecret, Ok
<1>6. x25519SharedSecret(Ephemeral, publicKey(device.ephemeral)).value =
        Octets("shared", SetToSeq({Ephemeral, device.ephemeral}), KEY)
  BY <1>1, <1>2, <1>3, <1>5
<1>7. x25519SharedSecret(device.ephemeral, publicKey(Ephemeral)).value =
        Octets("shared", SetToSeq({device.ephemeral, Ephemeral}), KEY)
  BY <1>1, <1>2, <1>3, <1>5
<1> QED BY <1>4, <1>6, <1>7 DEF Shared

(* What either kind of device signs, and answers. *)
InfoOf(device) ==
  IF device.hap THEN Joined(<<publicKey(device.ephemeral), device.identifier, publicKey(Ephemeral)>>)
  ELSE Joined(<<Shared(device), device.identifier, publicKey(device.private)>>)
Inside(device) ==
  Items(<<Item("Identifier", device.identifier), Item("Signature", Signed(device.private, InfoOf(device)))>>)
SealedM2(device) == seal(verifyKey(Shared(device)), PVMsg02, Inside(device), Joined(<<>>)).value

LEMMA AnswerIs ==
  ASSUME NEW device \in Devices
  PROVE  Answer(device) = Items(<<Item("State", Code(2)), Item("PublicKey", publicKey(device.ephemeral)),
                                  Item("EncryptedData", SealedM2(device))>>)
<1> DEFINE first == publicKey(Ephemeral)
           asked == verifyM1(Ephemeral)
<1>1. findItem(itemsOf(asked), "PublicKey") = first
  <2>1. itemsOf(asked) = <<Item("State", Code(1)), Item("PublicKey", first)>>
    BY ItemsAre, Codes1 DEF verifyM1
  <2> HIDE DEF asked, first
  <2>2. "State" # "PublicKey"
    OBVIOUS
  <2> QED BY <2>1, <2>2, Find2
<1>2. x25519SharedSecret(device.ephemeral, first).value = Shared(device)
  BY BothShare
<1> HIDE DEF asked, first
<1>3. CASE device.hap
  <2>1. Answer(device) = M2(device, Shared(device), Signed(device.private, InfoOf(device)))
    BY <1>1, <1>2, <1>3 DEF Answer, hapM2, InfoOf, Signed, asked, first
  <2> QED BY <2>1, Codes1 DEF M2, SealedM2, Inside
<1>4. CASE ~device.hap
  <2>1. Answer(device) = M2(device, Shared(device), Signed(device.private, InfoOf(device)))
    BY <1>1, <1>2, <1>4 DEF Answer, emulatorM2, InfoOf, Signed, asked, first
  <2> QED BY <2>1, Codes1 DEF M2, SealedM2, Inside
<1> QED BY <1>3, <1>4

(* Nothing that is altered in M2 passes for what was sent.                 *)
LEMMA UnalteredM2 ==
  ASSUME NEW device \in Devices, NEW damage \in VerifyDamages,
         damage.at = 2 => damage.how = "state" /\ damage.to = 2
  PROVE  Hurt(damage, 2, Answer(device)) = Answer(device)
<1> DEFINE items == <<Item("State", Code(2)), Item("PublicKey", publicKey(device.ephemeral)),
                      Item("EncryptedData", SealedM2(device))>>
           Touched(item) == item.type = damage.what \/ Refusing(damage)
           hurt == [i \in DOMAIN items |-> IF Touched(items[i]) THEN Altered(damage, items[i]) ELSE items[i]]
<1>1. Answer(device) = Items(items)
  BY AnswerIs
<1>2. CASE damage.at # 2
  BY <1>2 DEF Hurt
<1>3. CASE damage.at = 2
  <2>1. damage.how = "state" /\ damage.to = 2 /\ damage.what = "State" /\ ~Refusing(damage)
    BY <1>3, DamageKinds DEF Kinds, Refusing, Unhurt
  <2>2. /\ DOMAIN items = 1..3
        /\ items[1] = Item("State", Code(2)) /\ items[2].type = "PublicKey" /\ items[3].type = "EncryptedData"
        /\ items = [i \in 1..3 |-> items[i]]
    BY DEF Item
  <2>3. Hurt(damage, 2, Items(items)) = Items(hurt)
    <3> HIDE DEF items
    <3> QED BY <1>3, <2>1, ItemsAre DEF Hurt
  <2> HIDE DEF items
  <2>4. Altered(damage, items[1]) = items[1]
    BY <2>1, <2>2, Codes1 DEF Altered
  <2>5. \A i \in 1..3 : (IF Touched(items[i]) THEN Altered(damage, items[i]) ELSE items[i]) = items[i]
    BY <2>1, <2>2, <2>4
  <2>6. hurt = [i \in 1..3 |-> items[i]]
    BY <2>2, <2>5
  <2> QED BY <1>1, <2>2, <2>3, <2>6
<1> QED BY <1>2, <1>3

(* Of M2 the controller finds what was sent, or less. *)
LEMMA M2IsRead ==
  ASSUME NEW device \in Devices, NEW damage \in VerifyDamages, NEW got, got = Hurt(damage, 2, Answer(device))
  PROVE  Heard3(got, damage, 2, "State", Code(2), "PublicKey", publicKey(device.ephemeral),
                "EncryptedData", SealedM2(device))
<1>1. Kinds(damage) /\ 2 \in 1..6
  BY DamageKinds
<1>2. /\ "State" \notin {"Ignored", "Error"} /\ "PublicKey" \notin {"Ignored", "Error"}
      /\ "EncryptedData" \notin {"Ignored", "Error"}
      /\ "State" # "PublicKey" /\ "State" # "EncryptedData" /\ "PublicKey" # "EncryptedData"
  OBVIOUS
<1>3. got = Hurt(damage, 2, Items(<<Item("State", Code(2)), Item("PublicKey", publicKey(device.ephemeral)),
                                    Item("EncryptedData", SealedM2(device))>>))
  BY AnswerIs
<1> QED BY <1>1, <1>2, <1>3, Hurt3

LEMMA PublicKeyIs ==
  ASSUME NEW k
  PROVE  /\ publicKey(k).kind = "public" /\ publicKey(k).bytes = PUBLIC_KEY /\ publicKey(k).of[1] = k
         /\ publicKey(k) # NoOctets
<1>1. <<k>>[1] = k
  OBVIOUS
<1>2. publicKey(k).kind = "public" /\ publicKey(k).bytes = PUBLIC_KEY /\ publicKey(k).of = <<k>>
  BY Kind DEF publicKey
<1> QED BY <1>1, <1>2, Absent

LEMMA SealedM2Is ==
  ASSUME NEW device
  PROVE  /\ open(verifyKey(Shared(device)), PVMsg02, SealedM2(device), Joined(<<>>)) = Ok(Inside(device))
         /\ SealedM2(device).kind = "sealed" /\ SealedM2(device) # NoOctets
<1>1. verifyKey(Shared(device)).bytes = KEY
  BY Kind DEF verifyKey, hkdfSha512
<1> DEFINE key == verifyKey(Shared(device))
<1> HIDE DEF key
<1>2. SealedM2(device) = seal(key, PVMsg02, Inside(device), Joined(<<>>)).value /\ key.bytes = KEY
  BY <1>1 DEF SealedM2, key
<1>3. /\ open(key, PVMsg02, SealedM2(device), Joined(<<>>)) = Ok(Inside(device))
      /\ SealedM2(device).kind = "sealed" /\ SealedM2(device) # NoOctets
  BY <1>2, OpenSealed
<1> QED BY <1>3 DEF key

(* The signature inside verifies with the key of the accessory paired with *)
(* just when that accessory made it, over what HAP says.                   *)
LEMMA InsideIsRead ==
  ASSUME NEW device \in Devices, NEW sub, sub = itemsOf(Inside(device)),
         NEW signed,
         signed = ed25519Verify(publicKey(Accessory.seed),
                                pairVerifyInfo(publicKey(device.ephemeral), findItem(sub, "Identifier"),
                                               publicKey(Ephemeral)),
                                findItem(sub, "Signature"))
  PROVE  /\ has(sub, "Identifier") /\ exactly(sub, "Signature", SIGNATURE)
         /\ signed.value = Text("true", 1) <=> device.hap /\ device.private = Accessory.seed
<1> DEFINE signature == Signed(device.private, InfoOf(device))
           awaited == Joined(<<publicKey(device.ephemeral), device.identifier, publicKey(Ephemeral)>>)
<1>1. sub = <<Item("Identifier", device.identifier), Item("Signature", signature)>>
  BY ItemsAre DEF Inside
<1>2. device.identifier # NoOctets /\ device.private.bytes = KEY /\ device.hap \in BOOLEAN
  BY PairingAssumption
<1>3. signature = Octets("signature", <<device.private, InfoOf(device)>>, SIGNATURE)
  BY <1>2 DEF Signed, ed25519Sign, Ok
<1>4. signature.bytes = SIGNATURE
  BY <1>3, Kind
<1> HIDE DEF signature
<1>5. findItem(sub, "Identifier") = device.identifier /\ findItem(sub, "Signature") = signature
  <2>1. "Identifier" # "Signature"
    OBVIOUS
  <2> QED BY <1>1, <2>1, Find2
<1>6. signed = ed25519Verify(publicKey(Accessory.seed), awaited, signature)
  BY <1>5 DEF pairVerifyInfo
<1>7. device.hap <=> InfoOf(device) = awaited
  <2>1. CASE device.hap
    BY <2>1 DEF InfoOf
  <2>2. CASE ~device.hap
    <3> DEFINE other == <<Shared(device), device.identifier, publicKey(device.private)>>
               parts == <<publicKey(device.ephemeral), device.identifier, publicKey(Ephemeral)>>
    <3>1. InfoOf(device) = Joined(other) /\ awaited = Joined(parts)
      BY <2>2 DEF InfoOf
    <3>2. other[1].kind = "shared" /\ parts[1].kind = "public"
      BY Kind, PublicKeyIs DEF Shared
    <3> HIDE DEF other, parts, awaited
    <3>3. Joined(other).of = other /\ Joined(parts).of = parts
      BY Kind DEF Joined
    <3>4. other # parts
      BY <3>2
    <3> QED BY <2>2, <3>1, <3>3, <3>4
  <2> QED BY <1>2, <2>1, <2>2
<1> HIDE DEF awaited
<1>8. signature = Octets("signature", <<Accessory.seed, awaited>>, SIGNATURE)
        <=> device.private = Accessory.seed /\ InfoOf(device) = awaited
  <2> DEFINE mine == <<device.private, InfoOf(device)>>
             yours == <<Accessory.seed, awaited>>
  <2>1. mine = yours <=> device.private = Accessory.seed /\ InfoOf(device) = awaited
    OBVIOUS
  <2> HIDE DEF mine, yours
  <2>2. \A of : Octets("signature", of, SIGNATURE).of = of
    BY Kind
  <2>3. signature = Octets("signature", mine, SIGNATURE)
    BY <1>3 DEF mine
  <2>4. signature = Octets("signature", yours, SIGNATURE) <=> mine = yours
    BY <2>2, <2>3
  <2> QED BY <2>1, <2>4 DEF yours
<1>9. signed.value = Text("true", 1) <=> signature = Octets("signature", <<Accessory.seed, awaited>>, SIGNATURE)
  <2> DEFINE public == publicKey(Accessory.seed)
  <2>1. public.kind = "public" /\ public.bytes = PUBLIC_KEY /\ public.of[1] = Accessory.seed
    BY PublicKeyIs
  <2> HIDE DEF public
  <2>2. exactSizes(<< <<public, PUBLIC_KEY>>, <<signature, SIGNATURE>> >>)
    BY <1>4, <2>1 DEF exactSizes
  <2>3. Text("true", 1) # Text("false", 1)
    <3>1. Text("true", 1).kind = "true" /\ Text("false", 1).kind = "false"
      BY Kind DEF Text
    <3> QED BY <3>1
  <2>4. signed = IF signature = Octets("signature", <<Accessory.seed, awaited>>, SIGNATURE)
                 THEN Ok(Text("true", 1)) ELSE Ok(Text("false", 1))
    BY <1>6, <2>1, <2>2 DEF ed25519Verify, public
  <2> QED BY <2>3, <2>4 DEF Ok
<1> QED BY <1>2, <1>4, <1>5, <1>7, <1>8, <1>9 DEF has, exactly

LEMMA VerifyComesTo ==
  ASSUME NEW device \in Devices, NEW damage \in VerifyDamages, NEW us,
         NEW got, got = Hurt(damage, 2, Answer(device)),
         NEW ends, ends = verifyM3(got, Ephemeral, publicKey(Accessory.seed), us).error
  PROVE  /\ ends = "none" <=> device.hap /\ device.private = Accessory.seed /\ got = Answer(device)
         /\ got = Answer(device) /\ ends # "none" => ends = "SignatureRejected"
<1> DEFINE items == itemsOf(got)
           found == findItem(items, "PublicKey")
           data == findItem(items, "EncryptedData")
           opened == open(verifyKey(x25519SharedSecret(Ephemeral, found).value), PVMsg02, data, Joined(<<>>))
           sub == itemsOf(opened.value)
           signed == ed25519Verify(publicKey(Accessory.seed),
                                   pairVerifyInfo(found, findItem(sub, "Identifier"), publicKey(Ephemeral)),
                                   findItem(sub, "Signature"))
<1>1. Concludes(ends, got, items, opened, sub, signed)
  BY VerifyEnds
<1>2. /\ got.kind = "items"
      /\ findItem(items, "State") = Seen(damage, 2, Item("State", Code(2)))
      /\ found = Seen(damage, 2, Item("PublicKey", publicKey(device.ephemeral)))
      /\ data = Seen(damage, 2, Item("EncryptedData", SealedM2(device)))
      /\ findItem(items, "Error") = SeenError(damage, 2)
  BY M2IsRead DEF Heard2, Heard3
<1>3. Opens(got, items, opened, sub) => got = Answer(device)
  <2> SUFFICES ASSUME Opens(got, items, opened, sub) PROVE got = Answer(device)
    OBVIOUS
  <2>1. /\ findItem(items, "State") = Code(2) /\ findItem(items, "Error") = NoOctets
        /\ found # NoOctets /\ found.bytes = PUBLIC_KEY /\ data # NoOctets /\ opened.error = "none"
    BY DEF Opens, has, exactly
  <2>2. data.kind = "sealed"
    <3>1. CASE data.kind # "sealed"
      <4> HIDE DEF data
      <4>1. opened.error # "none"
        BY <3>1, OpenOther
      <4> QED BY <2>1, <4>1
    <3> QED BY <3>1
  <2> HIDE DEF items, found, data, opened, sub, signed
  <2>3. damage.at = 2 => ~Refusing(damage)
    BY <1>2, <2>1, Errors1
  <2>4. damage.at = 2 /\ damage.how \in {"dropped", "resized"} => FALSE
    <3> SUFFICES ASSUME damage.at = 2, damage.how \in {"dropped", "resized"} PROVE FALSE
      OBVIOUS
    <3>1. damage.what \in {"State", "PublicKey", "EncryptedData"}
      BY DEF VerifyDamages, Damages, Unhurt
    <3>2. \A v : Resized(v, v.bytes - 1).kind = "resized" /\ Resized(v, v.bytes - 1).bytes = v.bytes - 1
      BY Kind DEF Resized
    <3>3. \A type, value : damage.what = type =>
            LET seen == Seen(damage, 2, Item(type, value))
            IN  seen = NoOctets \/ seen = Resized(value, value.bytes - 1)
      BY <2>3 DEF Seen, Item
    <3>4. CASE damage.what = "State"
      <4>1. Code(2).kind = "number" /\ Code(2) # NoOctets
        BY Numbers, Codes1 DEF Code
      <4>2. Code(2) = NoOctets \/ Code(2) = Resized(Code(2), Code(2).bytes - 1)
        BY <1>2, <2>1, <3>3, <3>4
      <4>3. Resized(Code(2), Code(2).bytes - 1).kind = "resized"
        BY <3>2
      <4> QED BY <4>1, <4>2, <4>3
    <3>5. CASE damage.what = "PublicKey"
      <4> DEFINE public == publicKey(device.ephemeral)
      <4>1. public.bytes = PUBLIC_KEY
        BY PublicKeyIs
      <4> HIDE DEF public
      <4>2. found = NoOctets \/ found = Resized(public, public.bytes - 1)
        BY <1>2, <3>3, <3>5 DEF public
      <4>3. Resized(public, public.bytes - 1).bytes = PUBLIC_KEY - 1
        BY <3>2, <4>1
      <4> QED BY <2>1, <4>2, <4>3 DEF PUBLIC_KEY
    <3>6. CASE damage.what = "EncryptedData"
      <4>1. data = NoOctets \/ data = Resized(SealedM2(device), SealedM2(device).bytes - 1)
        BY <1>2, <3>3, <3>6
      <4>2. Resized(SealedM2(device), SealedM2(device).bytes - 1).kind = "resized"
        BY <3>2
      <4> QED BY <2>1, <2>2, <4>1, <4>2
    <3> QED BY <3>1, <3>4, <3>5, <3>6
  <2>5. damage.at = 2 => damage.how = "state" /\ damage.what = "State"
    BY <2>3, <2>4, DamageKinds DEF Kinds, Refusing, Unhurt
  <2>6. damage.at = 2 => Code(damage.to) = Code(2)
    BY <1>2, <2>1, <2>3, <2>5 DEF Seen, Item
  <2>7. damage.at = 2 => damage.to = 2
    BY <2>6, Codes1
  <2> QED BY <2>5, <2>7, UnalteredM2
<1>4. ASSUME got = Answer(device)
      PROVE  /\ Opens(got, items, opened, sub)
             /\ signed.value = Text("true", 1) <=> device.hap /\ device.private = Accessory.seed
  <2>1. /\ findItem(items, "State") = Code(2) /\ found = publicKey(device.ephemeral)
        /\ data = SealedM2(device) /\ findItem(items, "Error") = NoOctets
    <3>1. itemsOf(Answer(device)) = <<Item("State", Code(2)), Item("PublicKey", publicKey(device.ephemeral)),
                                      Item("EncryptedData", SealedM2(device))>>
      BY AnswerIs, ItemsAre
    <3>2. /\ "State" # "PublicKey" /\ "State" # "EncryptedData" /\ "PublicKey" # "EncryptedData"
      OBVIOUS
    <3>3. \A j \in DOMAIN items : items[j].type # "Error"
      <4>1. DOMAIN items = 1..3 /\ items[1].type = "State" /\ items[2].type = "PublicKey"
            /\ items[3].type = "EncryptedData"
        BY <1>4, <3>1 DEF Item
      <4> HIDE DEF items
      <4> QED BY <4>1
    <3> HIDE DEF items
    <3>4. items = <<Item("State", Code(2)), Item("PublicKey", publicKey(device.ephemeral)),
                    Item("EncryptedData", SealedM2(device))>>
      BY <1>4, <3>1 DEF items
    <3>5. findItem(items, "Error") = NoOctets
      BY <3>3, FindNot
    <3>6. /\ findItem(items, "State") = Code(2) /\ findItem(items, "PublicKey") = publicKey(device.ephemeral)
          /\ findItem(items, "EncryptedData") = SealedM2(device)
      BY <3>2, <3>4, Find3
    <3> QED BY <3>5, <3>6
  <2> HIDE DEF items, found, data
  <2>2. opened = Ok(Inside(device))
    BY <2>1, BothShare, SealedM2Is
  <2>3. opened.error = "none" /\ opened.value = Inside(device)
    BY <2>2 DEF Ok
  <2> HIDE DEF opened
  <2>4. sub = itemsOf(Inside(device)) /\ opened.value.kind = "items"
    BY <2>3, ItemsAre DEF Inside
  <2> HIDE DEF sub
  <2>5. /\ has(sub, "Identifier") /\ exactly(sub, "Signature", SIGNATURE)
        /\ signed.value = Text("true", 1) <=> device.hap /\ device.private = Accessory.seed
    BY <2>1, <2>4, InsideIsRead
  <2>6. Opens(got, items, opened, sub)
    BY <1>2, <2>1, <2>3, <2>4, <2>5, PublicKeyIs, SealedM2Is DEF Opens, has, exactly, found, data
  <2> QED BY <2>5, <2>6
<1> HIDE DEF items, opened, sub, signed
<1> QED BY <1>1, <1>3, <1>4 DEF Concludes

(* What the accessory finds in M3, whoever signed it. *)
LEMMA M3IsRead ==
  ASSUME NEW device \in Devices, NEW pinned, NEW us, NEW id, id = us.identifier,
         us.privateKey.bytes = KEY,
         NEW owner, owner.identifier = id, owner.publicKey = publicKey(owner.privateKey),
         NEW request, request = verifyM3(Answer(device), Ephemeral, pinned, us).request
  PROVE  /\ hapVerified(request, device, publicKey(Ephemeral), owner) <=> us.privateKey = owner.privateKey
         /\ emulatorVerified(request)
<1> DEFINE first == publicKey(Ephemeral)
           second == publicKey(device.ephemeral)
           own == Joined(<<first, id, second>>)
           signature == Signed(us.privateKey, own)
           reply == Items(<<Item("Identifier", id), Item("Signature", signature)>>)
           key == verifyKey(Shared(device))
           sealed == seal(key, PVMsg03, reply, Joined(<<>>)).value
           sub == itemsOf(reply)
<1>1. findItem(itemsOf(Answer(device)), "PublicKey") = second
  <2>1. itemsOf(Answer(device)) = <<Item("State", Code(2)), Item("PublicKey", second),
                                    Item("EncryptedData", SealedM2(device))>>
    BY AnswerIs, ItemsAre
  <2>2. /\ "State" # "PublicKey" /\ "State" # "EncryptedData" /\ "PublicKey" # "EncryptedData"
    OBVIOUS
  <2> HIDE DEF second
  <2> QED BY <2>1, <2>2, Find3
<1>2. /\ x25519SharedSecret(Ephemeral, second).value = Shared(device)
      /\ x25519SharedSecret(device.ephemeral, first).value = Shared(device)
  BY BothShare
<1>3. request = Items(<<Item("State", Code(3)), Item("EncryptedData", sealed)>>)
  BY <1>1, <1>2, Codes1 DEF verifyM3, pairVerifyInfo, Signed
<1>4. key.bytes = KEY
  BY Kind DEF verifyKey, hkdfSha512
<1>5. sub = <<Item("Identifier", id), Item("Signature", signature)>>
  BY ItemsAre
<1>6. signature = Octets("signature", <<us.privateKey, own>>, SIGNATURE) /\ signature.bytes = SIGNATURE
  <2>1. signature = Octets("signature", <<us.privateKey, own>>, SIGNATURE)
    BY DEF Signed, ed25519Sign, Ok
  <2> QED BY <2>1, Kind
<1>7. own = Joined(<<first, id, second>>)
  OBVIOUS
<1> HIDE DEF signature, own, second
<1>8. findItem(sub, "Identifier") = id /\ findItem(sub, "Signature") = signature
  <2>1. "Identifier" # "Signature"
    OBVIOUS
  <2> HIDE DEF sub
  <2> QED BY <1>5, <2>1, Find2
<1> HIDE DEF reply, sub, key
<1>9. open(key, PVMsg03, sealed, Joined(<<>>)) = Ok(reply) /\ sealed # NoOctets
  BY <1>4, OpenSealed
<1> HIDE DEF sealed
<1>10. findItem(itemsOf(request), "EncryptedData") = sealed
  <2>1. itemsOf(request) = <<Item("State", Code(3)), Item("EncryptedData", sealed)>>
    BY <1>3, ItemsAre
  <2>2. "State" # "EncryptedData"
    OBVIOUS
  <2> QED BY <2>1, <2>2, Find2
<1>11. emulatorVerified(request)
  BY <1>9, <1>10 DEF emulatorVerified, has
<1> DEFINE public == publicKey(owner.privateKey)
           signed == ed25519Verify(public, own, signature)
<1>12. hapVerified(request, device, first, owner) <=> signed.value = Text("true", 1)
  <2> DEFINE opened == open(key, PVMsg03, findItem(itemsOf(request), "EncryptedData"), Joined(<<>>))
  <2>1. opened.error = "none" /\ itemsOf(opened.value) = sub
    BY <1>9, <1>10 DEF Ok, sub
  <2> HIDE DEF opened
  <2>2. opened = open(verifyKey(x25519SharedSecret(device.ephemeral, first).value), PVMsg03,
                      findItem(itemsOf(request), "EncryptedData"), Joined(<<>>))
    BY <1>2 DEF opened, key
  <2> HIDE DEF first
  <2>3. hapVerified(request, device, first, owner) <=>
          /\ opened.error = "none" /\ findItem(sub, "Identifier") = owner.identifier
          /\ ed25519Verify(owner.publicKey, Joined(<<first, owner.identifier, publicKey(device.ephemeral)>>),
                           findItem(sub, "Signature")).value = Text("true", 1)
    BY <2>1, <2>2 DEF hapVerified
  <2>4. Joined(<<first, owner.identifier, publicKey(device.ephemeral)>>) = own
    BY <1>7 DEF second
  <2> QED BY <1>8, <2>1, <2>3, <2>4
<1>13. signed.value = Text("true", 1) <=> us.privateKey = owner.privateKey
  <2> DEFINE mine == <<us.privateKey, own>>
             theirOwn == <<owner.privateKey, own>>
  <2>1. mine = theirOwn <=> us.privateKey = owner.privateKey
    OBVIOUS
  <2>2. public.kind = "public" /\ public.bytes = PUBLIC_KEY /\ public.of[1] = owner.privateKey
    BY PublicKeyIs
  <2>3. signature = Octets("signature", mine, SIGNATURE)
    BY <1>6
  <2>4. theirOwn = <<owner.privateKey, own>>
    OBVIOUS
  <2> HIDE DEF public, mine, theirOwn
  <2>5. exactSizes(<< <<public, PUBLIC_KEY>>, <<signature, SIGNATURE>> >>)
    BY <1>6, <2>2 DEF exactSizes
  <2>6. \A of : Octets("signature", of, SIGNATURE).of = of
    BY Kind
  <2>7. signature = Octets("signature", theirOwn, SIGNATURE) <=> mine = theirOwn
    BY <2>3, <2>6
  <2>8. Text("true", 1) # Text("false", 1)
    <3>1. Text("true", 1).kind = "true" /\ Text("false", 1).kind = "false"
      BY Kind DEF Text
    <3> QED BY <3>1
  <2>9. signed = IF signature = Octets("signature", theirOwn, SIGNATURE)
                 THEN Ok(Text("true", 1)) ELSE Ok(Text("false", 1))
    BY <2>2, <2>4, <2>5 DEF ed25519Verify
  <2> QED BY <2>1, <2>7, <2>8, <2>9 DEF Ok
<1> QED BY <1>11, <1>12, <1>13 DEF first

(* A frame opens at the other end, at its number only; nothing opens it    *)
(* that does not bind its length.                                          *)
LEMMA FramesOpen ==
  ASSUME NEW keys, NEW others, keys.write = others.read, keys.write.bytes = KEY,
         NEW sent, NEW read, NEW text, NEW frame, frame = encryptFrame(keys, sent, text)
  PROVE  /\ sent = read => decryptFrame(others, read, frame) = Ok(text)
         /\ sent # read => decryptFrame(others, read, frame).error = "ForgedFrame"
<1> DEFINE sealed == seal(keys.write, Counter(sent), text, Length(text)).value
<1>1. frame.sealed = sealed /\ frame.length = Length(text)
  BY DEF encryptFrame
<1>2. Counter(sent) = Counter(read) => sent = read
  BY Numbers DEF Counter
<1>3. decryptFrame(others, read, frame) = open(keys.write, Counter(read), sealed, Length(text))
  BY <1>1 DEF decryptFrame
<1>4. /\ open(keys.write, Counter(sent), sealed, Length(text)) = Ok(text)
      /\ \A n : n # Counter(sent) => open(keys.write, n, sealed, Length(text)) = Fails("ForgedFrame")
  <2> DEFINE key == keys.write
             length == Length(text)
             nonce == Counter(sent)
  <2>1. sealed = seal(key, nonce, text, length).value /\ key.bytes = KEY
    OBVIOUS
  <2> HIDE DEF sealed, key, length, nonce
  <2>2. OpensOnly(key, nonce, text, length, sealed)
    BY <2>1, OpenSealed
  <2> QED BY <2>2 DEF OpensOnly, key, length, nonce
<1> HIDE DEF sealed
<1>5. CASE sent = read
  BY <1>3, <1>4, <1>5
<1>6. CASE sent # read
  <2>1. decryptFrame(others, read, frame) = Fails("ForgedFrame")
    BY <1>2, <1>3, <1>4, <1>6
  <2> QED BY <1>6, <2>1 DEF Fails
<1> QED BY <1>5, <1>6

LEMMA CommandsFail ==
  ASSUME NEW keys, NEW others, others.write.bytes = KEY, NEW n, NEW text \in Plaintexts
  PROVE  emulatorCommand(keys, n, encryptFrame(others, n, text)) # text
<1> DEFINE frame == encryptFrame(others, n, text)
           sealed == seal(others.write, Counter(n), text, Length(text)).value
           opened == open(keys.read, Counter(n), sealed, Joined(<<>>))
           both == Joined(<<frame.length, sealed>>)
<1>1. frame.sealed = sealed
  BY DEF encryptFrame
<1>2. Length(text) # Joined(<<>>)
  <2>1. Length(text).kind = "length" /\ Joined(<<>>).kind = "joined"
    <3>1. Length(text).kind = "length"
      BY Kind DEF Length
    <3>2. \A of, bytes : Octets("joined", of, bytes).kind = "joined"
      BY Kind
    <3> QED BY <3>1, <3>2 DEF Joined
  <2> QED BY <2>1
<1>3. opened.error # "none"
  <2> DEFINE key == others.write
             length == Length(text)
             nonce == Counter(n)
  <2>1. sealed = seal(key, nonce, text, length).value /\ key.bytes = KEY
    OBVIOUS
  <2> HIDE DEF sealed, key, length, nonce
  <2>2. OpensOnly(key, nonce, text, length, sealed)
    BY <2>1, OpenSealed
  <2> QED BY <1>2, <2>2 DEF OpensOnly, length
<1>4. emulatorCommand(keys, n, frame) = both
  <2> HIDE DEF frame, sealed
  <2> QED BY <1>1, <1>3 DEF emulatorCommand
<1>5. both.kind = "joined" /\ text.kind # "joined"
  <2> DEFINE parts == <<frame.length, sealed>>
  <2>1. both = Octets("joined", parts, Together(parts))
    BY DEF Joined
  <2> HIDE DEF parts
  <2> QED BY <2>1, Kind, PairingAssumption
<1> QED BY <1>4, <1>5

-----------------------------------------------------------------------------
(* What a verification comes to, of an answer of a device and a damage:    *)
(* the invariant of a setup says whom the controller keeps by then.        *)
LinkOf(device, damage) ==
  LET got  == Hurt(damage, 2, Answer(device))
      step == verifyM3(got, Ephemeral, Them.publicKey, attempt.controller)
  IN  [answer |-> Answer(device), device |-> device, error |-> step.error, got |-> got,
       keys |-> runPairVerify(got, Ephemeral), request |-> step.request,
       verified |-> step.error = "none"]

Met == \E device \in Devices, damage \in VerifyDamages : link = LinkOf(device, damage)

PairingInd == SetupInd /\ (turn = 8 => Met)

LEMMA PairingStarts == Init => PairingInd
BY SetupStarts DEF Init, PairingInd

LEMMA PairingSteps == PairingInd /\ [Next]_vars => PairingInd'
<1> SUFFICES ASSUME PairingInd, [Next]_vars PROVE PairingInd'
  OBVIOUS
<1>1. SetupInd'
  BY StepM1, StepM2, StepM3, StepM4, StepM5, StepM6, StepFinishes, StepVerifies, StepStutters
     DEF Next, PairingInd
<1>2. CASE UNCHANGED vars
  BY <1>1, <1>2 DEF PairingInd, Met, LinkOf, vars
<1>3. CASE SaysM1 \/ SaysM2 \/ SaysM3 \/ SaysM4 \/ SaysM5 \/ SaysM6 \/ Finishes
  <2>1. turn' # 8
    BY <1>3 DEF SaysM1, SaysM2, SaysM3, SaysM4, SaysM5, SaysM6, Finishes, Turn, Says, Goes, EndsIn
  <2> QED BY <1>1, <2>1 DEF PairingInd
<1>4. ASSUME NEW device \in Devices, NEW damage \in VerifyDamages, Verifies(device, damage)
      PROVE  PairingInd'
  <2>1. peer = Them /\ attempt' = attempt
    BY <1>4 DEF Verifies, PairingInd, SetupInd, Kept
  <2>2. link' = LinkOf(device, damage)
    BY <1>4, <2>1 DEF Verifies, LinkOf
  <2>3. LinkOf(device, damage)' = LinkOf(device, damage)
    BY <2>1 DEF LinkOf, Them
  <2> QED BY <1>1, <2>2, <2>3 DEF PairingInd, Met
<1> QED BY <1>2, <1>3, <1>4 DEF Next

(* runPairVerify goes on exactly when the accessory that was paired with   *)
(* answers and nothing of it was altered; that accessory then knows the    *)
(* controller, each end opens the frames of the other, in their order only,*)
(* and a device like the emulator is never taken for the accessory.        *)
THEOREM VerifyEndsWell == Spec => []VerifyConverses
<1>1. PairingInd => VerifyConverses
  <2> DEFINE us == attempt.controller
             first == publicKey(Ephemeral)
             keys == accessoryKeys(x25519SharedSecret(link.device.ephemeral, first).value)
             As(stranger) ==
               verifyM3(link.got, Ephemeral, peer.publicKey,
                        [identifier |-> us.identifier, privateKey |-> stranger.privateKey]).request
  <2> SUFFICES ASSUME PairingInd, turn = 8
               PROVE  /\ link.verified <=> /\ link.device.hap /\ link.device.private = Accessory.seed
                                           /\ link.got = link.answer
                      /\ ~link.verified /\ link.got = link.answer => link.error = "SignatureRejected"
                      /\ link.verified =>
                           /\ hapVerified(link.request, link.device, first, us)
                           /\ \A stranger \in Controllers :
                                /\ hapVerified(As(stranger), link.device, first, us)
                                     => stranger.privateKey = us.privateKey
                                /\ emulatorVerified(As(stranger))
                           /\ \A sent, read \in 0..MaxFrame, text \in Plaintexts :
                                LET opened == decryptFrame(keys, read, encryptFrame(link.keys, sent, text))
                                    back   == decryptFrame(link.keys, read, encryptFrame(keys, sent, text))
                                IN  IF sent = read THEN opened = Ok(text) /\ back = Ok(text)
                                    ELSE opened.error = "ForgedFrame" /\ back.error = "ForgedFrame"
                      /\ \A text \in Plaintexts, n \in 0..MaxFrame :
                           emulatorCommand(keys, n, encryptFrame(link.keys, n, text)) # text
    BY DEF VerifyConverses
  <2>1. PICK device \in Devices, damage \in VerifyDamages : link = LinkOf(device, damage)
    BY DEF PairingInd, Met
  <2> DEFINE got == Hurt(damage, 2, Answer(device))
             pinned == publicKey(Accessory.seed)
             ends == verifyM3(got, Ephemeral, pinned, us).error
             verified == ends = "none"
  <2>2. Them.publicKey = pinned /\ peer.publicKey = pinned
    BY DEF PairingInd, SetupInd, Kept, Them, Peer
  <2>3. /\ us.privateKey.bytes = KEY /\ us.publicKey = publicKey(us.privateKey)
        /\ us.identifier = attempt.controller.identifier
    BY AttemptIs DEF PairingInd, SetupInd
  <2> HIDE DEF us, first
  <2>4. /\ link.device = device /\ link.answer = Answer(device) /\ link.got = got /\ link.error = ends
        /\ link.keys = runPairVerify(got, Ephemeral)
        /\ link.request = verifyM3(got, Ephemeral, pinned, us).request
        /\ link.verified <=> verified
    <3> DEFINE step == verifyM3(got, Ephemeral, pinned, us)
    <3>1. LinkOf(device, damage) =
            [answer |-> Answer(device), device |-> device, error |-> step.error, got |-> got,
             keys |-> runPairVerify(got, Ephemeral), request |-> step.request, verified |-> verified]
      BY <2>2 DEF LinkOf, us
    <3> HIDE DEF got, step, verified
    <3>2. /\ link.device = device /\ link.answer = Answer(device) /\ link.got = got /\ link.error = step.error
          /\ link.keys = runPairVerify(got, Ephemeral) /\ link.request = step.request
      BY <2>1, <3>1
    <3>3. link.verified <=> verified
      BY <2>1, <3>1
    <3> QED BY <3>2, <3>3 DEF step
  <2>5. /\ ends = "none" <=> device.hap /\ device.private = Accessory.seed /\ got = Answer(device)
        /\ got = Answer(device) /\ ends # "none" => ends = "SignatureRejected"
    <3> HIDE DEF got, pinned
    <3>1. /\ got = Hurt(damage, 2, Answer(device))
          /\ ends = verifyM3(got, Ephemeral, publicKey(Accessory.seed), us).error
      BY DEF got, pinned
    <3> HIDE DEF ends
    <3> QED BY <3>1, VerifyComesTo
  <2> HIDE DEF got, pinned, ends
  <2>6. \A s : sessionKeys(s).read = accessoryKeys(s).write /\ sessionKeys(s).write = accessoryKeys(s).read
               /\ sessionKeys(s).write.bytes = KEY /\ accessoryKeys(s).write.bytes = KEY
    BY Kind DEF sessionKeys, accessoryKeys, hkdfSha512
  <2>7. \A text \in Plaintexts, n \in 0..MaxFrame :
          emulatorCommand(keys, n, encryptFrame(link.keys, n, text)) # text
    <3>1. link.keys.write.bytes = KEY
      BY <2>4, <2>6 DEF runPairVerify
    <3> HIDE DEF keys
    <3> QED BY <3>1, CommandsFail
  <2>8. ASSUME link.verified
        PROVE  /\ hapVerified(link.request, link.device, first, us)
               /\ \A stranger \in Controllers :
                    /\ hapVerified(As(stranger), link.device, first, us) => stranger.privateKey = us.privateKey
                    /\ emulatorVerified(As(stranger))
    <3>1. got = Answer(device)
      BY <2>4, <2>5, <2>8 DEF verified
    <3>2. hapVerified(link.request, link.device, first, us)
      BY <2>3, <2>4, <3>1, M3IsRead DEF first
    <3>3. ASSUME NEW stranger \in Controllers
          PROVE  /\ hapVerified(As(stranger), link.device, first, us) => stranger.privateKey = us.privateKey
                 /\ emulatorVerified(As(stranger))
      <4> DEFINE other == [identifier |-> us.identifier, privateKey |-> stranger.privateKey]
                 request == verifyM3(Answer(device), Ephemeral, pinned, other).request
      <4>1. other.identifier = us.identifier /\ other.privateKey = stranger.privateKey
        OBVIOUS
      <4>2. As(stranger) = request
        BY <2>2, <2>4, <3>1
      <4>3. stranger.privateKey.bytes = KEY
        BY PairingAssumption
      <4> HIDE DEF other, As
      <4>4. /\ hapVerified(request, device, publicKey(Ephemeral), us) <=> other.privateKey = us.privateKey
            /\ emulatorVerified(request)
        BY <2>3, <4>1, <4>3, M3IsRead
      <4> QED BY <2>4, <4>1, <4>2, <4>4 DEF first
    <3> HIDE DEF As
    <3> QED BY <3>2, <3>3
  <2>9. ASSUME link.verified, NEW sent \in 0..MaxFrame, NEW read \in 0..MaxFrame, NEW text \in Plaintexts
        PROVE  LET opened == decryptFrame(keys, read, encryptFrame(link.keys, sent, text))
                   back   == decryptFrame(link.keys, read, encryptFrame(keys, sent, text))
               IN  IF sent = read THEN opened = Ok(text) /\ back = Ok(text)
                   ELSE opened.error = "ForgedFrame" /\ back.error = "ForgedFrame"
    <3>1. got = Answer(device)
      BY <2>4, <2>5, <2>9 DEF verified
    <3>2. keys = accessoryKeys(Shared(device))
      BY <2>4, BothShare DEF first
    <3>3. link.keys = sessionKeys(Shared(device))
      <4>1. findItem(itemsOf(Answer(device)), "PublicKey") = publicKey(device.ephemeral)
        <5>1. itemsOf(Answer(device)) = <<Item("State", Code(2)), Item("PublicKey", publicKey(device.ephemeral)),
                                          Item("EncryptedData", SealedM2(device))>>
          BY AnswerIs, ItemsAre
        <5>2. /\ "State" # "PublicKey" /\ "State" # "EncryptedData" /\ "PublicKey" # "EncryptedData"
          OBVIOUS
        <5> QED BY <5>1, <5>2, Find3
      <4> QED BY <2>4, <3>1, <4>1, BothShare DEF runPairVerify
    <3> HIDE DEF keys
    <3>4. link.keys.write = keys.read /\ keys.write = link.keys.read
          /\ link.keys.write.bytes = KEY /\ keys.write.bytes = KEY
      BY <2>6, <3>2, <3>3
    <3>5. /\ sent = read => decryptFrame(keys, read, encryptFrame(link.keys, sent, text)) = Ok(text)
          /\ sent # read => decryptFrame(keys, read, encryptFrame(link.keys, sent, text)).error = "ForgedFrame"
      BY <3>4, FramesOpen
    <3>6. /\ sent = read => decryptFrame(link.keys, read, encryptFrame(keys, sent, text)) = Ok(text)
          /\ sent # read => decryptFrame(link.keys, read, encryptFrame(keys, sent, text)).error = "ForgedFrame"
      BY <3>4, FramesOpen
    <3> QED BY <3>5, <3>6
  <2>10. /\ link.verified <=> /\ link.device.hap /\ link.device.private = Accessory.seed
                              /\ link.got = link.answer
         /\ ~link.verified /\ link.got = link.answer => link.error = "SignatureRejected"
    BY <2>4, <2>5 DEF verified
  <2> HIDE DEF keys, As, verified
  <2> QED BY <2>7, <2>8, <2>9, <2>10
<1>2. PairingInd /\ [Next]_vars => PairingInd'
  BY PairingSteps
<1> QED BY PairingStarts, <1>1, <1>2, PTL DEF Spec

==============================================================================
