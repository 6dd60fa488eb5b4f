------------------------ MODULE AuctionRecordProofs ------------------------
(***************************************************************************)
(* Proofs about what the server's files say as long as it has not died:    *)
(* CURRENT_BID is the highest bid on file, and the two numbers of an END   *)
(* file tell the same moment.                                              *)
(*                                                                         *)
(* The first half is arithmetic: what is left of a number in a file that   *)
(* is written over without O_TRUNC.                                        *)
(***************************************************************************)
EXTENDS AuctionServerProofs, NumberLemmas

----------------------------------------------------------------------------
(***************************************************************************)
(* Digits.                                                                 *)
(***************************************************************************)

Power(k) == DigitBase^k

\* What ^ is defined by.
LEMMA PowerStep == Power(0) = 1 /\ \A k \in 0 .. 8 : Power(k + 1) = DigitBase * Power(k)
  <1>1. ASSUME NEW k \in 0 .. 8
        PROVE  DigitBase^(k + 1) = DigitBase * DigitBase^k
    <2>1. k + 1 \in 1 .. 9 /\ (k + 1) - 1 = k
      OBVIOUS
    <2>2. DigitBase^(k + 1) = DigitBase * DigitBase^((k + 1) - 1)
      BY <2>1, DigitBaseAssumption
    <2> QED BY <2>1, <2>2
  <1> QED BY <1>1, DigitBaseAssumption DEF Power

\* A power with a larger exponent is larger.
LEMMA PowersGrow ==
    /\ \A k \in 0 .. 9 : Power(k) \in Nat \ {0}
    /\ \A j, k \in 0 .. 9 : j <= k => Power(j) <= Power(k)
  <1> DEFINE Positive(k) == Power(k) \in Nat \ {0}
  <1>1. DigitBase \in Nat /\ DigitBase >= 2
    BY DigitBaseAssumption
  <1>2. \A k \in 0 .. 8 : Positive(k) => Positive(k + 1) /\ Power(k) < Power(k + 1)
    <2>1. \A x \in Nat \ {0} : DigitBase * x \in Nat \ {0} /\ x < DigitBase * x
      BY <1>1
    <2> QED BY PowerStep, <2>1
  <1>3. \A k \in 0 .. 9 : Positive(k)
    <2>1. Positive(0)
      BY PowerStep
    <2> HIDE DEF Positive
    <2>2. Positive(1) /\ Positive(2) /\ Positive(3) /\ Positive(4)
      BY <1>2, <2>1
    <2> QED BY <1>2, <2>1, <2>2
  <1>4. \A j, k \in 0 .. 9 : j <= k => Power(j) <= Power(k)
    <2>1. /\ Power(0) < Power(1) /\ Power(1) < Power(2) /\ Power(2) < Power(3)
          /\ Power(3) < Power(4) /\ Power(4) < Power(5) /\ Power(5) < Power(6)
          /\ Power(6) < Power(7) /\ Power(7) < Power(8) /\ Power(8) < Power(9)
      BY <1>2, <1>3
    <2> QED BY <1>3, <2>1
  <1> QED BY <1>3, <1>4

\* The law of exponents.
LEMMA PowersAdd ==
    \A j, k \in 0 .. 9 : j + k <= 9 => Power(j + k) = Power(j) * Power(k)
  <1> DEFINE Adds(k) == \A j \in 0 .. 9 : j + k <= 9 => Power(j + k) = Power(j) * Power(k)
  <1>1. \A k \in 0 .. 8 : Adds(k) => Adds(k + 1)
    <2> SUFFICES ASSUME NEW k \in 0 .. 8, Adds(k), NEW j \in 0 .. 9, j + (k + 1) <= 9
                 PROVE  Power(j + (k + 1)) = Power(j) * Power(k + 1)
      OBVIOUS
    <2>1. j + k \in 0 .. 8 /\ j + (k + 1) = (j + k) + 1
      OBVIOUS
    <2>2. Power((j + k) + 1) = DigitBase * Power(j + k)
      BY <2>1, PowerStep
    <2>3. Power(j + k) = Power(j) * Power(k)
      BY <2>1
    <2>4. \A x, y, z \in Nat : x * (y * z) = y * (x * z)
      OBVIOUS
    <2>5. DigitBase * (Power(j) * Power(k)) = Power(j) * (DigitBase * Power(k))
      <3>1. Power(j) \in Nat /\ Power(k) \in Nat
        BY PowersGrow
      <3> QED BY DigitBaseAssumption, <2>4, <3>1
    <2> QED BY PowerStep, <2>1, <2>2, <2>3, <2>5
  <1>2. \A k \in 0 .. 9 : Adds(k)
    <2>1. Adds(0)
      BY PowerStep, PowersGrow
    <2> HIDE DEF Adds
    <2>2. Adds(1) /\ Adds(2) /\ Adds(3) /\ Adds(4)
      BY <1>1, <2>1
    <2> QED BY <1>1, <2>1, <2>2
  <1> QED BY <1>2

\* The powers between two numbers, which are the digits the second has more.
Between(n, s) == {k \in 1 .. 9 : n < Power(k) /\ Power(k) <= s}

\* There are at most nine.
LEMMA BetweenCount ==
    ASSUME NEW n \in Nat, NEW s \in Nat
    PROVE  IsFiniteSet(Between(n, s)) /\ Cardinality(Between(n, s)) \in 0 .. 9
  <1>1. IsFiniteSet(1 .. 9) /\ Cardinality(1 .. 9) = 9
    <2>1. 1 \in Int /\ 9 \in Int /\ 1 <= 9 + 1 /\ 9 - 1 + 1 = 9
      OBVIOUS
    <2> QED BY <2>1, IntervalCardinality
  <1>2. Between(n, s) \in SUBSET (1 .. 9)
    BY DEF Between
  <1>3. /\ IsFiniteSet(Between(n, s))
        /\ Cardinality(Between(n, s)) \in Nat
        /\ Cardinality(Between(n, s)) <= 9
    BY <1>1, <1>2, FS_Subset, FS_CardinalityType
  <1> QED BY <1>3

\* rewritten (db.c:656) in these terms.
LEMMA RewrittenBetween ==
    ASSUME NEW end \in EndInfo, end.elapsed \in Nat, NEW n \in Nat
    PROVE  LET more == Cardinality(Between(n, end.elapsed))
           IN  rewritten(end, n) = n * Power(more) + (end.elapsed % Power(more))
  <1>1. ~ (end = NoFile \/ end.elapsed = Blank)
    BY FileAssumption
  <1> QED BY <1>1, Zenon DEF rewritten, Between, Power

\* What is written over a number that is not larger replaces it.
LEMMA RewrittenShorter ==
    ASSUME NEW end \in EndInfo, end.elapsed \in Nat, NEW n \in Nat, end.elapsed <= n
    PROVE  rewritten(end, n) = n
  <1>1. Between(n, end.elapsed) = {}
    <2>1. \A k \in 1 .. 9 : Power(k) \in Nat
      BY PowersGrow
    <2> QED BY <2>1 DEF Between
  <1>2. rewritten(end, n) = n * Power(0) + (end.elapsed % Power(0))
    BY <1>1, FS_EmptySet, RewrittenBetween
  <1>3. Power(0) = 1
    BY PowerStep
  <1>4. \A e \in Nat : n * 1 + (e % 1) = n
    OBVIOUS
  <1> QED BY <1>2, <1>3, <1>4, Zenon

\* Division by p of a number that is written as n times p and a rest.
LEMMA Division ==
    ASSUME NEW n \in Nat, NEW p \in Nat \ {0}, NEW r \in 0 .. (p - 1)
    PROVE  LET R == n * p + r
           IN  R \in Nat /\ R % p = r /\ n * p <= R /\ R < (n + 1) * p
  OBVIOUS

\* What a number other than 0 makes of a longer one has as many digits.
LEMMA BetweenAgain ==
    ASSUME NEW s \in Nat, NEW n \in Nat \ {0}
    PROVE  LET m == Cardinality(Between(n, s))
               R == n * Power(m) + (s % Power(m))
           IN  /\ R \in Nat
               /\ R % Power(m) = s % Power(m)
               /\ Between(n, R) = Between(n, s)
  <1> DEFINE K == Between(n, s)
             m == Cardinality(K)
             rest == s % Power(m)
             R == n * Power(m) + rest
  <1>1. m \in 0 .. 9
    BY BetweenCount
  <1>2. Power(m) \in Nat \ {0}
    BY <1>1, PowersGrow
  <1>4. rest \in 0 .. (Power(m) - 1)
    <2> HIDE DEF m
    <2> QED BY <1>2
  <1>5. R \in Nat /\ R % Power(m) = rest /\ n * Power(m) <= R /\ R < (n + 1) * Power(m)
    <2> HIDE DEF m, rest
    <2> QED BY <1>2, <1>4, Division
  <1>6. Between(n, R) = K
    <2>1. CASE K = {}
      <3>1. Power(m) = 1
        BY <2>1, FS_EmptySet, PowerStep
      <3>2. R = n
        <4> HIDE DEF m, rest
        <4> QED BY <3>1, <1>4
      <3> QED BY <2>1, <3>2, PowersGrow DEF Between
    <2>2. CASE K # {}
      <3>0. K \in SUBSET Nat /\ \A k \in K : k <= 9
        BY DEF Between
      <3>1. PICK i \in K : \A k \in K : i <= k
        BY <2>2, <3>0, LeastNatural
      <3>2. PICK j \in K : \A k \in K : k <= j
        <4>1. 9 \in Nat
          OBVIOUS
        <4> QED BY <2>2, <3>0, <4>1, GreatestNatural
      <3>3. i \in 1 .. 9 /\ j \in 1 .. 9 /\ i <= j
        BY <3>0, <3>1, <3>2 DEF Between
      <3>4. K = i .. j
        <4>1. K \subseteq i .. j
          BY <3>0, <3>1, <3>2
        <4>2. ASSUME NEW k \in i .. j PROVE k \in K
          <5>1. k \in 1 .. 9 /\ (k = i \/ i < k) /\ (k = j \/ k < j)
            BY <3>3
          <5>2. Power(i) <= Power(k) /\ Power(k) <= Power(j) /\ Power(i) \in Nat /\ Power(j) \in Nat /\ Power(k) \in Nat
            BY <3>3, <5>1, PowersGrow
          <5>3. n < Power(i) /\ Power(j) <= s
            BY DEF Between
          <5>4. n < Power(k) /\ Power(k) <= s
            BY <5>2, <5>3
          <5> QED BY <5>1, <5>4 DEF Between
        <4> QED BY <4>1, <4>2
      <3>5. m = j - i + 1
        BY <3>3, <3>4, IntervalCardinality
      <3>6. Power(i - 1) <= n
        <4>1. CASE i = 1
          BY <4>1, PowerStep
        <4>2. CASE i # 1
          <5>1. i - 1 \in 1 .. 9 /\ i - 1 < i /\ i - 1 \in 0 .. 9 /\ i \in 0 .. 9
            BY <3>3, <4>2
          <5>2. i - 1 \notin K
            BY <3>0, <3>1, <3>3
          <5>3. Power(i - 1) <= Power(i) /\ Power(i) <= s /\ Power(i - 1) \in Nat /\ Power(i) \in Nat
            <6>1. i \in K
              BY <3>1
            <6>2. Power(i) <= s
              BY <6>1 DEF Between
            <6> QED BY <5>1, <6>2, PowersGrow
          <5>4. ~ (n < Power(i - 1))
            BY <5>1, <5>2, <5>3 DEF Between
          <5> QED BY <5>3, <5>4
        <4> QED BY <4>1, <4>2
      <3>7. Power(j) <= R
        <4>1. Power(j) = Power(i - 1) * Power(m)
          <5>1. i - 1 \in 0 .. 9 /\ m \in 0 .. 9 /\ (i - 1) + m = j
            BY <3>3, <3>5
          <5> HIDE DEF m
          <5> DEFINE h == i - 1
          <5>2. Power(h + m) = Power(h) * Power(m)
            <6>1. h \in 0 .. 9 /\ m \in 0 .. 9 /\ h + m <= 9
              BY <3>3, <5>1
            <6> HIDE DEF h
            <6> QED BY <6>1, PowersAdd
          <5> QED BY <5>1, <5>2
        <4>2. Power(i - 1) \in Nat
          BY <3>3, PowersGrow
        <4> HIDE DEF m, rest
        <4>3. Power(i - 1) * Power(m) <= n * Power(m)
          BY <4>2, <3>6, <1>2
        <4> QED BY <4>1, <4>2, <4>3, <1>2, <1>5
      <3>8. ASSUME NEW k \in 1 .. 9, j < k PROVE R < Power(k)
        <4>1. i + m = j + 1 /\ i \in 0 .. 9 /\ m \in 0 .. 9 /\ j + 1 \in 0 .. 9
          BY <3>3, <3>5, <3>8
        <4>2. Power(j + 1) = Power(i) * Power(m) /\ Power(i) \in Nat
          <5>1. Power(i + m) = Power(i) * Power(m)
            <6> HIDE DEF m
            <6> QED BY <4>1, PowersAdd
          <5> QED BY <4>1, <5>1, PowersGrow
        <4>3. n + 1 <= Power(i)
          <5>1. n < Power(i)
            BY <3>1 DEF Between
          <5> QED BY <5>1, <4>2
        <4>4. Power(j + 1) <= Power(k) /\ Power(k) \in Nat /\ Power(j + 1) \in Nat
          <5>1. j + 1 \in 0 .. 9 /\ k \in 0 .. 9 /\ j + 1 <= k
            BY <3>3, <3>8
          <5> QED BY <5>1, PowersGrow
        <4> HIDE DEF m, rest
        <4>5. (n + 1) * Power(m) <= Power(i) * Power(m)
          BY <4>2, <4>3, <1>2
        <4> QED BY <4>2, <4>4, <4>5, <1>2, <1>5
      <3>9. ASSUME NEW k \in 1 .. 9 PROVE k \in K <=> (n < Power(k) /\ Power(k) <= R)
        <4>1. CASE k \in i .. j
          <5>1. k \in K /\ n < Power(k)
            BY <4>1, <3>4 DEF Between
          <5>2. Power(k) <= Power(j) /\ Power(k) \in Nat /\ Power(j) \in Nat
            <6>1. k \in 0 .. 9 /\ j \in 0 .. 9 /\ k <= j
              BY <3>3, <4>1
            <6> QED BY <6>1, PowersGrow
          <5> HIDE DEF R
          <5> QED BY <5>1, <5>2, <3>7, <1>5
        <4>2. CASE k < i
          <5>1. k \notin K
            BY <4>2, <3>0, <3>1, <3>3
          <5>2. Power(k) <= Power(i - 1) /\ Power(k) \in Nat /\ Power(i - 1) \in Nat
            <6>1. k \in 0 .. 9 /\ i - 1 \in 0 .. 9 /\ k <= i - 1
              BY <3>3, <4>2
            <6> QED BY <6>1, PowersGrow
          <5> QED BY <5>1, <5>2, <3>6
        <4>3. CASE j < k
          <5>1. k \notin K
            BY <4>3, <3>0, <3>2, <3>3
          <5>2. R < Power(k) /\ Power(k) \in Nat
            <6>1. k \in 0 .. 9
              OBVIOUS
            <6> HIDE DEF R
            <6> QED BY <4>3, <6>1, <3>8, PowersGrow
          <5> HIDE DEF R
          <5> QED BY <5>1, <5>2, <1>5
        <4> QED BY <3>3, <4>1, <4>2, <4>3
      <3> QED BY <3>0, <3>9 DEF Between
    <2> QED BY <2>1, <2>2
  <1> QED BY <1>5, <1>6, Zenon

\* Writing a number other than 0 once more over what it left of a longer one
\* changes nothing.
LEMMA RewrittenAgain ==
    ASSUME NEW first \in EndInfo, first.elapsed \in Nat, NEW n \in Nat \ {0},
           NEW second \in EndInfo, second.elapsed = rewritten(first, n)
    PROVE  rewritten(second, n) = rewritten(first, n)
  <1> DEFINE m == Cardinality(Between(n, first.elapsed))
             R == n * Power(m) + (first.elapsed % Power(m))
  <1>1. rewritten(first, n) = R
    BY RewrittenBetween
  <1>2. R \in Nat /\ R % Power(m) = first.elapsed % Power(m)
        /\ Between(n, R) = Between(n, first.elapsed)
    BY BetweenAgain
  <1> DEFINE more == Cardinality(Between(n, second.elapsed))
  <1>3. rewritten(second, n) = n * Power(more) + (second.elapsed % Power(more))
    BY <1>1, <1>2, RewrittenBetween
  <1>4. more = m /\ second.elapsed % Power(more) = first.elapsed % Power(m)
    <2> HIDE DEF R
    <2> QED BY <1>1, <1>2
  <1> QED BY <1>1, <1>3, <1>4, Zenon

\* What 0 makes of a number is not larger.
LEMMA RewrittenZero ==
    ASSUME NEW end \in EndInfo, end.elapsed \in Nat
    PROVE  rewritten(end, 0) <= end.elapsed
  <1> DEFINE p == Power(Cardinality(Between(0, end.elapsed)))
  <1>1. rewritten(end, 0) = 0 * p + (end.elapsed % p)
    BY RewrittenBetween
  <1>2. p \in Nat \ {0}
    BY BetweenCount, PowersGrow
  <1> HIDE DEF p
  <1>3. \A e \in Nat : 0 * p + (e % p) <= e
    BY <1>2
  <1> QED BY <1>1, <1>3

\* The date of an END file has no part in it.
LEMMA RewrittenSame ==
    ASSUME NEW e \in EndInfo, NEW f \in EndInfo, e.elapsed \in Nat,
           f.elapsed = e.elapsed, NEW n \in Nat
    PROVE  rewritten(e, n) = rewritten(f, n)
  BY RewrittenBetween

----------------------------------------------------------------------------
(***************************************************************************)
(* The END file.                                                           *)
(***************************************************************************)

\* EndRecordAgrees says this of each auction that was announced.
EndAgrees(end, info) ==
    LET planned == info.duration
        late == {[time |-> info.time + s, elapsed |-> s] :
                    s \in (planned + 1) .. (planned + Lag)}
    IN  /\ end.elapsed \in Nat
        /\ \/ /\ end.time = info.time + end.elapsed
              /\ end.elapsed <= planned + Lag
           \/ /\ end.time = info.time + planned
              /\ end.elapsed \in {rewritten(e, planned) : e \in late}

\* The planned end may be written over any record of that kind, its own
\* included, any number of times (db.c:685).
LEMMA PlannedAgrees ==
    ASSUME NEW info \in StartInfo, NEW end \in EndInfo \cup {NoFile},
           end # NoFile => EndAgrees(end, info)
    PROVE  EndAgrees([time |-> info.time + info.duration,
                      elapsed |-> rewritten(end, info.duration)], info)
  <1> DEFINE P == info.duration
             R == rewritten(end, P)
             new == [time |-> info.time + P, elapsed |-> R]
             lateEnd(s) == [time |-> info.time + s, elapsed |-> s]
             late == {lateEnd(s) : s \in (P + 1) .. (P + Lag)}
  <1>1. P \in Nat /\ info.time \in Nat /\ Lag \in Nat
    BY DurationsAssumption, LagAssumption DEF StartInfo
  <1>2. R \in Nat
    BY <1>1, RewrittenGrows
  <1>3. CASE R = P
    BY <1>1, <1>3 DEF EndAgrees
  <1>4. ASSUME NEW s \in (P + 1) .. (P + Lag), R = rewritten(lateEnd(s), P)
        PROVE  EndAgrees(new, info)
    <2>1. lateEnd(s) \in late
      OBVIOUS
    <2>2. R \in {rewritten(e, P) : e \in late}
      BY <1>4, <2>1
    <2> HIDE DEF R
    <2> QED BY <1>2, <2>2 DEF EndAgrees
  <1>5. CASE end = NoFile
    BY <1>3, <1>5 DEF rewritten
  <1>6. CASE /\ end # NoFile
             /\ end.time = info.time + end.elapsed
             /\ end.elapsed \in Nat
             /\ end.elapsed <= P + Lag
    <2>1. CASE end.elapsed <= P
      BY <1>1, <1>3, <1>6, <2>1, RewrittenShorter
    <2>2. CASE end.elapsed > P
      <3>1. end = lateEnd(end.elapsed)
        BY <1>6 DEF EndInfo
      <3>2. end.elapsed \in (P + 1) .. (P + Lag)
        BY <1>1, <1>6, <2>2
      <3>3. PICK s \in (P + 1) .. (P + Lag) : end = lateEnd(s)
        BY <3>1, <3>2
      <3>4. R = rewritten(lateEnd(s), P)
        BY <3>3
      <3> QED BY <1>4, <3>4
    <2> QED BY <1>1, <1>6, <2>1, <2>2
  <1>7. CASE /\ end # NoFile
             /\ end.elapsed \in Nat
             /\ end.elapsed \in {rewritten(e, P) : e \in late}
    <2>1. PICK s \in (P + 1) .. (P + Lag) : end.elapsed = rewritten(lateEnd(s), P)
      BY <1>7
    <2>2. s \in Nat /\ P < s /\ lateEnd(s) \in EndInfo /\ lateEnd(s).elapsed = s
      BY <1>1 DEF EndInfo
    <2>3. CASE P # 0
      <3>1. R = rewritten(lateEnd(s), P)
        BY <1>1, <1>7, <2>1, <2>2, <2>3, RewrittenAgain
      <3> QED BY <1>4, <3>1
    \* The digit that was left of s counts as a closing so much too late.
    <2>4. CASE P = 0
      <3>1. end.elapsed <= s
        BY <2>1, <2>2, <2>4, RewrittenZero
      <3>2. CASE end.elapsed = 0
        BY <1>1, <1>3, <1>7, <2>4, <3>2, RewrittenShorter
      <3>3. CASE end.elapsed # 0
        <4> DEFINE r == end.elapsed
        <4>1. r \in (P + 1) .. (P + Lag)
          BY <1>1, <1>7, <2>2, <2>4, <3>1, <3>3
        <4>2. R = rewritten(lateEnd(r), P)
          <5>1. lateEnd(r) \in EndInfo /\ lateEnd(r).elapsed = r
            BY <1>1, <1>7, <4>1 DEF EndInfo
          <5> QED BY <1>1, <1>7, <5>1, RewrittenSame
        <4> HIDE DEF r
        <4>3. PICK q \in (P + 1) .. (P + Lag) : R = rewritten(lateEnd(q), P)
          BY <4>1, <4>2
        <4> QED BY <1>4, <4>3
      <3> QED BY <3>2, <3>3
    <2> QED BY <2>3, <2>4
  <1>8. end # NoFile => end \in EndInfo /\ EndAgrees(end, info)
    OBVIOUS
  <1> QED BY <1>5, <1>6, <1>7, <1>8 DEF EndAgrees

----------------------------------------------------------------------------
(***************************************************************************)
(* The inductive invariant: the tree of a server that has not died.        *)
(***************************************************************************)

CrashFree ==
    /\ crashes = 0 => DirsWhole(disk)
    /\ CurrentBidIsHighest
    /\ EndRecordAgrees

\* CurrentBidIsHighest says this of each auction that was announced.
Highest(d, x) ==
    LET bidden == {v \in Values : d.bids[x.aid][v] # NoFile}
    IN  /\ d.current[x.aid] \in bidden \cup {x.info.value}
        /\ \A v \in bidden : v <= d.current[x.aid]

\* A server that has not died had not died before.
LEMMA StillCrashFree ==
    ASSUME Inv, CrashFree, [Next]_vars, crashes' = 0
    PROVE  /\ Step /\ Readable
           /\ DirsWhole(disk)
           /\ \A x \in announced : Highest(disk, x)
           /\ \A x \in announced :
                  disk.end[x.aid] # NoFile => EndAgrees(disk.end[x.aid], x.info)
  <1>1. Step /\ Readable
    BY NextStep DEF Inv
  <1>2. crashes = 0
    <2>1. crashes \in Nat
      BY <1>1 DEF Readable, TypeOK
    <2> QED BY <1>1, <2>1, ProcessEffect
  <1>3. \A x \in announced : Highest(disk, x)
    BY <1>2 DEF CrashFree, CurrentBidIsHighest, Highest
  <1>4. \A x \in announced :
            disk.end[x.aid] # NoFile => EndAgrees(disk.end[x.aid], x.info)
    BY <1>2 DEF CrashFree, EndRecordAgrees, EndAgrees
  <1> QED BY <1>1, <1>2, <1>3, <1>4 DEF CrashFree

\* BIDDED stays beside every user's directory (db.c:79).
LEMMA DirsPreserved ==
    ASSUME Inv, CrashFree, [Next]_vars, crashes' = 0
    PROVE  DirsWhole(disk')
  <1>1. Step /\ DirsWhole(disk)
    BY StillCrashFree
  <1>2. CASE IdleStep
    BY <1>1, <1>2 DEF IdleStep
  <1>3. CASE AccountStep
    BY <1>1, <1>3 DEF AccountStep
  <1>4. CASE SameAccounts(disk, disk')
    BY <1>1, <1>4 DEF SameAccounts, DirsWhole
  <1>5. CASE CloseStep
    BY <1>4, <1>5 DEF CloseStep, ClosesAuctions
  <1>6. ASSUME NEW a \in Aids, NEW info \in StartInfo, OpenStep(a, info)
        PROVE  DirsWhole(disk')
    BY <1>4, <1>6 DEF OpenStep, OpensAuction
  <1>7. ASSUME NEW u \in Users, NEW a \in Aids, NEW v \in Values, BidStep(u, a, v)
        PROVE  DirsWhole(disk')
    BY <1>4, <1>7 DEF BidStep, FilesBid
  <1> QED BY <1>1, <1>2, <1>3, <1>5, <1>6, <1>7, Zenon DEF Step

\* A bid that was answered has raised CURRENT_BID over every bid on file
\* (db.c:916).
LEMMA HighestPreserved ==
    ASSUME Inv, CrashFree, [Next]_vars, crashes' = 0, NEW x \in announced'
    PROVE  Highest(disk', x)
  <1>1. /\ Step /\ Readable
        /\ DirsWhole(disk)
        /\ \A y \in announced : Highest(disk, y)
    BY StillCrashFree
  <1>2. \A y \in announced : y.aid \in Aids /\ y.aid \in disk.auction
    BY AnnouncedReads
  <1>3. CASE QuietStep \/ CloseStep
    BY <1>1, <1>3 DEF QuietStep, CloseStep, ClosesAuctions, SameAuctions, promises, Highest
  <1>4. ASSUME NEW a \in Aids, NEW info \in StartInfo, OpenStep(a, info)
        PROVE  Highest(disk', x)
    <2>1. /\ a \notin disk.auction
          /\ disk'.bids = disk.bids
          /\ \A b \in Aids \ {a} : disk'.current[b] = disk.current[b]
      BY <1>4 DEF OpenStep, OpensAuction
    <2>2. CASE x \in announced
      BY <1>1, <1>2, <2>1, <2>2 DEF Highest
    <2>3. CASE x \notin announced
      <3>1. x = [aid |-> a, info |-> info] /\ disk'.current[a] = info.value
        BY <1>4, <2>3 DEF OpenStep
      <3>2. \A v \in Values : disk'.bids[a][v] = NoFile
        BY <1>1, <2>1 DEF Readable, UnusedAids
      <3> QED BY <3>1, <3>2 DEF Highest
    <2> QED BY <2>2, <2>3
  <1>5. ASSUME NEW u \in Users, NEW a \in Aids, NEW v \in Values, BidStep(u, a, v)
        PROVE  Highest(disk', x)
    <2>1. /\ x \in announced
          /\ v > get_current_bid(disk, a)
          /\ disk'.bids[a][v] \in BidInfo
          /\ disk'.current[a] = v
          /\ \A b \in Aids \ {a} : disk'.current[b] = disk.current[b]
          /\ \A b \in Aids, w \in Values : b # a \/ w # v => disk'.bids[b][w] = disk.bids[b][w]
      BY <1>1, <1>5 DEF BidStep, FilesBid
    <2>2. CASE x.aid # a
      BY <1>1, <1>2, <2>1, <2>2 DEF Highest
    <2>3. CASE x.aid = a
      <3>1. disk.current[a] \in Nat /\ v \in Nat
        BY <2>1, <2>3, ValuesAssumption DEF Inv, AnnouncedAuctionStands
      <3>2. disk.current[a] < v \/ disk.current[a] = 0
        BY <2>1, <3>1, FileAssumption DEF get_current_bid
      <3>3. \A w \in Values : disk.bids[a][w] # NoFile => w <= disk.current[a]
        BY <1>1, <2>1, <2>3 DEF Highest
      <3>4. \A w \in Values : disk'.bids[a][w] # NoFile => w <= v
        BY <2>1, <3>1, <3>2, <3>3, ValuesAssumption
      <3>5. disk'.bids[a][v] # NoFile
        BY <2>1, FileAssumption
      <3> QED BY <2>1, <2>3, <3>4, <3>5 DEF Highest
    <2> QED BY <2>2, <2>3
  <1> QED BY <1>1, <1>3, <1>4, <1>5, StepCases

\* Whoever closes an auction, and however often, its record agrees (db.c:656,
\* db.c:685).
LEMMA EndAgreesPreserved ==
    ASSUME Inv, CrashFree, [Next]_vars, crashes' = 0, NEW x \in announced',
           disk'.end[x.aid] # NoFile
    PROVE  EndAgrees(disk'.end[x.aid], x.info)
  <1>1. /\ Step /\ Readable
        /\ \A y \in announced :
               disk.end[y.aid] # NoFile => EndAgrees(disk.end[y.aid], y.info)
    BY StillCrashFree
  <1>2. CASE x \in announced /\ disk'.end = disk.end
    BY <1>1, <1>2
  <1>3. CASE CloseStep
    <2>1. x \in announced /\ RecordsEnds(disk, disk', now')
      BY <1>3 DEF CloseStep, promises
    <2>2. /\ x.aid \in Aids
          /\ x.info \in StartInfo
          /\ x.info.time \in Nat
          /\ x.info.duration \in Nat
          /\ auction_parse_info(disk, x.aid) = x.info
          /\ deadline(disk, x.aid) = x.info.time + x.info.duration
          /\ x.info.time <= now
      BY <2>1, AnnouncedReads
    <2>3. disk.end[x.aid] \in EndInfo \cup {NoFile}
      BY <1>1, <2>2, SoundAccounts DEF Tree
    <2>4. CASE disk'.end[x.aid] = disk.end[x.aid]
      BY <1>1, <2>1, <2>4
    <2>5. CASE disk'.end[x.aid] =
                   [time |-> x.info.time + x.info.duration,
                    elapsed |-> rewritten(disk.end[x.aid], x.info.duration)]
      BY <1>1, <2>1, <2>2, <2>3, <2>5, PlannedAgrees
    <2>6. CASE /\ now' <= x.info.time + x.info.duration + Lag
               /\ disk'.end[x.aid] = [time |-> now', elapsed |-> now' - x.info.time]
      <3>1. now' \in Nat /\ now <= now' /\ now \in Nat
        BY <1>1, StepClock, SoundAccounts
      <3>2. now' - x.info.time \in Nat
        BY <2>2, <3>1
      <3>3. now' - x.info.time <= x.info.duration + Lag
        BY <2>2, <2>6, <3>1, LagAssumption
      <3>4. now' = x.info.time + (now' - x.info.time)
        BY <2>2, <3>1
      <3> QED BY <2>6, <3>2, <3>3, <3>4 DEF EndAgrees
    <2> QED BY <2>1, <2>2, <2>4, <2>5, <2>6 DEF RecordsEnds
  <1>4. ASSUME NEW a \in Aids, NEW info \in StartInfo, OpenStep(a, info)
        PROVE  x \in announced /\ disk'.end = disk.end
    <2>1. disk'.end = disk.end /\ disk.end[a] = NoFile
      BY <1>1, <1>4 DEF OpenStep, OpensAuction, Readable, UnusedAids
    <2> QED BY <1>4, <2>1 DEF OpenStep
  <1>5. ASSUME NEW u \in Users, NEW a \in Aids, NEW v \in Values, BidStep(u, a, v)
        PROVE  x \in announced /\ disk'.end = disk.end
    BY <1>5 DEF BidStep, FilesBid
  <1>6. QuietStep => x \in announced /\ disk'.end = disk.end
    BY DEF QuietStep
  <1> QED BY <1>1, <1>2, <1>3, <1>4, <1>5, <1>6, StepCases

\* The invariant is inductive, next to Inv.
LEMMA CrashFreeInv ==
    /\ Init => CrashFree
    /\ Inv /\ CrashFree /\ [Next]_vars => CrashFree'
  <1>1. Init => CrashFree
    BY DEF Init, create_defaults, CrashFree, DirsWhole, CurrentBidIsHighest, EndRecordAgrees
  <1>2. ASSUME Inv, CrashFree, [Next]_vars
        PROVE  CrashFree'
    <2>1. crashes' = 0 => DirsWhole(disk')
      BY <1>2, DirsPreserved
    <2>2. CurrentBidIsHighest'
      <3>1. crashes' = 0 => \A x \in announced' : Highest(disk', x)
        BY <1>2, HighestPreserved
      <3> QED BY <3>1 DEF CurrentBidIsHighest, Highest
    <2>3. EndRecordAgrees'
      <3>1. crashes' = 0 =>
                \A x \in announced' :
                    disk'.end[x.aid] # NoFile => EndAgrees(disk'.end[x.aid], x.info)
        BY <1>2, EndAgreesPreserved
      <3> QED BY <3>1 DEF EndRecordAgrees, EndAgrees
    <2> QED BY <2>1, <2>2, <2>3 DEF CrashFree
  <1> QED BY <1>1, <1>2

\* CrashFree holds in every state.
LEMMA CrashFreeInvariance == Spec => []CrashFree
  <1> QED BY CrashFreeInv, Invariance, PTL DEF Spec

\* As long as the server has not died, CURRENT_BID is the highest bid on file
\* (db.c:191, db.c:916).
THEOREM CurrentBidsAreHighest == Spec => []CurrentBidIsHighest
  <1>1. CrashFree => CurrentBidIsHighest
    BY DEF CrashFree
  <1> QED BY <1>1, CrashFreeInvariance, PTL

\* As long as the server has not died, the date and the duration of an END file
\* agree, however often it is written over (db.c:656).
THEOREM EndRecordsAgree == Spec => []EndRecordAgrees
  <1>1. CrashFree => EndRecordAgrees
    BY DEF CrashFree
  <1> QED BY <1>1, CrashFreeInvariance, PTL

============================================================================
