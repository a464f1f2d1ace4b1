------------------------ MODULE AuthorisationProofs -------------------------
(***************************************************************************)
(* What infra/auth makes of the answers of the authentication service, for *)
(* every answer: the limit of a product, the modes of an access string and *)
(* the scope that the active licences open.  Each is a loop, and each      *)
(* proof an induction over its turns.                                      *)
(***************************************************************************)
EXTENDS LayoutProofs, SequenceTheorems

-----------------------------------------------------------------------------
(* The limit of a product.                                                 *)

\* The loop over the grants, turn by turn.
LEMMA LimitLoop ==
    ASSUME NEW license \in Seq(Grants), NEW product
    PROVE  \E g : /\ g \in [0..Len(license) -> Int] /\ g[0] = 0
                  /\ \A i \in 1..Len(license) : g[i] = largerLimit(g[i - 1], license[i], product)
                  /\ ProductLimit(license, product) = g[Len(license)]
<1> DEFINE n == Len(license)
           Op(limitMax, grant) == largerLimit(limitMax, grant, product)
           step == [p \in (1..n) \X Int |-> Op(p[2], license[p[1]])]
           Body(f) == [s \in SUBSET (DOMAIN license) |->
                          IF s = {} THEN 0 ELSE Op(f[s \ {Max(s)}], license[Max(s)])]
           iter == CHOOSE f : f = Body(f)
           g == [i \in 0..n |-> iter[1..i]]
<1>1. n \in Nat /\ DOMAIN license = 1..n
  OBVIOUS
<1>2. step \in [(1..n) \X Int -> Int]
  <2>1. ASSUME NEW i \in 1..n, NEW a \in Int
        PROVE  Op(a, license[i]) \in Int
    <3>1. license[i] \in Grants
      OBVIOUS
    <3> QED BY <3>1 DEF largerLimit, Grants
  <2> HIDE DEF n, Op
  <2> QED BY <2>1
<1>3. PICK f : LoopOf(f, n, Int, 0, step)
  <2>1. 0 \in Int
    OBVIOUS
  <2> HIDE DEF step, n
  <2> QED BY <1>1, <1>2, <2>1, LoopRuns
<1>4. f = Body(f)
  <2>1. ASSUME NEW s \in SUBSET (1..n)
        PROVE  f[s] = IF s = {} THEN 0 ELSE Op(f[s \ {Max(s)}], license[Max(s)])
    <3> HIDE DEF Op, n
    <3> QED BY <1>1, <1>3 DEF LoopOf
  <2> HIDE DEF Op, n
  <2> QED BY <1>1, <1>3, <2>1 DEF LoopOf
<1>5. iter = Body(iter)
  <2> HIDE DEF Body
  <2> QED BY <1>4, Zenon
<1>6. ProductLimit(license, product) = iter[1..n]
  BY <1>1 DEF ProductLimit, FoldLeft, MapThenFoldSet
<1> HIDE DEF iter, n, step, Op
<1>7. {} \in SUBSET (1..n) /\ 1..0 = {}
  OBVIOUS
<1>8. iter[1..0] = 0
  BY <1>1, <1>5, <1>7
<1>9. ASSUME NEW i \in 1..n
      PROVE  iter[1..i] = Op(iter[1..(i - 1)], license[i])
  <2>1. /\ 1..i \in SUBSET (1..n) /\ 1..i # {}
        /\ Max(1..i) = i /\ (1..i) \ {i} = 1..(i - 1)
    BY <1>1, Passed
  <2> QED BY <1>1, <1>5, <2>1
<1>10. \A i \in 0..n : iter[1..i] \in Int
  <2> DEFINE S == {i \in 0..n : iter[1..i] \in Int}
  <2>1. 0 \in S
    BY <1>1, <1>3, <1>8 DEF LoopOf
  <2>2. ASSUME NEW k \in 0..(n - 1), k \in S
        PROVE  k + 1 \in S
    <3>1. k + 1 \in 1..n /\ (k + 1) - 1 = k
      BY <1>1
    <3>2. iter[1..(k + 1)] = Op(iter[1..k], license[k + 1])
      BY <1>9, <3>1
    <3>3. step[<<k + 1, iter[1..k]>>] = Op(iter[1..k], license[k + 1])
      BY <2>2, <3>1 DEF step
    <3> QED BY <1>1, <1>2, <2>2, <3>1, <3>2, <3>3
  <2>3. \A k \in 0..n : k \in S
    <3> HIDE DEF S
    <3> QED BY <1>1, <2>1, <2>2, UpTo
  <2> QED BY <2>3
<1>11. /\ g \in [0..n -> Int] /\ g[0] = 0 /\ g[n] = iter[1..n]
       /\ \A i \in 1..n : g[i] = Op(g[i - 1], license[i])
  BY <1>1, <1>8, <1>9, <1>10
<1> QED
  BY <1>6, <1>11 DEF n, Op

\* What the test of ProductLimit accepts: no error, or the single one that is ignored.
LEMMA UsableMeans ==
    ASSUME NEW grant \in Grants
    PROVE  usable(grant) <=> /\ Len(grant.errors) <= 1
                            /\ Range(grant.errors) \subseteq {"product exhausted"}
<1> DEFINE errors == grant.errors
           n == Len(errors)
<1>1. errors \in Seq(STRING) /\ n \in Nat /\ DOMAIN errors = 1..n
  BY DEF Grants
<1>2. usable(grant) <=> errors = <<>> \/ errors = <<"product exhausted">>
  BY DEF usable
<1> HIDE DEF errors
<1>3. ASSUME errors = <<>> PROVE n <= 1 /\ Range(errors) \subseteq {"product exhausted"}
  BY <1>3 DEF Range
<1>4. ASSUME errors = <<"product exhausted">>
      PROVE  n <= 1 /\ Range(errors) \subseteq {"product exhausted"}
  <2>1. n = 1
    BY <1>4
  <2>2. errors[1] = "product exhausted"
    BY <1>4
  <2> HIDE DEF n
  <2>3. DOMAIN errors = {1}
    BY <1>1, <2>1
  <2>4. Range(errors) = {errors[1]}
    BY <2>3 DEF Range
  <2>5. n <= 1
    BY <2>1
  <2> QED BY <2>2, <2>4, <2>5
<1>5. ASSUME n <= 1, Range(errors) \subseteq {"product exhausted"}
      PROVE  errors = <<>> \/ errors = <<"product exhausted">>
  <2>0. n <= 1
    BY <1>5
  <2>1. CASE n = 0
    BY <1>1, <2>1
  <2>2. CASE n = 1
    <3>1. 1 \in DOMAIN errors
      BY <1>1, <2>2
    <3>2. errors[1] \in Range(errors)
      BY <3>1 DEF Range
    <3>3. errors[1] = "product exhausted"
      BY <1>5, <3>2
    <3>4. errors = <<errors[1]>>
      BY <1>1, <2>2
    <3> QED BY <3>3, <3>4
  <2>3. n = 0 \/ n = 1
    <3> HIDE DEF n
    <3> QED BY <1>1, <2>0
  <2> QED BY <2>1, <2>2, <2>3
<1> QED
  BY <1>2, <1>3, <1>4, <1>5 DEF errors

\* For every list of grants, ProductLimit answers the largest remainder of the usable
\* grants of the product, and 0, which it reports as an error, if none is positive.
THEOREM LimitIsExact == Spec => []LimitExact
<1>1. Init => LimitExact
  <2> SUFFICES ASSUME Init, input.what = "limit"
               PROVE  LimitExact
    BY DEF LimitExact
  <2> DEFINE license == input.license
             product == input.product
             n == Len(license)
             Counts(h) == h.product = product /\ usable(h)
             R(k) == {license[i].remain : i \in {j \in 1..k : Counts(license[j])}} \cup {0}
  <2>1. license \in Seq(Grants) /\ n \in Nat /\ DOMAIN license = 1..n
    BY InputTyped
  <2> HIDE DEF license, product
  <2>2. PICK g : /\ g \in [0..n -> Int] /\ g[0] = 0
                 /\ \A i \in 1..n : g[i] = largerLimit(g[i - 1], license[i], product)
                 /\ ProductLimit(license, product) = g[n]
    BY <2>1, LimitLoop
  <2> DEFINE S == {k \in 0..n : g[k] \in R(k) /\ \A y \in R(k) : g[k] >= y}
  <2> HIDE DEF n
  <2>3. 0 \in S
    <3>1. R(0) = {0}
      OBVIOUS
    <3> QED BY <2>1, <2>2, <3>1
  <2>4. ASSUME NEW k \in 0..(n - 1), k \in S
        PROVE  k + 1 \in S
    <3> DEFINE l == k + 1
               h == license[l]
    <3>1. l \in 1..n /\ l - 1 = k /\ k \in 0..n /\ l \in 0..n
      BY <2>1
    <3>2. h \in Grants
      BY <2>1, <3>1
    <3>3. h.remain \in Int /\ g[k] \in Int
      BY <2>2, <3>1, <3>2 DEF Grants
    <3>4. g[l] = largerLimit(g[k], h, product)
      BY <2>2, <3>1
    <3>5. g[k] \in R(k) /\ (\A y \in R(k) : g[k] >= y) /\ R(k) \subseteq Int
      <4>1. \A j \in 1..k : license[j] \in Grants
        BY <2>1, <3>1
      <4>2. \A j \in 1..k : license[j].remain \in Int
        BY <4>1 DEF Grants
      <4> QED BY <2>4, <4>2
    <3>6. CASE Counts(h)
      <4>1. R(l) = R(k) \cup {h.remain}
        <5>1. {j \in 1..l : Counts(license[j])} = {j \in 1..k : Counts(license[j])} \cup {l}
          <6> HIDE DEF Counts
          <6> QED BY <3>1, <3>6
        <5> HIDE DEF Counts
        <5> QED BY <5>1
      <4> HIDE DEF R, h
      <4>2. g[l] = IF g[k] < h.remain THEN h.remain ELSE g[k]
        BY <3>4, <3>6 DEF largerLimit
      <4>3. g[l] \in R(l) /\ \A y \in R(l) : g[l] >= y
        BY <3>3, <3>5, <4>1, <4>2
      <4> QED BY <3>1, <4>3
    <3>7. CASE ~ Counts(h)
      <4>1. R(l) = R(k)
        <5>1. {j \in 1..l : Counts(license[j])} = {j \in 1..k : Counts(license[j])}
          <6> HIDE DEF Counts
          <6> QED BY <3>1, <3>7
        <5> HIDE DEF Counts
        <5> QED BY <5>1
      <4> HIDE DEF R, h
      <4>2. g[l] = g[k]
        BY <3>4, <3>7 DEF largerLimit
      <4> QED BY <3>1, <3>5, <4>1, <4>2
    <3> QED BY <3>6, <3>7
  <2>5. n \in S
    <3> HIDE DEF S
    <3>1. \A k \in 0..n : k \in S
      BY <2>1, <2>3, <2>4, UpTo
    <3> QED BY <2>1, <3>1
  <2> DEFINE remains == {x.remain : x \in {h \in Range(license) :
                            /\ h.product = product
                            /\ Len(h.errors) <= 1 /\ Range(h.errors) \subseteq {"product exhausted"}}}
  <2>6. remains \cup {0} = R(n)
    <3>1. \A i \in 1..n : license[i] \in Grants
      BY <2>1
    <3>2. Range(license) = {license[i] : i \in 1..n}
      BY <2>1 DEF Range
    <3>3. \A i \in 1..n : Counts(license[i]) <=>
              /\ license[i].product = product
              /\ Len(license[i].errors) <= 1
              /\ Range(license[i].errors) \subseteq {"product exhausted"}
      BY <3>1, UsableMeans
    <3> HIDE DEF Counts
    <3> QED BY <3>2, <3>3
  <2>7. R(n) \subseteq Int
    <3>1. \A j \in 1..n : license[j] \in Grants
      BY <2>1
    <3>2. \A j \in 1..n : license[j].remain \in Int
      BY <3>1 DEF Grants
    <3> QED BY <3>2
  <2>8. Max(R(n)) = g[n]
    <3>1. g[n] \in R(n) /\ \A y \in R(n) : g[n] >= y
      BY <2>5
    <3> HIDE DEF R
    <3> QED BY <2>7, <3>1 DEF Max
  <2>9. ProductLimit(license, product) = Max(remains \cup {0})
    BY <2>2, <2>6, <2>8
  <2> QED BY <2>9 DEF LimitExact, license, product
<1> QED
  BY <1>1, InputKept, PTL

-----------------------------------------------------------------------------
(* Access strings.                                                         *)

Bits == {1, 2, 4, 8, 16, 32, 64, 128}

\* Setting a bit sets this one and keeps the others.
LEMMA BitSet ==
    ASSUME NEW g \in Nat, NEW a \in Bits
    PROVE  /\ SetMode(g, a) \in Nat
           /\ \A b \in Bits : HasMode(SetMode(g, a), b) <=> HasMode(g, b) \/ a = b
<1>1. SetMode(g, a) \in Nat
  BY DEF SetMode, Bits
<1>2. CASE HasMode(g, a)
  BY <1>1, <1>2 DEF SetMode
<1>3. CASE ~ HasMode(g, a)
  <2>1. SetMode(g, a) = g + a
    BY <1>3 DEF SetMode
  <2>2. CASE a = 1
    <3>0. (g \div 1) % 2 # 1
      BY <1>3, <2>2 DEF HasMode
    <3>1. ((g + 1) \div 1) % 2 = 1
      BY <3>0
    <3>2. ((g + 1) \div 2) % 2 = (g \div 2) % 2
      BY <3>0
    <3>3. ((g + 1) \div 4) % 2 = (g \div 4) % 2
      BY <3>0
    <3>4. ((g + 1) \div 8) % 2 = (g \div 8) % 2
      BY <3>0
    <3>5. ((g + 1) \div 16) % 2 = (g \div 16) % 2
      BY <3>0
    <3>6. ((g + 1) \div 32) % 2 = (g \div 32) % 2
      BY <3>0
    <3>7. ((g + 1) \div 64) % 2 = (g \div 64) % 2
      BY <3>0
    <3>8. ((g + 1) \div 128) % 2 = (g \div 128) % 2
      BY <3>0
    <3> QED BY <2>1, <2>2, <3>1, <3>2, <3>3, <3>4, <3>5, <3>6, <3>7, <3>8 DEF HasMode, Bits
  <2>3. CASE a = 2
    <3>0. (g \div 2) % 2 # 1
      BY <1>3, <2>3 DEF HasMode
    <3>1. ((g + 2) \div 1) % 2 = (g \div 1) % 2
      BY <3>0
    <3>2. ((g + 2) \div 2) % 2 = 1
      BY <3>0
    <3>3. ((g + 2) \div 4) % 2 = (g \div 4) % 2
      BY <3>0
    <3>4. ((g + 2) \div 8) % 2 = (g \div 8) % 2
      BY <3>0
    <3>5. ((g + 2) \div 16) % 2 = (g \div 16) % 2
      BY <3>0
    <3>6. ((g + 2) \div 32) % 2 = (g \div 32) % 2
      BY <3>0
    <3>7. ((g + 2) \div 64) % 2 = (g \div 64) % 2
      BY <3>0
    <3>8. ((g + 2) \div 128) % 2 = (g \div 128) % 2
      BY <3>0
    <3> QED BY <2>1, <2>3, <3>1, <3>2, <3>3, <3>4, <3>5, <3>6, <3>7, <3>8 DEF HasMode, Bits
  <2>4. CASE a = 4
    <3>0. (g \div 4) % 2 # 1
      BY <1>3, <2>4 DEF HasMode
    <3>1. ((g + 4) \div 1) % 2 = (g \div 1) % 2
      BY <3>0
    <3>2. ((g + 4) \div 2) % 2 = (g \div 2) % 2
      BY <3>0
    <3>3. ((g + 4) \div 4) % 2 = 1
      BY <3>0
    <3>4. ((g + 4) \div 8) % 2 = (g \div 8) % 2
      BY <3>0
    <3>5. ((g + 4) \div 16) % 2 = (g \div 16) % 2
      BY <3>0
    <3>6. ((g + 4) \div 32) % 2 = (g \div 32) % 2
      BY <3>0
    <3>7. ((g + 4) \div 64) % 2 = (g \div 64) % 2
      BY <3>0
    <3>8. ((g + 4) \div 128) % 2 = (g \div 128) % 2
      BY <3>0
    <3> QED BY <2>1, <2>4, <3>1, <3>2, <3>3, <3>4, <3>5, <3>6, <3>7, <3>8 DEF HasMode, Bits
  <2>5. CASE a = 8
    <3>0. (g \div 8) % 2 # 1
      BY <1>3, <2>5 DEF HasMode
    <3>1. ((g + 8) \div 1) % 2 = (g \div 1) % 2
      BY <3>0
    <3>2. ((g + 8) \div 2) % 2 = (g \div 2) % 2
      BY <3>0
    <3>3. ((g + 8) \div 4) % 2 = (g \div 4) % 2
      BY <3>0
    <3>4. ((g + 8) \div 8) % 2 = 1
      BY <3>0
    <3>5. ((g + 8) \div 16) % 2 = (g \div 16) % 2
      BY <3>0
    <3>6. ((g + 8) \div 32) % 2 = (g \div 32) % 2
      BY <3>0
    <3>7. ((g + 8) \div 64) % 2 = (g \div 64) % 2
      BY <3>0
    <3>8. ((g + 8) \div 128) % 2 = (g \div 128) % 2
      BY <3>0
    <3> QED BY <2>1, <2>5, <3>1, <3>2, <3>3, <3>4, <3>5, <3>6, <3>7, <3>8 DEF HasMode, Bits
  <2>6. CASE a = 16
    <3>0. (g \div 16) % 2 # 1
      BY <1>3, <2>6 DEF HasMode
    <3>1. ((g + 16) \div 1) % 2 = (g \div 1) % 2
      BY <3>0
    <3>2. ((g + 16) \div 2) % 2 = (g \div 2) % 2
      BY <3>0
    <3>3. ((g + 16) \div 4) % 2 = (g \div 4) % 2
      BY <3>0
    <3>4. ((g + 16) \div 8) % 2 = (g \div 8) % 2
      BY <3>0
    <3>5. ((g + 16) \div 16) % 2 = 1
      BY <3>0
    <3>6. ((g + 16) \div 32) % 2 = (g \div 32) % 2
      BY <3>0
    <3>7. ((g + 16) \div 64) % 2 = (g \div 64) % 2
      BY <3>0
    <3>8. ((g + 16) \div 128) % 2 = (g \div 128) % 2
      BY <3>0
    <3> QED BY <2>1, <2>6, <3>1, <3>2, <3>3, <3>4, <3>5, <3>6, <3>7, <3>8 DEF HasMode, Bits
  <2>7. CASE a = 32
    <3>0. (g \div 32) % 2 # 1
      BY <1>3, <2>7 DEF HasMode
    <3>1. ((g + 32) \div 1) % 2 = (g \div 1) % 2
      BY <3>0
    <3>2. ((g + 32) \div 2) % 2 = (g \div 2) % 2
      BY <3>0
    <3>3. ((g + 32) \div 4) % 2 = (g \div 4) % 2
      BY <3>0
    <3>4. ((g + 32) \div 8) % 2 = (g \div 8) % 2
      BY <3>0
    <3>5. ((g + 32) \div 16) % 2 = (g \div 16) % 2
      BY <3>0
    <3>6. ((g + 32) \div 32) % 2 = 1
      BY <3>0
    <3>7. ((g + 32) \div 64) % 2 = (g \div 64) % 2
      BY <3>0
    <3>8. ((g + 32) \div 128) % 2 = (g \div 128) % 2
      <4>1. (g + 32) \div 64 = g \div 64
        BY <3>0
      <4>2. \A x \in Nat : x \div 128 = (x \div 64) \div 2
        OBVIOUS
      <4> QED BY <4>1, <4>2
    <3> QED BY <2>1, <2>7, <3>1, <3>2, <3>3, <3>4, <3>5, <3>6, <3>7, <3>8 DEF HasMode, Bits
  <2>8. CASE a = 64
    <3>0. (g \div 64) % 2 # 1
      BY <1>3, <2>8 DEF HasMode
    <3>1. ((g + 64) \div 1) % 2 = (g \div 1) % 2
      BY <3>0
    <3>2. ((g + 64) \div 2) % 2 = (g \div 2) % 2
      BY <3>0
    <3>3. ((g + 64) \div 4) % 2 = (g \div 4) % 2
      BY <3>0
    <3>4. ((g + 64) \div 8) % 2 = (g \div 8) % 2
      BY <3>0
    <3>5. ((g + 64) \div 16) % 2 = (g \div 16) % 2
      BY <3>0
    <3>6. ((g + 64) \div 32) % 2 = (g \div 32) % 2
      BY <3>0
    <3>7. ((g + 64) \div 64) % 2 = 1
      BY <3>0
    <3>8. ((g + 64) \div 128) % 2 = (g \div 128) % 2
      BY <3>0
    <3> QED BY <2>1, <2>8, <3>1, <3>2, <3>3, <3>4, <3>5, <3>6, <3>7, <3>8 DEF HasMode, Bits
  <2>9. CASE a = 128
    <3>0. (g \div 128) % 2 # 1
      BY <1>3, <2>9 DEF HasMode
    <3>1. ((g + 128) \div 1) % 2 = (g \div 1) % 2
      BY <3>0
    <3>2. ((g + 128) \div 2) % 2 = (g \div 2) % 2
      BY <3>0
    <3>3. ((g + 128) \div 4) % 2 = (g \div 4) % 2
      BY <3>0
    <3>4. ((g + 128) \div 8) % 2 = (g \div 8) % 2
      BY <3>0
    <3>5. ((g + 128) \div 16) % 2 = (g \div 16) % 2
      BY <3>0
    <3>6. ((g + 128) \div 32) % 2 = (g \div 32) % 2
      BY <3>0
    <3>7. ((g + 128) \div 64) % 2 = (g \div 64) % 2
      BY <3>0
    <3>8. ((g + 128) \div 128) % 2 = 1
      BY <3>0
    <3> QED BY <2>1, <2>9, <3>1, <3>2, <3>3, <3>4, <3>5, <3>6, <3>7, <3>8 DEF HasMode, Bits
  <2> QED BY <2>2, <2>3, <2>4, <2>5, <2>6, <2>7, <2>8, <2>9 DEF Bits
<1> QED
  BY <1>1, <1>2, <1>3

\* The modes of the letters and the rights to pass them on are eight different bits.
LEMMA ModeBits ==
    ASSUME NEW c \in DOMAIN Modes, NEW d \in DOMAIN Modes
    PROVE  /\ Modes[c] \in Bits /\ 16 * Modes[c] \in Bits
           /\ Modes[c] = Modes[d] <=> c = d
           /\ 16 * Modes[c] = 16 * Modes[d] <=> c = d
           /\ Modes[c] # 16 * Modes[d]
<1> DEFINE x == Modes["x"]  r == Modes["r"]  w == Modes["w"]  e == Modes["d"]
<1>1. DOMAIN Modes = {"x", "r", "w", "d"}
  BY DEF Modes
<1>2. x = 8 /\ r = 4 /\ w = 2 /\ e = 1
  BY DEF Modes
<1>3. /\ Modes[c] \in {1, 2, 4, 8} /\ Modes[d] \in {1, 2, 4, 8}
      /\ Modes[c] = Modes[d] <=> c = d
  BY <1>1, <1>2
<1> DEFINE a == Modes[c]
           b == Modes[d]
<1>4. a \in {1, 2, 4, 8} /\ b \in {1, 2, 4, 8}
  BY <1>3
<1>5. a \in Bits /\ 16 * a \in Bits /\ (16 * a = 16 * b <=> a = b) /\ a # 16 * b
  <2> HIDE DEF a, b
  <2> QED BY <1>4 DEF Bits
<1> QED
  BY <1>3, <1>5

\* What one letter does to the bits.
LEMMA ModeAdded ==
    ASSUME NEW g \in Nat, NEW c \in DOMAIN Modes
    PROVE  /\ addMode(g, c) \in Nat
           /\ \A d \in DOMAIN Modes :
                 /\ HasMode(addMode(g, c), Modes[d]) <=> HasMode(g, Modes[d]) \/ d = c
                 /\ HasMode(addMode(g, c), 16 * Modes[d]) <=>
                       HasMode(g, 16 * Modes[d]) \/ (d = c /\ HasMode(g, Modes[d]))
<1>1. /\ Modes[c] \in Bits /\ 16 * Modes[c] \in Bits
      /\ \A d \in DOMAIN Modes : /\ Modes[d] \in Bits /\ 16 * Modes[d] \in Bits
                                 /\ Modes[c] = Modes[d] <=> c = d
                                 /\ 16 * Modes[c] = 16 * Modes[d] <=> c = d
                                 /\ Modes[c] # 16 * Modes[d] /\ Modes[d] # 16 * Modes[c]
  BY ModeBits
<1> DEFINE one == Modes[c]
           two == 16 * Modes[c]
<1>2. CASE HasMode(g, one)
  <2>1. addMode(g, c) = SetMode(g, two)
    BY <1>2 DEF addMode
  <2>2. SetMode(g, two) \in Nat
    BY <1>1, BitSet
  <2>3. \A b \in Bits : HasMode(SetMode(g, two), b) <=> HasMode(g, b) \/ two = b
    BY <1>1, BitSet
  <2> QED BY <1>1, <1>2, <2>1, <2>2, <2>3, Zenon
<1>3. CASE ~ HasMode(g, one)
  <2>1. addMode(g, c) = SetMode(g, one)
    BY <1>3 DEF addMode
  <2>2. SetMode(g, one) \in Nat
    BY <1>1, BitSet
  <2>3. \A b \in Bits : HasMode(SetMode(g, one), b) <=> HasMode(g, b) \/ one = b
    BY <1>1, BitSet
  <2> QED BY <1>1, <1>3, <2>1, <2>2, <2>3, Zenon
<1> QED
  BY <1>2, <1>3

\* Without a letter no bit is set.
LEMMA ZeroHasNone ==
    \A c \in DOMAIN Modes : ~ HasMode(0, Modes[c]) /\ ~ HasMode(0, 16 * Modes[c])
<1>1. \A b \in Bits : ~ HasMode(0, b)
  BY DEF Bits, HasMode
<1> QED
  BY <1>1, ModeBits

\* The loop over the letters, turn by turn.
LEMMA AccessLoop ==
    ASSUME NEW chars \in Seq(DOMAIN Modes)
    PROVE  \E g : /\ g \in [0..Len(chars) -> Nat] /\ g[0] = 0
                  /\ \A i \in 1..Len(chars) : g[i] = addMode(g[i - 1], chars[i])
                  /\ FoldLeft(addMode, 0, chars) = g[Len(chars)]
<1> DEFINE n == Len(chars)
           Op(grants, c) == addMode(grants, c)
           step == [p \in (1..n) \X Nat |-> Op(p[2], chars[p[1]])]
           Body(f) == [s \in SUBSET (DOMAIN chars) |->
                          IF s = {} THEN 0 ELSE Op(f[s \ {Max(s)}], chars[Max(s)])]
           iter == CHOOSE f : f = Body(f)
           g == [i \in 0..n |-> iter[1..i]]
<1>1. n \in Nat /\ DOMAIN chars = 1..n
  OBVIOUS
<1>2. step \in [(1..n) \X Nat -> Nat]
  <2>1. ASSUME NEW i \in 1..n, NEW a \in Nat
        PROVE  Op(a, chars[i]) \in Nat
    <3>1. chars[i] \in DOMAIN Modes
      OBVIOUS
    <3> QED BY <3>1, ModeAdded
  <2> HIDE DEF n, Op
  <2> QED BY <2>1
<1>3. PICK f : LoopOf(f, n, Nat, 0, step)
  <2>1. 0 \in Nat
    OBVIOUS
  <2> HIDE DEF step, n
  <2> QED BY <1>1, <1>2, <2>1, LoopRuns
<1>4. f = Body(f)
  <2>1. ASSUME NEW s \in SUBSET (1..n)
        PROVE  f[s] = IF s = {} THEN 0 ELSE Op(f[s \ {Max(s)}], chars[Max(s)])
    <3> HIDE DEF Op, n
    <3> QED BY <1>1, <1>3 DEF LoopOf
  <2> HIDE DEF Op, n
  <2> QED BY <1>1, <1>3, <2>1 DEF LoopOf
<1>5. iter = Body(iter)
  <2> HIDE DEF Body
  <2> QED BY <1>4, Zenon
<1>6. FoldLeft(addMode, 0, chars) = iter[1..n]
  BY <1>1 DEF FoldLeft, MapThenFoldSet
<1> HIDE DEF iter, n, step, Op
<1>7. {} \in SUBSET (1..n) /\ 1..0 = {}
  OBVIOUS
<1>8. iter[1..0] = 0
  BY <1>1, <1>5, <1>7
<1>9. ASSUME NEW i \in 1..n
      PROVE  iter[1..i] = Op(iter[1..(i - 1)], chars[i])
  <2>1. /\ 1..i \in SUBSET (1..n) /\ 1..i # {}
        /\ Max(1..i) = i /\ (1..i) \ {i} = 1..(i - 1)
    BY <1>1, Passed
  <2> QED BY <1>1, <1>5, <2>1
<1>10. \A i \in 0..n : iter[1..i] \in Nat
  <2> DEFINE S == {i \in 0..n : iter[1..i] \in Nat}
  <2>1. 0 \in S
    BY <1>1, <1>3, <1>8 DEF LoopOf
  <2>2. ASSUME NEW k \in 0..(n - 1), k \in S
        PROVE  k + 1 \in S
    <3>1. k + 1 \in 1..n /\ (k + 1) - 1 = k
      BY <1>1
    <3>2. iter[1..(k + 1)] = Op(iter[1..k], chars[k + 1])
      BY <1>9, <3>1
    <3>3. step[<<k + 1, iter[1..k]>>] = Op(iter[1..k], chars[k + 1])
      BY <2>2, <3>1 DEF step
    <3> QED BY <1>1, <1>2, <2>2, <3>1, <3>2, <3>3
  <2>3. \A k \in 0..n : k \in S
    <3> HIDE DEF S
    <3> QED BY <1>1, <2>1, <2>2, UpTo
  <2> QED BY <2>3
<1>11. /\ g \in [0..n -> Nat] /\ g[0] = 0 /\ g[n] = iter[1..n]
       /\ \A i \in 1..n : g[i] = Op(g[i - 1], chars[i])
  BY <1>1, <1>8, <1>9, <1>10
<1> QED
  BY <1>6, <1>11 DEF n, Op

\* How often a letter occurs in the first k places of a string.
Times(chars, c, k) == Cardinality({i \in 1..k : chars[i] = c})

\* One place more adds one occurrence of its own letter.
LEMMA OneMore ==
    ASSUME NEW chars, NEW c, NEW k \in Nat
    PROVE  /\ Times(chars, c, 0) = 0 /\ Times(chars, c, k) \in Nat
           /\ Times(chars, c, k + 1) =
                 IF chars[k + 1] = c THEN Times(chars, c, k) + 1 ELSE Times(chars, c, k)
<1> DEFINE A == {i \in 1..k : chars[i] = c}
           B == {i \in 1..(k + 1) : chars[i] = c}
<1>1. IsFiniteSet(A) /\ Cardinality(A) \in Nat
  <2>1. IsFiniteSet(1..k)
    BY FS_Interval
  <2>2. A \subseteq 1..k
    OBVIOUS
  <2> HIDE DEF A
  <2> QED BY <2>1, <2>2, FS_Subset, FS_CardinalityType
<1>2. k + 1 \notin A
  OBVIOUS
<1>3. B = IF chars[k + 1] = c THEN A \cup {k + 1} ELSE A
  OBVIOUS
<1>4. {i \in 1..0 : chars[i] = c} = {}
  OBVIOUS
<1>5. Times(chars, c, 0) = 0
  BY <1>4, FS_EmptySet DEF Times
<1>6. Cardinality(A \cup {k + 1}) = Cardinality(A) + 1
  <2> HIDE DEF A
  <2> QED BY <1>1, <1>2, FS_AddElement
<1>7. Cardinality(B) = IF chars[k + 1] = c THEN Cardinality(A) + 1 ELSE Cardinality(A)
  <2> HIDE DEF A, B
  <2> QED BY <1>3, <1>6
<1>8. Times(chars, c, k) = Cardinality(A) /\ Times(chars, c, k + 1) = Cardinality(B)
  BY Zenon DEF Times
<1> HIDE DEF A, B
<1> QED
  BY <1>1, <1>5, <1>7, <1>8

\* The bits of a string of known letters.
LEMMA LettersRead ==
    ASSUME NEW chars \in Seq(DOMAIN Modes)
    PROVE  \A c \in DOMAIN Modes :
              /\ HasMode(FoldLeft(addMode, 0, chars), Modes[c]) <=> Times(chars, c, Len(chars)) >= 1
              /\ HasMode(FoldLeft(addMode, 0, chars), 16 * Modes[c]) <=>
                    Times(chars, c, Len(chars)) >= 2
<1> DEFINE n == Len(chars)
<1>1. n \in Nat /\ DOMAIN chars = 1..n
  OBVIOUS
<1>2. PICK g : /\ g \in [0..n -> Nat] /\ g[0] = 0
               /\ \A i \in 1..n : g[i] = addMode(g[i - 1], chars[i])
               /\ FoldLeft(addMode, 0, chars) = g[n]
  BY AccessLoop
<1> DEFINE Read(k) == \A c \in DOMAIN Modes :
                         /\ HasMode(g[k], Modes[c]) <=> Times(chars, c, k) >= 1
                         /\ HasMode(g[k], 16 * Modes[c]) <=> Times(chars, c, k) >= 2
           S == {k \in 0..n : Read(k)}
<1>3. 0 \in S
  <2>1. \A c \in DOMAIN Modes : ~ HasMode(0, Modes[c]) /\ ~ HasMode(0, 16 * Modes[c])
    BY ZeroHasNone
  <2>2. \A c : Times(chars, c, 0) = 0
    BY OneMore
  <2>3. \A c : ~ Times(chars, c, 0) >= 1 /\ ~ Times(chars, c, 0) >= 2
    BY <2>2
  <2>4. 0 \in 0..n
    BY <1>1
  <2> HIDE DEF n
  <2> QED BY <1>2, <2>1, <2>3, <2>4, Zenon
<1> HIDE DEF n
<1>4. ASSUME NEW k \in 0..(n - 1), k \in S
      PROVE  k + 1 \in S
  <2>1. k + 1 \in 1..n /\ k + 1 \in 0..n /\ (k + 1) - 1 = k /\ k \in 0..n /\ k \in Nat
    BY <1>1
  <2>2. chars[k + 1] \in DOMAIN Modes
    BY <1>1, <2>1
  <2>3. g[k] \in Nat /\ g[k + 1] = addMode(g[k], chars[k + 1])
    BY <1>2, <2>1
  <2>4. ASSUME NEW c \in DOMAIN Modes
        PROVE  /\ HasMode(g[k + 1], Modes[c]) <=> Times(chars, c, k + 1) >= 1
               /\ HasMode(g[k + 1], 16 * Modes[c]) <=> Times(chars, c, k + 1) >= 2
    <3> DEFINE was == Times(chars, c, k)
               now == Times(chars, c, k + 1)
               one == HasMode(g[k], Modes[c])
               two == HasMode(g[k], 16 * Modes[c])
               same == chars[k + 1] = c
    <3>1. was \in Nat /\ now = IF same THEN was + 1 ELSE was
      BY <2>1, OneMore
    <3>2. (one <=> was >= 1) /\ (two <=> was >= 2)
      BY <1>4
    <3>3. /\ HasMode(g[k + 1], Modes[c]) <=> one \/ same
          /\ HasMode(g[k + 1], 16 * Modes[c]) <=> two \/ (same /\ one)
      <4> DEFINE l == chars[k + 1]
      <4>1. l \in DOMAIN Modes /\ g[k + 1] = addMode(g[k], l)
        BY <2>2, <2>3
      <4>2. same <=> c = l
        OBVIOUS
      <4> HIDE DEF l, same
      <4>3. /\ HasMode(addMode(g[k], l), Modes[c]) <=> HasMode(g[k], Modes[c]) \/ c = l
            /\ HasMode(addMode(g[k], l), 16 * Modes[c]) <=>
                  HasMode(g[k], 16 * Modes[c]) \/ (c = l /\ HasMode(g[k], Modes[c]))
        BY <2>3, <4>1, ModeAdded, Zenon
      <4> QED BY <4>1, <4>2, <4>3, Zenon
    <3> HIDE DEF was, now, one, two, same
    <3>4. /\ (one \/ same) <=> now >= 1
          /\ (two \/ (same /\ one)) <=> now >= 2
      <4>1. CASE same
        BY <3>1, <3>2, <4>1
      <4>2. CASE ~ same
        BY <3>1, <3>2, <4>2
      <4> QED BY <4>1, <4>2
    <3> QED BY <3>3, <3>4, Zenon DEF now
  <2> QED BY <2>1, <2>4
<1>5. n \in S
  <2> HIDE DEF S
  <2>1. \A k \in 0..n : k \in S
    BY <1>1, <1>3, <1>4, UpTo
  <2> QED BY <1>1, <2>1
<1>6. Read(n)
  BY <1>5
<1> QED
  BY <1>2, <1>6, Zenon DEF n

\* For every access string, parseAccess sets the bit of a letter that occurs and the bit
\* to pass it on for one that occurs twice, and none when there is an unknown letter.
THEOREM AccessIsExact == Spec => []AccessModes
<1>1. Init => AccessModes
  <2> SUFFICES ASSUME Init, input.what = "access"
               PROVE  AccessModes
    BY DEF AccessModes
  <2> DEFINE chars == input.chars
             n == Len(chars)
             known == \A i \in DOMAIN chars : chars[i] \in DOMAIN Modes
             times(c) == Cardinality({i \in DOMAIN chars : chars[i] = c})
             mode == parseAccess(chars)
  <2>1. chars \in Seq(Letters) /\ n \in Nat /\ DOMAIN chars = 1..n
    BY InputTyped
  <2> HIDE DEF chars
  <2> SUFFICES \A c \in DOMAIN Modes :
                 /\ HasMode(mode, Modes[c]) <=> known /\ times(c) >= 1
                 /\ HasMode(mode, 16 * Modes[c]) <=> known /\ times(c) >= 2
    BY Zenon DEF AccessModes, chars
  <2>2. CASE known
    <3>1. chars \in Seq(DOMAIN Modes)
      <4> HIDE DEF n
      <4>1. chars \in [1..n -> DOMAIN Modes]
        BY <2>1, <2>2
      <4> QED BY <2>1, <4>1
    <3>2. mode = FoldLeft(addMode, 0, chars)
      BY <2>2, Zenon DEF parseAccess
    <3>3. \A c : Times(chars, c, n) = times(c)
      BY <2>1 DEF Times
    <3> HIDE DEF mode, times, known
    <3> QED BY <2>2, <3>1, <3>2, <3>3, LettersRead, Zenon DEF n
  <2>3. CASE ~ known
    <3>1. mode = 0
      BY <2>3, Zenon DEF parseAccess
    <3> HIDE DEF mode, times, known
    <3> QED BY <2>3, <3>1, ZeroHasNone, Zenon
  <2> QED BY <2>2, <2>3
<1> QED
  BY <1>1, InputKept, PTL

-----------------------------------------------------------------------------
(* The scope of the active licences.                                       *)

\* The canonical names of a list of classes that are not empty.
Bases(setof) == {setof[i].base : i \in DOMAIN setof} \ {""}

\* A new element at the end of a list keeps it free of duplicates.
LEMMA NewAppended ==
    ASSUME NEW T, NEW s \in Seq(T), NEW e \in T, e \notin Range(s), IsInjective(s)
    PROVE  IsInjective(Append(s, e))
<1> DEFINE n == Len(s)
           r == Append(s, e)
<1>1. n \in Nat /\ DOMAIN s = 1..n
  OBVIOUS
<1>2. Len(r) = n + 1 /\ r[n + 1] = e /\ \A i \in 1..n : r[i] = s[i]
  OBVIOUS
<1>3. DOMAIN r = 1..(n + 1)
  BY <1>2
<1>4. \A i \in 1..n : s[i] # e
  BY <1>1 DEF Range
<1>5. \A i, j \in 1..n : s[i] = s[j] => i = j
  BY <1>1 DEF IsInjective
<1>6. ASSUME NEW i \in 1..(n + 1), NEW j \in 1..(n + 1), r[i] = r[j]
      PROVE  i = j
  <2>1. (i \in 1..n \/ i = n + 1) /\ (j \in 1..n \/ j = n + 1)
    BY <1>1
  <2> HIDE DEF n, r
  <2> QED BY <1>2, <1>4, <1>5, <1>6, <2>1
<1> HIDE DEF n, r
<1> QED
  BY <1>3, <1>6 DEF IsInjective, r

\* One class: its name is there afterwards, unless it is empty, and no name is twice.
LEMMA ClassAdded ==
    ASSUME NEW scope \in Seq(STRING), NEW class \in ClassNames
    PROVE  /\ addClass(scope, class) \in Seq(STRING)
           /\ Range(addClass(scope, class)) = Range(scope) \cup ({class.base} \ {""})
           /\ IsInjective(scope) => IsInjective(addClass(scope, class))
<1> DEFINE b == class.base
           r == Append(scope, b)
<1>1. b \in STRING
  BY DEF ClassNames
<1>2. DOMAIN scope = 1..Len(scope)
  OBVIOUS
<1>3. addClass(scope, class) = IF b = "" \/ Contains(scope, b) THEN scope ELSE r
  BY Zenon DEF addClass, objClass
<1>4. Contains(scope, b) <=> b \in Range(scope)
  BY <1>2 DEF Contains, Range
<1> HIDE DEF b
<1>5. CASE b = "" \/ Contains(scope, b)
  BY <1>3, <1>4, <1>5 DEF b
<1>6. CASE ~ (b = "" \/ Contains(scope, b))
  <2>1. addClass(scope, class) = r
    BY <1>3, <1>6
  <2>2. r \in Seq(STRING)
    BY <1>1, AppendProperties, Zenon
  <2>3. Range(r) = Range(scope) \cup {b}
    <3> DEFINE T == STRING
    <3>1. scope \in Seq(T) /\ b \in T
      BY <1>1
    <3> HIDE DEF T
    <3> QED BY <3>1, RangeAppend
  <2>4. IsInjective(scope) => IsInjective(r)
    BY <1>1, <1>4, <1>6, NewAppended, Zenon
  <2>5. {b} \ {""} = {b}
    BY <1>6
  <2> QED BY <2>1, <2>2, <2>3, <2>4, <2>5, Zenon DEF b
<1> QED
  BY <1>5, <1>6

\* The loop over the classes of a product, turn by turn.
LEMMA ScopeLoop ==
    ASSUME NEW scope \in Seq(STRING), NEW setof \in Seq(ClassNames)
    PROVE  \E g : /\ g \in [0..Len(setof) -> Seq(STRING)] /\ g[0] = scope
                  /\ \A i \in 1..Len(setof) : g[i] = addClass(g[i - 1], setof[i])
                  /\ addScope(scope, setof) = g[Len(setof)]
<1> DEFINE n == Len(setof)
           Op(acc, class) == addClass(acc, class)
           step == [p \in (1..n) \X Seq(STRING) |-> Op(p[2], setof[p[1]])]
           Body(f) == [s \in SUBSET (DOMAIN setof) |->
                          IF s = {} THEN scope ELSE Op(f[s \ {Max(s)}], setof[Max(s)])]
           iter == CHOOSE f : f = Body(f)
           g == [i \in 0..n |-> iter[1..i]]
<1>1. n \in Nat /\ DOMAIN setof = 1..n
  OBVIOUS
<1>2. step \in [(1..n) \X Seq(STRING) -> Seq(STRING)]
  <2>1. ASSUME NEW i \in 1..n, NEW a \in Seq(STRING)
        PROVE  Op(a, setof[i]) \in Seq(STRING)
    <3>1. setof[i] \in ClassNames
      OBVIOUS
    <3> QED BY <3>1, ClassAdded
  <2> HIDE DEF n, Op
  <2> QED BY <2>1
<1>3. PICK f : LoopOf(f, n, Seq(STRING), scope, step)
  <2>1. scope \in Seq(STRING)
    OBVIOUS
  <2> HIDE DEF step, n
  <2> QED BY <1>1, <1>2, <2>1, LoopRuns
<1>4. f = Body(f)
  <2>1. ASSUME NEW s \in SUBSET (1..n)
        PROVE  f[s] = IF s = {} THEN scope ELSE Op(f[s \ {Max(s)}], setof[Max(s)])
    <3> HIDE DEF Op, n
    <3> QED BY <1>1, <1>3 DEF LoopOf
  <2> HIDE DEF Op, n
  <2> QED BY <1>1, <1>3, <2>1 DEF LoopOf
<1>5. iter = Body(iter)
  <2> HIDE DEF Body
  <2> QED BY <1>4, Zenon
<1>6. addScope(scope, setof) = iter[1..n]
  BY <1>1 DEF addScope, FoldLeft, MapThenFoldSet
<1> HIDE DEF iter, n, step, Op
<1>7. {} \in SUBSET (1..n) /\ 1..0 = {}
  OBVIOUS
<1>8. iter[1..0] = scope
  BY <1>1, <1>5, <1>7
<1>9. ASSUME NEW i \in 1..n
      PROVE  iter[1..i] = Op(iter[1..(i - 1)], setof[i])
  <2>1. /\ 1..i \in SUBSET (1..n) /\ 1..i # {}
        /\ Max(1..i) = i /\ (1..i) \ {i} = 1..(i - 1)
    BY <1>1, Passed
  <2> QED BY <1>1, <1>5, <2>1
<1>10. \A i \in 0..n : iter[1..i] \in Seq(STRING)
  <2> DEFINE S == {i \in 0..n : iter[1..i] \in Seq(STRING)}
  <2>1. 0 \in S
    BY <1>1, <1>3, <1>8 DEF LoopOf
  <2>2. ASSUME NEW k \in 0..(n - 1), k \in S
        PROVE  k + 1 \in S
    <3>1. k + 1 \in 1..n /\ (k + 1) - 1 = k
      BY <1>1
    <3>2. iter[1..(k + 1)] = Op(iter[1..k], setof[k + 1])
      BY <1>9, <3>1
    <3>3. step[<<k + 1, iter[1..k]>>] = Op(iter[1..k], setof[k + 1])
      BY <2>2, <3>1 DEF step
    <3> QED BY <1>1, <1>2, <2>2, <3>1, <3>2, <3>3
  <2>3. \A k \in 0..n : k \in S
    <3> HIDE DEF S
    <3> QED BY <1>1, <2>1, <2>2, UpTo
  <2> QED BY <2>3
<1>11. /\ g \in [0..n -> Seq(STRING)] /\ g[0] = scope /\ g[n] = iter[1..n]
       /\ \A i \in 1..n : g[i] = Op(g[i - 1], setof[i])
  BY <1>1, <1>8, <1>9, <1>10
<1> QED
  BY <1>6, <1>11 DEF n, Op

\* A product's classes: their names are there afterwards, and no name is twice.
LEMMA ScopeAdded ==
    ASSUME NEW scope \in Seq(STRING), NEW setof \in Seq(ClassNames)
    PROVE  /\ addScope(scope, setof) \in Seq(STRING)
           /\ Range(addScope(scope, setof)) = Range(scope) \cup Bases(setof)
           /\ IsInjective(scope) => IsInjective(addScope(scope, setof))
<1> DEFINE n == Len(setof)
<1>1. n \in Nat /\ DOMAIN setof = 1..n
  OBVIOUS
<1>2. PICK g : /\ g \in [0..n -> Seq(STRING)] /\ g[0] = scope
               /\ \A i \in 1..n : g[i] = addClass(g[i - 1], setof[i])
               /\ addScope(scope, setof) = g[n]
  BY ScopeLoop
<1> HIDE DEF n
<1> DEFINE Names(k) == {setof[i].base : i \in 1..k} \ {""}
           S == {k \in 0..n : /\ Range(g[k]) = Range(scope) \cup Names(k)
                              /\ IsInjective(scope) => IsInjective(g[k])}
<1>3. 0 \in S
  <2>1. Names(0) = {}
    OBVIOUS
  <2>2. 0 \in 0..n
    BY <1>1
  <2>3. Range(g[0]) = Range(scope) \cup Names(0)
    BY <1>2, <2>1
  <2> QED BY <1>2, <2>2, <2>3, Zenon
<1>4. ASSUME NEW k \in 0..(n - 1), k \in S
      PROVE  k + 1 \in S
  <2> DEFINE l == k + 1
  <2>1. l \in 1..n /\ l \in 0..n /\ l - 1 = k /\ k \in 0..n
    BY <1>1
  <2>2. setof[l] \in ClassNames
    BY <1>1, <2>1
  <2>3. g[k] \in Seq(STRING) /\ g[l] = addClass(g[k], setof[l])
    BY <1>2, <2>1
  <2>4. /\ Range(g[l]) = Range(g[k]) \cup ({setof[l].base} \ {""})
        /\ IsInjective(g[k]) => IsInjective(g[l])
    BY <2>2, <2>3, ClassAdded
  <2>5. Names(l) = Names(k) \cup ({setof[l].base} \ {""})
    <3>1. 1..l = (1..k) \cup {l}
      BY <2>1
    <3> HIDE DEF l
    <3> QED BY <3>1
  <2> HIDE DEF l, Names
  <2> QED BY <1>4, <2>1, <2>4, <2>5 DEF l
<1>5. n \in S
  <2> HIDE DEF S
  <2>1. \A k \in 0..n : k \in S
    BY <1>1, <1>3, <1>4, UpTo
  <2> QED BY <1>1, <2>1
<1>6. Names(n) = Bases(setof)
  BY <1>1 DEF Bases
<1>7. g[n] \in Seq(STRING)
  BY <1>1, <1>2
<1> HIDE DEF Names
<1> QED
  BY <1>2, <1>5, <1>6, <1>7

\* What the loop over the products keeps: the licences that are valid and their scope.
Sessions == [valid : Seq(STRING), scope : Seq(STRING)]

\* The classes a product opens at a time.
Opens(prod, now) ==
    IF (prod.expires <= 0 \/ now < prod.expires) /\ prod.issued <= now THEN Bases(prod.scope)
    ELSE {}

\* One product: the classes it opens are there afterwards, and none is twice.
LEMMA ProductAdded ==
    ASSUME NEW got \in Sessions, NEW prod \in Products, NEW now \in Nat
    PROVE  /\ addProduct(got, prod, now) \in Sessions
           /\ Range(addProduct(got, prod, now).scope) = Range(got.scope) \cup Opens(prod, now)
           /\ IsInjective(got.scope) => IsInjective(addProduct(got, prod, now).scope)
<1> DEFINE scope == addScope(got.scope, prod.scope)
<1>1. /\ prod.prod \in STRING /\ prod.scope \in Seq(ClassNames)
      /\ prod.issued \in Int /\ prod.expires \in Int
  BY DEF Products
<1>2. got.valid \in Seq(STRING) /\ got.scope \in Seq(STRING)
  BY DEF Sessions
<1>3. /\ scope \in Seq(STRING) /\ Range(scope) = Range(got.scope) \cup Bases(prod.scope)
      /\ IsInjective(got.scope) => IsInjective(scope)
  BY <1>1, <1>2, ScopeAdded
<1>4. Append(got.valid, prod.prod) \in Seq(STRING)
  BY <1>1, <1>2, AppendProperties, Zenon
<1>5. CASE IsActive(prod, now)
  <2>1. addProduct(got, prod, now) = [valid |-> Append(got.valid, prod.prod), scope |-> scope]
    BY <1>5 DEF addProduct
  <2>2. Opens(prod, now) = Bases(prod.scope)
    <3>1. /\ ~ (0 < prod.expires /\ prod.expires <= now)
          /\ ~ (0 < prod.issued /\ now < prod.issued)
      BY <1>5, Zenon DEF IsActive
    <3>2. (prod.expires <= 0 \/ now < prod.expires) /\ prod.issued <= now
      BY <1>1, <3>1
    <3> QED BY <3>2, Zenon DEF Opens
  <2> HIDE DEF scope
  <2>3. addProduct(got, prod, now).scope = scope
    BY <2>1
  <2>4. addProduct(got, prod, now) \in Sessions
    <3> DEFINE valid == Append(got.valid, prod.prod)
               T == Seq(STRING)
    <3>1. valid \in T /\ scope \in T /\ addProduct(got, prod, now) = [valid |-> valid, scope |-> scope]
      BY <1>3, <1>4, <2>1
    <3>2. Sessions = [valid : T, scope : T]
      BY DEF Sessions
    <3> HIDE DEF valid, T
    <3> QED BY <3>1, <3>2
  <2> QED BY <1>3, <2>2, <2>3, <2>4, Zenon
<1>6. CASE ~ IsActive(prod, now)
  <2>1. addProduct(got, prod, now) = got
    BY <1>6 DEF addProduct
  <2>2. Opens(prod, now) = {}
    <3>1. CASE prod.scope = <<>>
      <4>1. Bases(prod.scope) = {}
        BY <3>1 DEF Bases
      <4> QED BY <4>1, Zenon DEF Opens
    <3>2. CASE prod.scope # <<>>
      <4>1. ~ (/\ ~ (0 < prod.expires /\ prod.expires <= now)
               /\ ~ (0 < prod.issued /\ now < prod.issued))
        BY <1>6, <3>2, Zenon DEF IsActive
      <4>2. ~ ((prod.expires <= 0 \/ now < prod.expires) /\ prod.issued <= now)
        BY <1>1, <4>1
      <4> QED BY <4>2, Zenon DEF Opens
    <3> QED BY <3>1, <3>2
  <2> QED BY <2>1, <2>2
<1> QED
  BY <1>5, <1>6

\* The loop over the products, turn by turn.
LEMMA ProductLoop ==
    ASSUME NEW license \in Seq(Products), NEW now \in Nat
    PROVE  \E g : /\ g \in [0..Len(license) -> Sessions] /\ g[0] = [valid |-> <<>>, scope |-> <<>>]
                  /\ \A i \in 1..Len(license) : g[i] = addProduct(g[i - 1], license[i], now)
                  /\ FoldLeft(LAMBDA acc, prod : addProduct(acc, prod, now),
                              [valid |-> <<>>, scope |-> <<>>], license) = g[Len(license)]
<1> DEFINE n == Len(license)
           Op(acc, prod) == addProduct(acc, prod, now)
           step == [p \in (1..n) \X Sessions |-> Op(p[2], license[p[1]])]
           Body(f) == [s \in SUBSET (DOMAIN license) |->
                          IF s = {} THEN [valid |-> <<>>, scope |-> <<>>] ELSE Op(f[s \ {Max(s)}], license[Max(s)])]
           iter == CHOOSE f : f = Body(f)
           g == [i \in 0..n |-> iter[1..i]]
<1>1. n \in Nat /\ DOMAIN license = 1..n
  OBVIOUS
<1>2. step \in [(1..n) \X Sessions -> Sessions]
  <2>1. ASSUME NEW i \in 1..n, NEW a \in Sessions
        PROVE  Op(a, license[i]) \in Sessions
    <3>1. license[i] \in Products
      OBVIOUS
    <3> QED BY <3>1, ProductAdded
  <2> HIDE DEF n, Op
  <2> QED BY <2>1
<1>3. PICK f : LoopOf(f, n, Sessions, [valid |-> <<>>, scope |-> <<>>], step)
  <2>1. [valid |-> <<>>, scope |-> <<>>] \in Sessions
    BY DEF Sessions
  <2> HIDE DEF step, n
  <2> QED BY <1>1, <1>2, <2>1, LoopRuns
<1>4. f = Body(f)
  <2>1. ASSUME NEW s \in SUBSET (1..n)
        PROVE  f[s] = IF s = {} THEN [valid |-> <<>>, scope |-> <<>>] ELSE Op(f[s \ {Max(s)}], license[Max(s)])
    <3> HIDE DEF Op, n
    <3> QED BY <1>1, <1>3 DEF LoopOf
  <2> HIDE DEF Op, n
  <2> QED BY <1>1, <1>3, <2>1 DEF LoopOf
<1>5. iter = Body(iter)
  <2> HIDE DEF Body
  <2> QED BY <1>4, Zenon
<1>6. FoldLeft(LAMBDA acc, prod : addProduct(acc, prod, now),
                              [valid |-> <<>>, scope |-> <<>>], license) = iter[1..n]
  BY <1>1 DEF FoldLeft, MapThenFoldSet
<1> HIDE DEF iter, n, step, Op
<1>7. {} \in SUBSET (1..n) /\ 1..0 = {}
  OBVIOUS
<1>8. iter[1..0] = [valid |-> <<>>, scope |-> <<>>]
  BY <1>1, <1>5, <1>7
<1>9. ASSUME NEW i \in 1..n
      PROVE  iter[1..i] = Op(iter[1..(i - 1)], license[i])
  <2>1. /\ 1..i \in SUBSET (1..n) /\ 1..i # {}
        /\ Max(1..i) = i /\ (1..i) \ {i} = 1..(i - 1)
    BY <1>1, Passed
  <2> QED BY <1>1, <1>5, <2>1
<1>10. \A i \in 0..n : iter[1..i] \in Sessions
  <2> DEFINE S == {i \in 0..n : iter[1..i] \in Sessions}
  <2>1. 0 \in S
    BY <1>1, <1>3, <1>8 DEF LoopOf
  <2>2. ASSUME NEW k \in 0..(n - 1), k \in S
        PROVE  k + 1 \in S
    <3>1. k + 1 \in 1..n /\ (k + 1) - 1 = k
      BY <1>1
    <3>2. iter[1..(k + 1)] = Op(iter[1..k], license[k + 1])
      BY <1>9, <3>1
    <3>3. step[<<k + 1, iter[1..k]>>] = Op(iter[1..k], license[k + 1])
      BY <2>2, <3>1 DEF step
    <3> QED BY <1>1, <1>2, <2>2, <3>1, <3>2, <3>3
  <2>3. \A k \in 0..n : k \in S
    <3> HIDE DEF S
    <3> QED BY <1>1, <2>1, <2>2, UpTo
  <2> QED BY <2>3
<1>11. /\ g \in [0..n -> Sessions] /\ g[0] = [valid |-> <<>>, scope |-> <<>>] /\ g[n] = iter[1..n]
       /\ \A i \in 1..n : g[i] = Op(g[i - 1], license[i])
  BY <1>1, <1>8, <1>9, <1>10
<1> QED
  BY <1>6, <1>11 DEF n, Op

\* All the products: the scope holds, once each, the classes that one of them opens.
LEMMA ProductsAdded ==
    ASSUME NEW license \in Seq(Products), NEW now \in Nat
    PROVE  LET got == FoldLeft(LAMBDA acc, prod : addProduct(acc, prod, now),
                               [valid |-> <<>>, scope |-> <<>>], license)
           IN  /\ got \in Sessions /\ IsInjective(got.scope)
               /\ Range(got.scope) = UNION {Opens(license[i], now) : i \in DOMAIN license}
<1> DEFINE n == Len(license)
           got == FoldLeft(LAMBDA acc, prod : addProduct(acc, prod, now),
                           [valid |-> <<>>, scope |-> <<>>], license)
<1>1. n \in Nat /\ DOMAIN license = 1..n
  OBVIOUS
<1>2. PICK g : /\ g \in [0..n -> Sessions] /\ g[0] = [valid |-> <<>>, scope |-> <<>>]
               /\ \A i \in 1..n : g[i] = addProduct(g[i - 1], license[i], now)
               /\ got = g[n]
  BY ProductLoop
<1> HIDE DEF n, got
<1> DEFINE Open(k) == UNION {Opens(license[i], now) : i \in 1..k}
           S == {k \in 0..n : Range(g[k].scope) = Open(k) /\ IsInjective(g[k].scope)}
<1>3. 0 \in S
  <2>1. Open(0) = {}
    OBVIOUS
  <2>2. g[0].scope = <<>>
    BY <1>2
  <2>3. Range(<<>>) = {} /\ IsInjective(<<>>)
    BY DEF Range, IsInjective
  <2>4. 0 \in 0..n
    BY <1>1
  <2> QED BY <2>1, <2>2, <2>3, <2>4
<1>4. ASSUME NEW k \in 0..(n - 1), k \in S
      PROVE  k + 1 \in S
  <2> DEFINE l == k + 1
  <2>1. l \in 1..n /\ l \in 0..n /\ l - 1 = k /\ k \in 0..n
    BY <1>1
  <2>2. license[l] \in Products
    BY <1>1, <2>1
  <2>3. g[k] \in Sessions /\ g[l] = addProduct(g[k], license[l], now)
    BY <1>2, <2>1
  <2>4. /\ Range(g[l].scope) = Range(g[k].scope) \cup Opens(license[l], now)
        /\ IsInjective(g[k].scope) => IsInjective(g[l].scope)
    BY <2>2, <2>3, ProductAdded
  <2>5. Open(l) = Open(k) \cup Opens(license[l], now)
    <3>1. 1..l = (1..k) \cup {l}
      BY <2>1
    <3> HIDE DEF l
    <3> QED BY <3>1
  <2> HIDE DEF l, Open
  <2> QED BY <1>4, <2>1, <2>4, <2>5 DEF l
<1>5. n \in S
  <2> HIDE DEF S
  <2>1. \A k \in 0..n : k \in S
    BY <1>1, <1>3, <1>4, UpTo
  <2> QED BY <1>1, <2>1
<1>6. Open(n) = UNION {Opens(license[i], now) : i \in DOMAIN license}
  BY <1>1
<1>7. g[n] \in Sessions
  BY <1>1, <1>2
<1> HIDE DEF Open
<1>8. /\ got \in Sessions /\ IsInjective(got.scope)
      /\ Range(got.scope) = UNION {Opens(license[i], now) : i \in DOMAIN license}
  BY <1>2, <1>5, <1>6, <1>7
<1> QED
  BY <1>8, Zenon DEF got

\* A list after the removal of one place: one shorter, the places behind it moved up.
LEMMA Removed ==
    ASSUME NEW T, NEW s \in Seq(T), NEW i \in 1..Len(s)
    PROVE  /\ RemoveAt(s, i) \in Seq(T) /\ Len(RemoveAt(s, i)) = Len(s) - 1
           /\ \A j \in 1..(i - 1) : RemoveAt(s, i)[j] = s[j]
           /\ \A j \in i..(Len(s) - 1) : RemoveAt(s, i)[j] = s[j + 1]
<1> DEFINE n == Len(s)
           a == SubSeq(s, 1, i - 1)
           b == SubSeq(s, i + 1, n)
<1>1. n \in Nat /\ i \in Nat /\ 1 <= i /\ i <= n /\ \A j \in 1..n : s[j] \in T
  OBVIOUS
<1> HIDE DEF n
<1>2. a \in Seq(T) /\ Len(a) = i - 1 /\ \A j \in 1..(i - 1) : a[j] = s[j]
  <2>1. i - 1 \in Int /\ \A j \in 1..(i - 1) : s[j] \in T
    BY <1>1
  <2>2. /\ a \in Seq(T) /\ Len(a) = (IF 1 <= i - 1 THEN (i - 1) - 1 + 1 ELSE 0)
        /\ \A j \in 1..((i - 1) - 1 + 1) : a[j] = s[1 + j - 1]
    BY <2>1, SubSeqProperties
  <2> HIDE DEF a
  <2> QED BY <1>1, <2>2
<1>3. b \in Seq(T) /\ Len(b) = n - i /\ \A j \in 1..(n - i) : b[j] = s[i + j]
  <2>1. i + 1 \in Int /\ n \in Int /\ \A j \in (i + 1)..n : s[j] \in T
    BY <1>1
  <2>2. /\ b \in Seq(T) /\ Len(b) = (IF i + 1 <= n THEN n - (i + 1) + 1 ELSE 0)
        /\ \A j \in 1..(n - (i + 1) + 1) : b[j] = s[(i + 1) + j - 1]
    BY <2>1, SubSeqProperties
  <2> HIDE DEF b
  <2> QED BY <1>1, <2>2
<1>4. RemoveAt(s, i) = a \o b
  BY DEF RemoveAt, n
<1> HIDE DEF a, b
<1> DEFINE r == a \o b
<1>5. /\ r \in Seq(T) /\ Len(r) = Len(a) + Len(b)
      /\ \A j \in 1..(Len(a) + Len(b)) : r[j] = IF j <= Len(a) THEN a[j] ELSE b[j - Len(a)]
  BY <1>2, <1>3, ConcatProperties
<1> HIDE DEF r
<1>6. Len(r) = n - 1 /\ \A j \in 1..(n - 1) : r[j] = IF j <= i - 1 THEN a[j] ELSE b[j - (i - 1)]
  BY <1>1, <1>2, <1>3, <1>5
<1>7. \A j \in 1..(i - 1) : r[j] = s[j]
  BY <1>1, <1>2, <1>6
<1>8. ASSUME NEW j \in i..(n - 1)
      PROVE  r[j] = s[j + 1]
  <2>1. j \in 1..(n - 1) /\ ~ (j <= i - 1) /\ j - (i - 1) \in 1..(n - i) /\ i + (j - (i - 1)) = j + 1
    BY <1>1
  <2> QED BY <1>3, <1>6, <2>1
<1> QED
  BY <1>4, <1>5, <1>6, <1>7, <1>8 DEF r, n

\* The state of the loop that removes: its place and the list it works on.
Walks(T) == [i : Nat \ {0}, scope : Seq(T)]

\* A turn of the loop removes a place of the list or moves on.
LEMMA WalkTyped ==
    ASSUME NEW T, NEW a \in Walks(T), NEW classes
    PROVE  dropStep(a, classes) \in Walks(T)
<1>1. a.i \in Nat \ {0} /\ a.scope \in Seq(T) /\ a = [i |-> a.i, scope |-> a.scope]
  BY DEF Walks
<1>2. CASE a.i > Len(a.scope)
  BY <1>2 DEF dropStep
<1>3. CASE a.i <= Len(a.scope) /\ Granted(classes, a.scope[a.i])
  <2>1. dropStep(a, classes) = [a EXCEPT !.i = @ + 1]
    BY <1>1, <1>3 DEF dropStep
  <2> QED BY <1>1, <2>1 DEF Walks
<1>4. CASE a.i <= Len(a.scope) /\ ~ Granted(classes, a.scope[a.i])
  <2>1. dropStep(a, classes) = [a EXCEPT !.scope = RemoveAt(@, a.i)]
    BY <1>1, <1>4 DEF dropStep
  <2>2. RemoveAt(a.scope, a.i) \in Seq(T)
    BY <1>1, <1>4, Removed
  <2> QED BY <1>1, <2>1, <2>2 DEF Walks
<1> QED
  BY <1>1, <1>2, <1>3, <1>4

\* The states of the loop that removes, turn by turn.
WalkOf(g, T, scope, classes) ==
    /\ g \in [0..Len(scope) -> Walks(T)] /\ g[0] = [i |-> 1, scope |-> scope]
    /\ \A i \in 1..Len(scope) : g[i] = dropStep(g[i - 1], classes)
    /\ dropForeign(scope, classes) = g[Len(scope)].scope

\* The loop that removes classes has such states.
LEMMA DropLoop ==
    ASSUME NEW T, NEW scope \in Seq(T), NEW classes
    PROVE  \E g : WalkOf(g, T, scope, classes)
<1> DEFINE n == Len(scope)
           Op(loop, class) == dropStep(loop, classes)
           step == [p \in (1..n) \X Walks(T) |-> Op(p[2], scope[p[1]])]
           Body(f) == [s \in SUBSET (DOMAIN scope) |->
                          IF s = {} THEN [i |-> 1, scope |-> scope] ELSE Op(f[s \ {Max(s)}], scope[Max(s)])]
           iter == CHOOSE f : f = Body(f)
           g == [i \in 0..n |-> iter[1..i]]
<1>1. n \in Nat /\ DOMAIN scope = 1..n
  OBVIOUS
<1>2. step \in [(1..n) \X Walks(T) -> Walks(T)]
  <2>1. ASSUME NEW i \in 1..n, NEW a \in Walks(T)
        PROVE  Op(a, scope[i]) \in Walks(T)
    BY WalkTyped
  <2> HIDE DEF n, Op
  <2> QED BY <2>1
<1>3. PICK f : LoopOf(f, n, Walks(T), [i |-> 1, scope |-> scope], step)
  <2>1. [i |-> 1, scope |-> scope] \in Walks(T)
    BY DEF Walks
  <2> HIDE DEF step, n
  <2> QED BY <1>1, <1>2, <2>1, LoopRuns
<1>4. f = Body(f)
  <2>1. ASSUME NEW s \in SUBSET (1..n)
        PROVE  f[s] = IF s = {} THEN [i |-> 1, scope |-> scope] ELSE Op(f[s \ {Max(s)}], scope[Max(s)])
    <3> HIDE DEF Op, n
    <3> QED BY <1>1, <1>3 DEF LoopOf
  <2> HIDE DEF Op, n
  <2> QED BY <1>1, <1>3, <2>1 DEF LoopOf
<1>5. iter = Body(iter)
  <2> HIDE DEF Body
  <2> QED BY <1>4, Zenon
<1>6. dropForeign(scope, classes) = iter[1..n].scope
  BY <1>1 DEF dropForeign, FoldLeft, MapThenFoldSet
<1> HIDE DEF iter, n, step, Op
<1>7. {} \in SUBSET (1..n) /\ 1..0 = {}
  OBVIOUS
<1>8. iter[1..0] = [i |-> 1, scope |-> scope]
  BY <1>1, <1>5, <1>7
<1>9. ASSUME NEW i \in 1..n
      PROVE  iter[1..i] = Op(iter[1..(i - 1)], scope[i])
  <2>1. /\ 1..i \in SUBSET (1..n) /\ 1..i # {}
        /\ Max(1..i) = i /\ (1..i) \ {i} = 1..(i - 1)
    BY <1>1, Passed
  <2> QED BY <1>1, <1>5, <2>1
<1>10. \A i \in 0..n : iter[1..i] \in Walks(T)
  <2> DEFINE S == {i \in 0..n : iter[1..i] \in Walks(T)}
  <2>1. 0 \in S
    BY <1>1, <1>3, <1>8 DEF LoopOf
  <2>2. ASSUME NEW k \in 0..(n - 1), k \in S
        PROVE  k + 1 \in S
    <3>1. k + 1 \in 1..n /\ (k + 1) - 1 = k
      BY <1>1
    <3>2. iter[1..(k + 1)] = Op(iter[1..k], scope[k + 1])
      BY <1>9, <3>1
    <3>3. step[<<k + 1, iter[1..k]>>] = Op(iter[1..k], scope[k + 1])
      BY <2>2, <3>1 DEF step
    <3> QED BY <1>1, <1>2, <2>2, <3>1, <3>2, <3>3
  <2>3. \A k \in 0..n : k \in S
    <3> HIDE DEF S
    <3> QED BY <1>1, <2>1, <2>2, UpTo
  <2> QED BY <2>3
<1>11. /\ g \in [0..n -> Walks(T)] /\ g[0] = [i |-> 1, scope |-> scope] /\ g[n] = iter[1..n]
       /\ \A i \in 1..n : g[i] = Op(g[i - 1], scope[i])
  BY <1>1, <1>8, <1>9, <1>10
<1> QED
  BY <1>6, <1>11 DEF n, Op, WalkOf

\* What the loop has done after k turns over the list s: in front of its place are, once
\* each, the classes of the first k that the user has a grant for, behind it the others.
Walked(a, s, classes, k) ==
    LET p == a.i - 1
    IN  /\ Len(a.scope) = p + (Len(s) - k)
        /\ \A j \in 1..(Len(s) - k) : a.scope[p + j] = s[k + j]
        /\ \A q \in 1..p : \E j \in 1..k : a.scope[q] = s[j] /\ Granted(classes, s[j])
        /\ \A j \in 1..k : Granted(classes, s[j]) => \E q \in 1..p : a.scope[q] = s[j]
        /\ \A q, r \in 1..p : a.scope[q] = a.scope[r] => q = r

\* A turn deals with one class more.
LEMMA OneTurn ==
    ASSUME NEW T, NEW s \in Seq(T), IsInjective(s), NEW classes, NEW k \in 0..(Len(s) - 1),
           NEW a \in Walks(T), Walked(a, s, classes, k)
    PROVE  Walked(dropStep(a, classes), s, classes, k + 1)
<1> DEFINE n == Len(s)
           p == a.i - 1
           list == a.scope
           e == s[k + 1]
           b == dropStep(a, classes)
<1>1. /\ n \in Nat /\ k \in Nat /\ k + 1 <= n /\ DOMAIN s = 1..n
      /\ p \in Nat /\ a.i = p + 1 /\ list \in Seq(T)
  BY DEF Walks
<1>2. /\ Len(list) = p + (n - k)
      /\ \A j \in 1..(n - k) : list[p + j] = s[k + j]
      /\ \A q \in 1..p : \E j \in 1..k : list[q] = s[j] /\ Granted(classes, s[j])
      /\ \A j \in 1..k : Granted(classes, s[j]) => \E q \in 1..p : list[q] = s[j]
      /\ \A q, r \in 1..p : list[q] = list[r] => q = r
  BY DEF Walked
<1>3. \A i, j \in 1..n : s[i] = s[j] => i = j
  BY <1>1 DEF IsInjective
<1>4. a.i \in 1..Len(list)
  <2> HIDE DEF n, p, list
  <2> QED BY <1>1, <1>2
<1>5. list[a.i] = e
  <2>1. 1 \in 1..(n - k)
    BY <1>1
  <2> HIDE DEF n, p, list
  <2> QED BY <1>1, <1>2, <2>1
<1>6. ~ (a.i > Len(list))
  BY <1>1, <1>4
<1>7. \A q \in 1..p : list[q] # e
  <2>1. \A j \in 1..k : j \in 1..n /\ k + 1 \in 1..n /\ j # k + 1
    BY <1>1
  <2> HIDE DEF n, p, list
  <2> QED BY <1>2, <1>3, <2>1
<1>8. CASE Granted(classes, e)
  <2>1. b = [a EXCEPT !.i = @ + 1]
    BY <1>5, <1>6, <1>8 DEF dropStep
  <2>2. b.scope = list /\ b.i - 1 = p + 1
    BY <1>1, <2>1 DEF Walks
  <2> HIDE DEF n, p, list, b, e
  <2>3. Len(list) = (p + 1) + (n - (k + 1))
    BY <1>1, <1>2
  <2>4. ASSUME NEW j \in 1..(n - (k + 1))
        PROVE  list[(p + 1) + j] = s[(k + 1) + j]
    <3>1. j + 1 \in 1..(n - k) /\ p + (j + 1) = (p + 1) + j /\ k + (j + 1) = (k + 1) + j
      BY <1>1
    <3> QED BY <1>2, <3>1
  <2>5. ASSUME NEW q \in 1..(p + 1)
        PROVE  \E j \in 1..(k + 1) : list[q] = s[j] /\ Granted(classes, s[j])
    <3>1. CASE q \in 1..p
      <4>1. 1..k \subseteq 1..(k + 1)
        BY <1>1
      <4> QED BY <1>2, <3>1, <4>1
    <3>2. CASE q = p + 1
      <4>1. k + 1 \in 1..(k + 1)
        BY <1>1
      <4> QED BY <1>1, <1>5, <1>8, <3>2, <4>1 DEF e
    <3> QED BY <1>1, <3>1, <3>2
  <2>6. ASSUME NEW j \in 1..(k + 1), Granted(classes, s[j])
        PROVE  \E q \in 1..(p + 1) : list[q] = s[j]
    <3>1. CASE j \in 1..k
      <4>1. 1..p \subseteq 1..(p + 1)
        BY <1>1
      <4> QED BY <1>2, <2>6, <3>1, <4>1
    <3>2. CASE j = k + 1
      <4>1. p + 1 \in 1..(p + 1)
        BY <1>1
      <4> QED BY <1>1, <1>5, <3>2, <4>1 DEF e
    <3> QED BY <1>1, <3>1, <3>2
  <2>7. ASSUME NEW q \in 1..(p + 1), NEW r \in 1..(p + 1), list[q] = list[r]
        PROVE  q = r
    <3>1. (q \in 1..p \/ q = p + 1) /\ (r \in 1..p \/ r = p + 1)
      BY <1>1
    <3>2. list[p + 1] = e
      BY <1>1, <1>5
    <3> QED BY <1>2, <1>7, <2>7, <3>1, <3>2
  <2> QED BY <2>2, <2>3, <2>4, <2>5, <2>6, <2>7 DEF Walked, n, b
<1>9. CASE ~ Granted(classes, e)
  <2> DEFINE rest == RemoveAt(list, a.i)
  <2>1. b = [a EXCEPT !.scope = RemoveAt(@, a.i)]
    BY <1>5, <1>6, <1>9 DEF dropStep
  <2>2. b.scope = rest /\ b.i - 1 = p
    BY <1>1, <2>1 DEF Walks
  <2>3. /\ Len(rest) = Len(list) - 1
        /\ \A j \in 1..(a.i - 1) : rest[j] = list[j]
        /\ \A j \in a.i..(Len(list) - 1) : rest[j] = list[j + 1]
    <3> HIDE DEF list
    <3> QED BY <1>1, <1>4, Removed
  <2> HIDE DEF n, p, list, b, e, rest
  <2>4. \A q \in 1..p : rest[q] = list[q]
    BY <1>1, <2>3
  <2>5. Len(rest) = p + (n - (k + 1))
    BY <1>1, <1>2, <2>3
  <2>6. ASSUME NEW j \in 1..(n - (k + 1))
        PROVE  rest[p + j] = s[(k + 1) + j]
    <3>1. /\ j + 1 \in 1..(n - k) /\ p + (j + 1) = (p + j) + 1 /\ k + (j + 1) = (k + 1) + j
          /\ p + j \in a.i..(Len(list) - 1)
      BY <1>1, <1>2
    <3>2. rest[p + j] = list[(p + j) + 1]
      BY <2>3, <3>1
    <3>3. list[p + (j + 1)] = s[k + (j + 1)]
      BY <1>2, <3>1
    <3> QED BY <3>1, <3>2, <3>3
  <2>7. ASSUME NEW q \in 1..p
        PROVE  \E j \in 1..(k + 1) : rest[q] = s[j] /\ Granted(classes, s[j])
    <3>1. 1..k \subseteq 1..(k + 1)
      BY <1>1
    <3> QED BY <1>2, <2>4, <3>1
  <2>8. ASSUME NEW j \in 1..(k + 1), Granted(classes, s[j])
        PROVE  \E q \in 1..p : rest[q] = s[j]
    <3>1. j \in 1..k
      <4>1. j # k + 1
        BY <1>9, <2>8 DEF e
      <4> QED BY <1>1, <4>1
    <3> QED BY <1>2, <2>4, <2>8, <3>1
  <2>9. \A q, r \in 1..p : rest[q] = rest[r] => q = r
    BY <1>2, <2>4
  <2> QED BY <2>2, <2>5, <2>6, <2>7, <2>8, <2>9 DEF Walked, n, b
<1> QED
  BY <1>8, <1>9

\* The loop over a list without duplicates keeps exactly the classes the user has a grant
\* for.
LEMMA ForeignDropped ==
    ASSUME NEW T, NEW scope \in Seq(T), IsInjective(scope), NEW classes
    PROVE  /\ Range(dropForeign(scope, classes)) = {c \in Range(scope) : Granted(classes, c)}
           /\ IsInjective(dropForeign(scope, classes))
<1> DEFINE n == Len(scope)
<1>1. n \in Nat /\ DOMAIN scope = 1..n
  OBVIOUS
<1>2. PICK g : /\ g \in [0..n -> Walks(T)] /\ g[0] = [i |-> 1, scope |-> scope]
               /\ \A i \in 1..n : g[i] = dropStep(g[i - 1], classes)
               /\ dropForeign(scope, classes) = g[n].scope
  <2>1. PICK f : WalkOf(f, T, scope, classes)
    BY DropLoop
  <2> QED BY <2>1 DEF WalkOf
<1> DEFINE S == {k \in 0..n : Walked(g[k], scope, classes, k)}
<1>3. 0 \in S
  <2>1. g[0].i - 1 = 0 /\ g[0].scope = scope
    BY <1>2
  <2>2. n - 0 = n /\ 0 + n = n /\ \A j \in 1..n : 0 + j = j
    BY <1>1
  <2>3. 1..0 = {}
    OBVIOUS
  <2>4. Walked(g[0], scope, classes, 0)
    BY <1>1, <2>1, <2>2, <2>3 DEF Walked
  <2>5. 0 \in 0..n
    BY <1>1
  <2> QED BY <2>4, <2>5
<1>4. ASSUME NEW k \in 0..(n - 1), k \in S
      PROVE  k + 1 \in S
  <2>1. k + 1 \in 1..n /\ k + 1 \in 0..n /\ (k + 1) - 1 = k /\ k \in 0..n
    BY <1>1
  <2>2. g[k] \in Walks(T) /\ g[k + 1] = dropStep(g[k], classes)
    BY <1>2, <2>1
  <2>3. Walked(g[k + 1], scope, classes, k + 1)
    BY <1>4, <2>2, OneTurn
  <2> QED BY <2>1, <2>3
<1>5. Walked(g[n], scope, classes, n)
  <2> HIDE DEF S, n
  <2>1. \A k \in 0..n : k \in S
    BY <1>1, <1>3, <1>4, UpTo
  <2>2. n \in S
    BY <1>1, <2>1
  <2> QED BY <2>2 DEF S
<1> DEFINE list == g[n].scope
           p == g[n].i - 1
<1>6. g[n] \in Walks(T)
  BY <1>1, <1>2
<1>7. list \in Seq(T) /\ p \in Nat
  BY <1>6 DEF Walks
<1>8. /\ Len(list) = p
      /\ \A q \in 1..p : \E j \in 1..n : list[q] = scope[j] /\ Granted(classes, scope[j])
      /\ \A j \in 1..n : Granted(classes, scope[j]) => \E q \in 1..p : list[q] = scope[j]
      /\ \A q, r \in 1..p : list[q] = list[r] => q = r
  <2>1. p + (n - n) = p
    BY <1>1, <1>7
  <2> QED BY <1>5, <2>1 DEF Walked
<1>9. DOMAIN list = 1..p
  BY <1>7, <1>8
<1> HIDE DEF n, list, p
<1>10. {list[q] : q \in 1..p} = {c \in {scope[j] : j \in 1..n} : Granted(classes, c)}
  <2>1. ASSUME NEW q \in 1..p
        PROVE  list[q] \in {c \in {scope[j] : j \in 1..n} : Granted(classes, c)}
    <3>1. PICK j \in 1..n : list[q] = scope[j] /\ Granted(classes, scope[j])
      BY <1>8
    <3> QED BY <3>1
  <2>2. ASSUME NEW j \in 1..n, Granted(classes, scope[j])
        PROVE  scope[j] \in {list[q] : q \in 1..p}
    <3>1. PICK q \in 1..p : list[q] = scope[j]
      BY <1>8, <2>2
    <3> QED BY <3>1
  <2> QED BY <2>1, <2>2, Zenon
<1>11. IsInjective(list)
  BY <1>8, <1>9 DEF IsInjective
<1> QED
  BY <1>1, <1>2, <1>9, <1>10, <1>11 DEF Range, list

\* For every list of licences and of classes of the user, the scope holds, once each,
\* exactly the classes that an active product names and the user has a grant for.
THEOREM ScopeIsGranted == Spec => []ScopeGranted
<1>1. Init => ScopeGranted
  <2> SUFFICES ASSUME Init, input.what = "licence"
               PROVE  ScopeGranted
    BY DEF ScopeGranted
  <2> DEFINE license == input.license
             classes == input.classes
             scope == licenseActiveScope(license, classes, Now).scope
             active == {i \in DOMAIN license : /\ license[i].expires <= 0 \/ Now < license[i].expires
                                               /\ license[i].issued <= Now}
             Named(i) == {c.base : c \in Range(license[i].scope)}
             named == UNION {Named(i) : i \in active}
             held == {c.base : c \in {d \in Range(classes) : ~ d.padded}}
             got == FoldLeft(LAMBDA acc, prod : addProduct(acc, prod, Now),
                             [valid |-> <<>>, scope |-> <<>>], license)
  <2>1. license \in Seq(Products) /\ classes \in Seq(ClassNames) /\ Now \in Nat
    BY InputTyped, InputsAssumption
  <2> HIDE DEF license, classes
  <2> SUFFICES Range(scope) = (named \cap held) \ {""} /\ IsInjective(scope)
    BY Zenon DEF ScopeGranted, license, classes
  <2>2. /\ got \in Sessions /\ IsInjective(got.scope)
        /\ Range(got.scope) = UNION {Opens(license[i], Now) : i \in DOMAIN license}
    BY <2>1, ProductsAdded, Zenon
  <2>3. UNION {Opens(license[i], Now) : i \in DOMAIN license} = named \ {""}
    <3>1. \A i \in DOMAIN license :
             Opens(license[i], Now) = IF i \in active THEN Named(i) \ {""} ELSE {}
      <4>1. \A i \in DOMAIN license : Bases(license[i].scope) = Named(i) \ {""}
        BY Zenon DEF Bases, Range
      <4>2. \A i \in DOMAIN license :
               i \in active <=> /\ license[i].expires <= 0 \/ Now < license[i].expires
                              /\ license[i].issued <= Now
        BY Zenon
      <4> HIDE DEF Named, active
      <4> QED BY <4>1, <4>2, Zenon DEF Opens
    <3>2. active \subseteq DOMAIN license
      OBVIOUS
    <3> HIDE DEF Named, active
    <3> QED BY <3>1, <3>2
  <2>4. \A c : c \in held <=> Granted(classes, c)
    BY Zenon DEF Granted, caseIgnoreMatch, Range
  <2>5. scope = IF got.scope = <<>> THEN <<>> ELSE dropForeign(got.scope, classes)
    <3>1. licenseActiveScope(license, classes, Now) =
             IF got.scope = <<>> THEN [valid |-> <<>>, scope |-> <<>>]
             ELSE [valid |-> got.valid, scope |-> dropForeign(got.scope, classes)]
      BY Zenon DEF licenseActiveScope
    <3> HIDE DEF got
    <3> QED BY <3>1
  <2> HIDE DEF got, named, held, scope
  <2>6. CASE got.scope = <<>>
    <3>1. scope = <<>>
      BY <2>5, <2>6
    <3>2. Range(<<>>) = {} /\ IsInjective(<<>>)
      BY DEF Range, IsInjective
    <3>3. named \ {""} = {}
      BY <2>2, <2>3, <2>6, <3>2, Zenon
    <3> QED BY <3>1, <3>2, <3>3, Zenon
  <2>7. CASE got.scope # <<>>
    <3>1. scope = dropForeign(got.scope, classes)
      BY <2>5, <2>7
    <3>2. got.scope \in Seq(STRING)
      BY <2>2 DEF Sessions
    <3>3. /\ Range(scope) = {c \in Range(got.scope) : Granted(classes, c)}
          /\ IsInjective(scope)
      BY <2>2, <3>1, <3>2, ForeignDropped, Zenon
    <3>4. Range(got.scope) = named \ {""}
      BY <2>2, <2>3, Zenon
    <3>5. {c \in named \ {""} : Granted(classes, c)} = (named \cap held) \ {""}
      BY <2>4, Zenon
    <3> QED BY <3>3, <3>4, <3>5, Zenon
  <2> QED BY <2>6, <2>7
<1> QED
  BY <1>1, InputKept, PTL

=============================================================================
