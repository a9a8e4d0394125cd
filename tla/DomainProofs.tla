---------------------------- MODULE DomainProofs ----------------------------
(***************************************************************************)
(* Proofs about the domain: whatever the operators, and in whatever order  *)
(* the sets are enumerated, the binary codes are codes, nobody is forced   *)
(* into an error, and the automaton follows the operators it was read      *)
(* from.                                                                   *)
(***************************************************************************)
EXTENDS Domain, FiniteSetTheorems, WellFoundedInduction, TLAPS

-----------------------------------------------------------------------------
(* Functions that are defined by recursion over the naturals.  What is     *)
(* proved about them is proved from the least number that would refute it. *)

\* A set of naturals has a least element.
LEMMA LeastNumber ==
  ASSUME NEW T \in SUBSET Nat, T # {}
  PROVE  \E m \in T : \A k \in T : m <= k
<1>. DEFINE R == OpToRel(<, Nat)
<1>1. \E m \in T : \A k \in T : <<k, m>> \notin R
  BY NatLessThanWellFounded, WFMin, Zenon
<1>2. PICK m \in T : \A k \in T : <<k, m>> \notin R
  BY <1>1
<1>3. \A k \in T : m <= k
  <2>. SUFFICES ASSUME NEW k \in T, ~ (m <= k) PROVE FALSE
    OBVIOUS
  <2>1. k < m /\ <<k, m>> \in Nat \X Nat
    OBVIOUS
  <2>2. <<k, m>>[1] < <<k, m>>[2]
    BY <2>1
  <2>3. <<k, m>> \in R
    BY <2>1, <2>2 DEF OpToRel
  <2>. QED
    BY <2>3, <1>2
<1>. QED
  BY <1>3


\* Induction for sets: a set with every number whose predecessors it has, has them all.
LEMMA Induction ==
  ASSUME NEW S, \A n \in Nat : 0 .. n - 1 \subseteq S => n \in S
  PROVE  Nat \subseteq S
<1>. SUFFICES ASSUME Nat \ S # {} PROVE FALSE
  OBVIOUS
<1>1. PICK n \in Nat \ S : \A k \in Nat \ S : n <= k
  BY LeastNumber
<1>2. 0 .. n - 1 \subseteq S
  BY <1>1
<1>. QED
  BY <1>1, <1>2

\* h goes down to 0, and f is the function that starts with a and follows G along h.
Descends(h) == \A m \in Nat \ {0} : h[m] \in 0 .. m - 1
Recurs(f, a, G, h) ==
  /\ f = [m \in Nat |-> f[m]]
  /\ f[0] = a
  /\ \A m \in Nat \ {0} : f[m] = G[m][f[h[m]]]

\* g is such a function as far as n.
Follows(g, m, a, G, h) == g[m] = IF m = 0 THEN a ELSE G[m][g[h[m]]]
Approximates(g, n, a, G, h) == \A m \in 0 .. n : Follows(g, m, a, G, h)

\* Two approximations agree as far as both go.
LEMMA ApproximationsAgree ==
  ASSUME NEW a, NEW G, NEW h, Descends(h),
         NEW n \in Nat, NEW g, Approximates(g, n, a, G, h),
         NEW n2 \in Nat, NEW g2, Approximates(g2, n2, a, G, h), n <= n2
  PROVE  \A m \in 0 .. n : g[m] = g2[m]
<1>. DEFINE S == {m \in Nat : m <= n => g[m] = g2[m]}
<1>1. ASSUME NEW m \in Nat, 0 .. m - 1 \subseteq S
      PROVE  m \in S
  <2>. SUFFICES ASSUME m <= n PROVE g[m] = g2[m]
    OBVIOUS
  <2>1. Follows(g, m, a, G, h) /\ Follows(g2, m, a, G, h)
    BY DEF Approximates
  <2>2. CASE m = 0
    BY <2>1, <2>2 DEF Follows
  <2>3. CASE m # 0
    <3>1. h[m] \in 0 .. m - 1
      BY <2>3 DEF Descends
    <3>2. g[h[m]] = g2[h[m]]
      BY <3>1, <1>1
    <3>. QED
      BY <2>1, <3>2, <2>3 DEF Follows
  <2>. QED
    BY <2>2, <2>3
<1>2. Nat \subseteq S
  <2>. HIDE DEF S
  <2>. QED
    BY <1>1, Induction
<1>. QED
  BY <1>2

\* Such a function exists.
LEMMA Recursion ==
  ASSUME NEW a, NEW G, NEW h, Descends(h)
  PROVE  \E f : Recurs(f, a, G, h)
<1>. DEFINE Ok(g, n) == Approximates(g, n, a, G, h)
<1>. DEFINE S == {n \in Nat : \E g : Ok(g, n)}
<1>1. ASSUME NEW n \in Nat, 0 .. n - 1 \subseteq S
      PROVE  n \in S
  <2>. SUFFICES \E g : Ok(g, n)
    OBVIOUS
  <2>3. CASE n = 0
    <3>1. Ok([m \in 0 .. 0 |-> a], 0)
      BY DEF Follows, Approximates
    <3>. QED
      BY <3>1, <2>3
  <2>4. CASE n # 0
    <3>1. n - 1 \in 0 .. n - 1 /\ n - 1 \in S
      BY <1>1, <2>4
    <3>2. PICK g : Ok(g, n - 1)
      BY <3>1
    <3>3. h[n] \in 0 .. n - 1
      BY <2>4 DEF Descends
    <3>. DEFINE x == G[n][g[h[n]]]
                g2 == [m \in 0 .. n |-> IF m = n THEN x ELSE g[m]]
    <3>4. g2[n] = x /\ \A m \in 0 .. n - 1 : g2[m] = g[m]
      OBVIOUS
    <3>5. x = G[n][g[h[n]]]
      OBVIOUS
    <3>. HIDE DEF x, g2
    <3>6. ASSUME NEW m \in 0 .. n PROVE Follows(g2, m, a, G, h)
      <4>1. CASE m = n
        BY <4>1, <2>4, <3>3, <3>4, <3>5 DEF Follows
      <4>2. CASE m # n
        <5>1. m \in 0 .. n - 1 /\ Follows(g, m, a, G, h) /\ g2[m] = g[m]
          BY <4>2, <3>2, <3>4 DEF Approximates
        <5>2. CASE m = 0
          BY <5>1, <5>2 DEF Follows
        <5>3. CASE m # 0
          <6>1. h[m] \in 0 .. n - 1 /\ g2[h[m]] = g[h[m]]
            <7>1. h[m] \in 0 .. m - 1
              BY <5>3, <5>1 DEF Descends
            <7>. QED
              BY <7>1, <5>1, <3>4
          <6>. QED
            BY <5>1, <6>1, <5>3 DEF Follows
        <5>. QED
          BY <5>2, <5>3
      <4>. QED
        BY <4>1, <4>2
    <3>7. Ok(g2, n)
      BY <3>6 DEF Approximates
    <3>. QED
      BY <3>7
  <2>. QED
    BY <2>3, <2>4
<1>2. \A n \in Nat : \E g : Ok(g, n)
  <2>1. Nat \subseteq S
    <3>. HIDE DEF S
    <3>. QED
      BY <1>1, Induction
  <2>. QED
    BY <2>1
<1>. DEFINE part == [n \in Nat |-> CHOOSE g : Ok(g, n)]
            f == [n \in Nat |-> part[n][n]]
<1>3. ASSUME NEW n \in Nat PROVE Ok(part[n], n)
  <2>1. part[n] = CHOOSE g : Ok(g, n)
    OBVIOUS
  <2>2. Ok(CHOOSE g : Ok(g, n), n)
    <3>. HIDE DEF Ok
    <3>. QED BY <1>2, Zenon
  <2>. HIDE DEF Ok, part
  <2>. QED
    BY <2>1, <2>2, Zenon
<1>4. ASSUME NEW m \in Nat
      PROVE  f[m] = IF m = 0 THEN a ELSE G[m][f[h[m]]]
  <2>0. Ok(part[m], m)
    BY <1>3, Zenon
  <2>1. Ok(part[m], m) /\ m \in 0 .. m
    BY <2>0
  <2>2. Follows(part[m], m, a, G, h)
    <3>. HIDE DEF part
    <3>. QED BY <2>1 DEF Approximates
  <2>3. CASE m = 0
    <3>. HIDE DEF part
    <3>. QED BY <2>2, <2>3 DEF Follows
  <2>4. CASE m # 0
    <3>1. h[m] \in 0 .. m - 1 /\ h[m] \in Nat /\ h[m] <= m /\ h[m] \in 0 .. h[m]
      BY <2>4 DEF Descends
    <3>2. Ok(part[h[m]], h[m])
      BY <1>3, <3>1, Zenon
    <3>. HIDE DEF part
    <3>. DEFINE g1 == part[h[m]]
                g2 == part[m]
                n1 == h[m]
    <3>3. Approximates(g1, n1, a, G, h) /\ Approximates(g2, m, a, G, h) /\ n1 \in Nat /\ n1 <= m
      BY <3>1, <3>2, <2>1
    <3>4. \A k \in 0 .. n1 : g1[k] = g2[k]
      <4>. HIDE DEF g1, g2, n1
      <4>. QED
        BY <3>3, ApproximationsAgree
    <3>. QED
      BY <3>4, <3>1, <2>2, <2>4 DEF Follows
  <2>. QED
    BY <2>3, <2>4
<1>5. DOMAIN f = Nat /\ f = [n \in Nat |-> f[n]]
  <2>. HIDE DEF part
  <2>. QED OBVIOUS
<1>. HIDE DEF f
<1>6. f[0] = a /\ \A m \in Nat \ {0} : f[m] = G[m][f[h[m]]]
  BY <1>4
<1>. QED
  BY <1>5, <1>6 DEF Recurs

\* The number of significant bits of n, without the recursion.
LEMMA BitCountEquation ==
  /\ \A n \in Nat : bitCount[n] \in Nat
  /\ bitCount[0] = 0
  /\ \A n \in Nat \ {0} : bitCount[n] = 1 + bitCount[n \div 2]
<1>. DEFINE G == [n \in Nat |-> [x \in Nat |-> 1 + x]]
            h == [n \in Nat |-> n \div 2]
<1>1. Descends(h)
  BY DEF Descends
<1>2. \A n \in Nat : h[n] = n \div 2 /\ \A x \in Nat : G[n][x] = 1 + x
  OBVIOUS
<1>. HIDE DEF G, h
<1>3. PICK f : Recurs(f, 0, G, h)
  BY <1>1, Recursion, Zenon
<1>4. f = [n \in Nat |-> f[n]] /\ f[0] = 0 /\ \A n \in Nat \ {0} : f[n] = G[n][f[h[n]]]
  BY <1>3, Zenon DEF Recurs
<1>5. \A n \in Nat : f[n] \in Nat
  <2>. DEFINE S == {n \in Nat : f[n] \in Nat}
  <2>1. ASSUME NEW n \in Nat, 0 .. n - 1 \subseteq S
        PROVE  f[n] \in Nat
    <3>1. CASE n = 0
      BY <3>1, <1>4
    <3>2. CASE n # 0
      <4>1. h[n] \in 0 .. n - 1
        BY <1>1, <3>2 DEF Descends
      <4>2. f[h[n]] \in Nat
        BY <4>1, <2>1
      <4>3. f[n] = G[n][f[h[n]]]
        BY <3>2, <1>4
      <4>. QED
        BY <4>2, <4>3, <1>2
    <3>. QED
      BY <3>1, <3>2
  <2>2. \A n \in Nat : 0 .. n - 1 \subseteq S => n \in S
    BY <2>1
  <2>3. Nat \subseteq S
    <3>. HIDE DEF S
    <3>. QED
      BY <2>2, Induction
  <2>. QED
    BY <2>3
<1>6. \A n \in Nat : f[n] = IF n = 0 THEN 0 ELSE 1 + f[n \div 2]
  <2>1. ASSUME NEW n \in Nat, n # 0
        PROVE  G[n][f[h[n]]] = 1 + f[n \div 2]
    BY <1>5, <1>2, <2>1, <1>1 DEF Descends
  <2>. QED
    BY <2>1, <1>4
<1>7. f = [n \in Nat |-> IF n = 0 THEN 0 ELSE 1 + f[n \div 2]]
  BY <1>4, <1>6, Zenon
<1>8. bitCount = [n \in Nat |-> IF n = 0 THEN 0 ELSE 1 + bitCount[n \div 2]]
  BY <1>7, Zenon DEF bitCount
<1>9. \A n \in Nat : bitCount[n] = IF n = 0 THEN 0 ELSE 1 + bitCount[n \div 2]
  BY <1>8
<1>10. \A n \in Nat : bitCount[n] \in Nat
  <2>. DEFINE S == {n \in Nat : bitCount[n] \in Nat}
  <2>1. ASSUME NEW n \in Nat, 0 .. n - 1 \subseteq S
        PROVE  bitCount[n] \in Nat
    <3>1. CASE n = 0
      BY <3>1, <1>9
    <3>2. CASE n # 0
      <4>1. n \div 2 \in 0 .. n - 1
        BY <3>2
      <4>2. bitCount[n \div 2] \in Nat
        BY <4>1, <2>1
      <4>. QED
        BY <4>2, <3>2, <1>9
    <3>. QED
      BY <3>1, <3>2
  <2>2. \A n \in Nat : 0 .. n - 1 \subseteq S => n \in S
    BY <2>1
  <2>3. Nat \subseteq S
    <3>. HIDE DEF S
    <3>. QED
      BY <2>2, Induction
  <2>. QED
    BY <2>3
<1>. QED
  BY <1>9, <1>10

\* The powers of two, without the recursion.
LEMMA PowerOfTwoEquation ==
  /\ \A n \in Nat : powerOfTwo[n] \in Nat
  /\ powerOfTwo[0] = 1
  /\ \A n \in Nat \ {0} : powerOfTwo[n] = 2 * powerOfTwo[n - 1]
<1>. DEFINE G == [n \in Nat |-> [x \in Nat |-> 2 * x]]
            h == [n \in Nat |-> n - 1]
<1>1. Descends(h)
  BY DEF Descends
<1>2. \A n \in Nat : h[n] = n - 1 /\ \A x \in Nat : G[n][x] = 2 * x
  OBVIOUS
<1>. HIDE DEF G, h
<1>3. PICK f : Recurs(f, 1, G, h)
  BY <1>1, Recursion, Zenon
<1>4. f = [n \in Nat |-> f[n]] /\ f[0] = 1 /\ \A n \in Nat \ {0} : f[n] = G[n][f[h[n]]]
  BY <1>3, Zenon DEF Recurs
<1>5. \A n \in Nat : f[n] \in Nat
  <2>. DEFINE S == {n \in Nat : f[n] \in Nat}
  <2>1. ASSUME NEW n \in Nat, 0 .. n - 1 \subseteq S
        PROVE  f[n] \in Nat
    <3>1. CASE n = 0
      BY <3>1, <1>4
    <3>2. CASE n # 0
      <4>1. h[n] \in 0 .. n - 1
        BY <1>1, <3>2 DEF Descends
      <4>2. f[h[n]] \in Nat
        BY <4>1, <2>1
      <4>3. f[n] = G[n][f[h[n]]]
        BY <3>2, <1>4
      <4>. QED
        BY <4>2, <4>3, <1>2
    <3>. QED
      BY <3>1, <3>2
  <2>2. \A n \in Nat : 0 .. n - 1 \subseteq S => n \in S
    BY <2>1
  <2>3. Nat \subseteq S
    <3>. HIDE DEF S
    <3>. QED
      BY <2>2, Induction
  <2>. QED
    BY <2>3
<1>6. \A n \in Nat : f[n] = IF n = 0 THEN 1 ELSE 2 * f[n - 1]
  <2>1. ASSUME NEW n \in Nat, n # 0
        PROVE  G[n][f[h[n]]] = 2 * f[n - 1]
    BY <1>5, <1>2, <2>1, <1>1 DEF Descends
  <2>. QED
    BY <2>1, <1>4
<1>7. f = [n \in Nat |-> IF n = 0 THEN 1 ELSE 2 * f[n - 1]]
  BY <1>4, <1>6, Zenon
<1>8. powerOfTwo = [n \in Nat |-> IF n = 0 THEN 1 ELSE 2 * powerOfTwo[n - 1]]
  BY <1>7, Zenon DEF powerOfTwo
<1>9. \A n \in Nat : powerOfTwo[n] = IF n = 0 THEN 1 ELSE 2 * powerOfTwo[n - 1]
  BY <1>8
<1>10. \A n \in Nat : powerOfTwo[n] \in Nat
  <2>. DEFINE S == {n \in Nat : powerOfTwo[n] \in Nat}
  <2>1. ASSUME NEW n \in Nat, 0 .. n - 1 \subseteq S
        PROVE  powerOfTwo[n] \in Nat
    <3>1. CASE n = 0
      BY <3>1, <1>9
    <3>2. CASE n # 0
      <4>1. n - 1 \in 0 .. n - 1
        BY <3>2
      <4>2. powerOfTwo[n - 1] \in Nat
        BY <4>1, <2>1
      <4>. QED
        BY <4>2, <3>2, <1>9
    <3>. QED
      BY <3>1, <3>2
  <2>2. \A n \in Nat : 0 .. n - 1 \subseteq S => n \in S
    BY <2>1
  <2>3. Nat \subseteq S
    <3>. HIDE DEF S
    <3>. QED
      BY <2>2, Induction
  <2>. QED
    BY <2>3
<1>. QED
  BY <1>9, <1>10

\* n has enough bits.
LEMMA EnoughBits ==
  /\ \A k \in Nat : powerOfTwo[k] \in Nat \ {0}
  /\ \A n \in Nat : n < powerOfTwo[bitCount[n]]
<1>. DEFINE T == {k \in Nat : powerOfTwo[k] # 0}
            S == {n \in Nat : n < powerOfTwo[bitCount[n]]}
<1>1. ASSUME NEW k \in Nat, 0 .. k - 1 \subseteq T
      PROVE  k \in T
  <2>1. CASE k = 0
    BY <2>1, PowerOfTwoEquation
  <2>2. CASE k # 0
    <3>1. k - 1 \in Nat /\ powerOfTwo[k - 1] # 0 /\ powerOfTwo[k - 1] \in Nat
      BY <1>1, <2>2, PowerOfTwoEquation
    <3>2. powerOfTwo[k] = 2 * powerOfTwo[k - 1]
      BY <2>2, PowerOfTwoEquation
    <3>. QED
      BY <3>1, <3>2
  <2>. QED
    BY <2>1, <2>2
<1>2. ASSUME NEW n \in Nat, 0 .. n - 1 \subseteq S
      PROVE  n \in S
  <2>1. CASE n = 0
    BY <2>1, BitCountEquation, PowerOfTwoEquation
  <2>2. CASE n # 0
    <3>. DEFINE half == n \div 2
    <3>1. half \in Nat /\ half \in 0 .. n - 1 /\ n <= 2 * half + 1
      BY <2>2
    <3>. HIDE DEF half
    <3>2. half < powerOfTwo[bitCount[half]]
      BY <1>2, <3>1
    <3>3. bitCount[n] = 1 + bitCount[half] /\ bitCount[half] \in Nat
      BY <2>2, <3>1, BitCountEquation DEF half
    <3>4. powerOfTwo[bitCount[n]] = 2 * powerOfTwo[bitCount[half]] /\ powerOfTwo[bitCount[half]] \in Nat
      BY <3>3, PowerOfTwoEquation
    <3>. QED
      BY <3>1, <3>2, <3>4
  <2>. QED
    BY <2>1, <2>2
<1>3. Nat \subseteq T
  <2>. HIDE DEF T
  <2>. QED
    BY <1>1, Induction
<1>4. Nat \subseteq S
  <2>. HIDE DEF S
  <2>. QED
    BY <1>2, Induction
<1>. QED
  BY <1>3, <1>4, PowerOfTwoEquation

\* get_bits: a set that is not empty has a code for each of its elements.
LEMMA CodesSuffice ==
  ASSUME NEW S, IsFiniteSet(S), S # {}
  PROVE  /\ Cardinality(S) \in Nat \ {0}
         /\ 0 .. Cardinality(S) - 1 \subseteq Codes(S)
         /\ Codes(S) \subseteq Nat
<1>. DEFINE n == Cardinality(S)
<1>1. n \in Nat \ {0}
  BY FS_CardinalityType, FS_EmptySet
<1>2. Bits(S) \in Nat /\ powerOfTwo[Bits(S)] \in Nat /\ n - 1 < powerOfTwo[Bits(S)]
  <2>1. CASE n = 1
    <3>1. Bits(S) = 1
      BY <2>1 DEF Bits
    <3>2. powerOfTwo[1] \in Nat \ {0}
      BY EnoughBits
    <3>. QED
      BY <2>1, <3>1, <3>2
  <2>2. CASE n # 1
    <3>1. Bits(S) = bitCount[n - 1] /\ n - 1 \in Nat
      BY <1>1, <2>2 DEF Bits
    <3>. HIDE DEF n
    <3>2. bitCount[n - 1] \in Nat
      BY <3>1, BitCountEquation
    <3>. QED
      BY <3>1, <3>2, EnoughBits
  <2>. QED
    BY <2>1, <2>2
<1>. QED
  BY <1>1, <1>2 DEF Codes

-----------------------------------------------------------------------------
(* What is read and how it is numbered.                                    *)

OperatorSet == {SASOperators[i] : i \in DOMAIN SASOperators}

\* A code for each name, each its own, in the variables there are for them.
IsNumbering(code, names) ==
  /\ code \in [names -> Codes(names)]
  /\ \A m, n \in names : code[m] = code[n] => m = n

\* What actions_ contains: nop, from the first operator on, and of each operator
\* that was read its lists.
Inv ==
  /\ phase \in {"read", "encode", "play"}
  /\ unread \in Seq(OperatorSet)
  /\ phase # "read" => unread = <<>>
  /\ IsFiniteSet(actions)
  /\ \A z \in actions : z = Nop \/ \E op \in OperatorSet : z = Parsed(op)
  /\ \A op \in OperatorSet : Parsed(op) \in actions \/ \E j \in DOMAIN unread : unread[j] = op
  /\ unread = SASOperators \/ Nop \in actions
  /\ phase # "play" => input = <<>>
  /\ phase = "play" =>
       /\ IsNumbering(actionCode, ActionNames)
       /\ IsNumbering(reactionCode, ReactionNames)
       /\ preOf \in [ActionNames -> actions]
       /\ \A n \in ActionNames : preOf[n].act = n

\* The names in an operator: no operator is nop, none has the name of another.
LEMMA OperatorNames ==
  /\ NoName # NopName /\ NoName # FirstReaction
  /\ \A op \in OperatorSet : op.act # NopName /\ op.act # NoName /\ op.react # NoName
  /\ \A op, other \in OperatorSet :
       /\ op.act = other.act => op.prevail = other.prevail
       /\ op.act = other.act /\ op.react = other.react => op = other
  BY OperatorsAssumption DEF OperatorSet

LEMMA ParsedNames ==
  /\ Nop.act = NopName /\ Nop.react = FirstReaction
  /\ Nop.pos = {} /\ Nop.neg = {} /\ Nop.add = {} /\ Nop.del = {}
  /\ \A op \in OperatorSet : Parsed(op).act = op.act /\ Parsed(op).react = op.react
  BY DEF Nop, Parsed

\* Two elements of actions_ with the same names are the same.
LEMMA NamesIdentify ==
  ASSUME Inv, NEW z \in actions, NEW w \in actions, z.act = w.act, z.react = w.react
  PROVE  z = w
<1>1. z = Nop \/ \E op \in OperatorSet : z = Parsed(op)
  BY DEF Inv
<1>2. w = Nop \/ \E op \in OperatorSet : w = Parsed(op)
  BY DEF Inv
<1>3. CASE z = Nop \/ w = Nop
  BY <1>1, <1>2, <1>3, OperatorNames, ParsedNames
<1>4. CASE z # Nop /\ w # Nop
  <2>1. PICK p \in OperatorSet : z = Parsed(p)
    BY <1>1, <1>4
  <2>2. PICK q \in OperatorSet : w = Parsed(q)
    BY <1>2, <1>4
  <2>3. p = q
    BY <2>1, <2>2, OperatorNames, ParsedNames
  <2>. QED
    BY <2>1, <2>2, <2>3
<1>. QED
  BY <1>3, <1>4

\* The loop over an unordered set gives every element a number of its own.
LEMMA NumberedIsNumbering ==
  ASSUME NEW S, IsFiniteSet(S), S # {}, NEW order \in Orders(S)
  PROVE  IsNumbering(Numbered(S, order), S)
<1>. DEFINE n == Cardinality(S)
            at(x) == CHOOSE i \in DOMAIN order : order[i] = x
            code == Numbered(S, order)
<1>1. n \in Nat \ {0} /\ 0 .. n - 1 \subseteq Codes(S)
  BY CodesSuffice
<1>2. order \in [1 .. n -> S] /\ \A x \in S : \E i \in DOMAIN order : order[i] = x
  BY DEF Orders
<1>3. \A x \in S : at(x) \in 1 .. n /\ order[at(x)] = x
  BY <1>2
<1>4. code = [x \in S |-> at(x) - 1]
  BY DEF Numbered
<1>. HIDE DEF at, n, code
<1>5. \A x \in S : code[x] = at(x) - 1
  BY <1>4
<1>6. code \in [S -> Codes(S)]
  <2>1. \A x \in S : at(x) - 1 \in Codes(S)
    BY <1>1, <1>3
  <2>. QED
    BY <1>4, <2>1
<1>7. ASSUME NEW x \in S, NEW y \in S, code[x] = code[y]
      PROVE  x = y
  <2>1. at(x) = at(y)
    BY <1>3, <1>5, <1>7
  <2>. QED
    BY <1>3, <2>1
<1>. QED
  BY <1>6, <1>7 DEF IsNumbering, code

\* The names of a finite set of actions are finitely many.
LEMMA FiniteNames ==
  ASSUME IsFiniteSet(actions)
  PROVE  IsFiniteSet(ActionNames) /\ IsFiniteSet(ReactionNames)
<1>1. [z \in actions |-> z.act] \in Surjection(actions, ActionNames)
  BY DEF Surjection, ActionNames
<1>2. [z \in actions |-> z.react] \in Surjection(actions, ReactionNames)
  BY DEF Surjection, ReactionNames
<1>. QED
  BY <1>1, <1>2, FS_Surjection

-----------------------------------------------------------------------------
(* The invariant.                                                          *)

LEMMA InitInv == DomainInit => Inv
<1>. SUFFICES ASSUME DomainInit PROVE Inv
  OBVIOUS
<1>1. unread = SASOperators /\ actions = {} /\ phase = "read" /\ input = <<>>
  BY DEF DomainInit
<1>2. unread \in Seq(OperatorSet)
  BY <1>1, OperatorsAssumption DEF OperatorSet
<1>3. \A op \in OperatorSet : \E j \in DOMAIN unread : unread[j] = op
  BY <1>1 DEF OperatorSet
<1>. QED
  BY <1>1, <1>2, <1>3, FS_EmptySet DEF Inv

LEMMA ReadOperatorInv ==
  ASSUME Inv, ReadOperator
  PROVE  Inv'
<1>. DEFINE op == Head(unread)
            with == Inserted(actions, Nop)
<1>1. /\ phase = "read" /\ unread # <<>> /\ unread' = Tail(unread)
      /\ actions' = Inserted(with, Parsed(op))
      /\ phase' = phase /\ input' = input
  BY DEF ReadOperator, stateVars
<1>2. /\ unread \in Seq(OperatorSet) /\ op \in OperatorSet
      /\ Tail(unread) \in Seq(OperatorSet)
      /\ \A j \in DOMAIN unread : unread[j] = op \/ \E i \in DOMAIN Tail(unread) : Tail(unread)[i] = unread[j]
  <2>1. unread \in Seq(OperatorSet)
    BY DEF Inv
  <2>2. op = unread[1] /\ op \in OperatorSet /\ Tail(unread) \in Seq(OperatorSet)
    BY <1>1, <2>1
  <2>3. ASSUME NEW j \in DOMAIN unread, j # 1
        PROVE  \E i \in DOMAIN Tail(unread) : Tail(unread)[i] = unread[j]
    <3>1. j - 1 \in DOMAIN Tail(unread) /\ Tail(unread)[j - 1] = unread[j]
      BY <1>1, <2>1, <2>3
    <3>. QED
      BY <3>1
  <2>. QED
    BY <2>1, <2>2, <2>3
<1>3. with \subseteq actions \cup {Nop} /\ Nop \in with /\ actions \subseteq with
  <2>1. ASSUME NEW y \in actions, y.act = Nop.act
        PROVE  y = Nop
    <3>1. y = Nop \/ \E p \in OperatorSet : y = Parsed(p)
      BY DEF Inv
    <3>. QED
      BY <2>1, <3>1, OperatorNames, ParsedNames
  <2>. QED
    BY <2>1 DEF Inserted
<1>4. /\ actions' \subseteq with \cup {Parsed(op)}
      /\ Parsed(op) \in actions' /\ with \subseteq actions'
  <2>1. ASSUME NEW y \in with, y.act = Parsed(op).act, y.react = Parsed(op).react
        PROVE  y = Parsed(op)
    <3>1. y = Nop \/ \E p \in OperatorSet : y = Parsed(p)
      BY <1>3 DEF Inv
    <3>. QED
      BY <1>2, <2>1, <3>1, OperatorNames, ParsedNames
  <2>. QED
    BY <1>1, <2>1 DEF Inserted
<1>. HIDE DEF op, with
<1>5. IsFiniteSet(actions')
  <2>1. IsFiniteSet(actions \cup {Nop}) /\ IsFiniteSet((actions \cup {Nop}) \cup {Parsed(op)})
    BY FS_AddElement DEF Inv
  <2>2. actions' \in SUBSET ((actions \cup {Nop}) \cup {Parsed(op)})
    BY <1>3, <1>4
  <2>. QED
    BY <2>1, <2>2, FS_Subset
<1>6. \A z \in actions' : z = Nop \/ \E p \in OperatorSet : z = Parsed(p)
  BY <1>2, <1>3, <1>4 DEF Inv
<1>7. \A p \in OperatorSet : Parsed(p) \in actions' \/ \E j \in DOMAIN unread' : unread'[j] = p
  BY <1>1, <1>2, <1>3, <1>4 DEF Inv
<1>8. Nop \in actions'
  BY <1>3, <1>4
<1>. QED
  BY <1>1, <1>2, <1>5, <1>6, <1>7, <1>8 DEF Inv

LEMMA ReadEndInv ==
  ASSUME Inv, ReadEnd
  PROVE  Inv'
  BY DEF Inv, ReadEnd, stateVars, ActionNames, ReactionNames

LEMMA EncodeInv ==
  ASSUME Inv, Encode
  PROVE  Inv'
<1>1. phase = "encode" /\ unread = <<>> /\ phase' = "play" /\ unread' = unread /\ actions' = actions
  BY DEF Inv, Encode
<1>2. Nop \in actions
  BY <1>1, OperatorsAssumption DEF Inv
<1>3. /\ IsFiniteSet(ActionNames) /\ IsFiniteSet(ReactionNames)
      /\ ActionNames # {} /\ ReactionNames # {}
  BY <1>2, FiniteNames DEF Inv, ActionNames, ReactionNames
<1>4. IsNumbering(actionCode', ActionNames)
  BY <1>3, NumberedIsNumbering DEF Encode
<1>5. IsNumbering(reactionCode', ReactionNames)
  BY <1>3, NumberedIsNumbering DEF Encode
<1>6. preOf' \in [ActionNames -> actions] /\ \A n \in ActionNames : preOf'[n].act = n
  BY DEF Encode
<1>7. ActionNames' = ActionNames /\ ReactionNames' = ReactionNames
  BY <1>1 DEF ActionNames, ReactionNames
<1>. QED
  BY <1>1, <1>4, <1>5, <1>6, <1>7 DEF Inv

\* The automaton changes nothing that was loaded.
LEMMA ReadInv ==
  ASSUME Inv, NEW x, NEW y, Read(x, y)
  PROVE  Inv'
  BY DEF Inv, Read, loadVars, ActionNames, ReactionNames

LEMMA InductiveInv == Inv /\ [DomainNext]_domainVars => Inv'
<1>. SUFFICES ASSUME Inv, [DomainNext]_domainVars PROVE Inv'
  OBVIOUS
<1>1. CASE ReadOperator
  BY <1>1, ReadOperatorInv
<1>2. CASE ReadEnd
  BY <1>2, ReadEndInv
<1>3. CASE Encode
  BY <1>3, EncodeInv
<1>4. CASE Play
  BY <1>4, ReadInv DEF Play
<1>5. CASE UNCHANGED domainVars
  BY <1>5 DEF Inv, domainVars, loadVars, stateVars, ActionNames, ReactionNames
<1>. QED
  BY <1>1, <1>2, <1>3, <1>4, <1>5 DEF DomainNext, Load

\* actions_ holds nop and the operators that were read, and in play the codes of
\* actions and of reactions are numberings: as many bits as get_bits counts are
\* enough, and no two names share a code.
THEOREM DomainInv == DomainSpec => []Inv
<1>. QED
  BY InitInv, InductiveInv, PTL DEF DomainSpec

-----------------------------------------------------------------------------
(* The properties of the game's domain.                                    *)

\* The code of a name is one of the codes, and stands for nothing else.
LEMMA CodesInPlay ==
  ASSUME Inv, phase = "play"
  PROVE  /\ \A n \in ActionNames : actionCode[n] \in Codes(ActionNames)
         /\ \A r \in ReactionNames : reactionCode[r] \in Codes(ReactionNames)
         /\ \A m, n \in ActionNames : actionCode[m] = actionCode[n] => m = n
         /\ \A q, r \in ReactionNames : reactionCode[q] = reactionCode[r] => q = r
         /\ \A z \in actions : z.act \in ActionNames /\ z.react \in ReactionNames
         /\ NopName \in ActionNames /\ FirstReaction \in ReactionNames /\ Nop \in actions
         /\ \A n \in ActionNames : preOf[n] \in actions /\ preOf[n].act = n
         /\ unread = <<>> /\ \A op \in OperatorSet : Parsed(op) \in actions
<1>1. IsNumbering(actionCode, ActionNames) /\ IsNumbering(reactionCode, ReactionNames)
  BY DEF Inv
<1>2. unread = <<>> /\ Nop \in actions
  BY OperatorsAssumption DEF Inv
<1>3. \A z \in actions : z.act \in ActionNames /\ z.react \in ReactionNames
  BY DEF ActionNames, ReactionNames
<1>4. NopName \in ActionNames /\ FirstReaction \in ReactionNames
  BY <1>2, <1>3, ParsedNames
<1>5. \A n \in ActionNames : preOf[n] \in actions /\ preOf[n].act = n
  BY DEF Inv
<1>6. \A op \in OperatorSet : Parsed(op) \in actions
  BY <1>2 DEF Inv
<1>. QED
  BY <1>1, <1>2, <1>3, <1>4, <1>5, <1>6 DEF IsNumbering

\* The codes of a pair of names select the one element of actions_ that has both.
LEMMA PlayedAlone ==
  ASSUME Inv, phase = "play", NEW z \in actions
  PROVE  Played(actionCode[z.act], reactionCode[z.react]) = {z}
<1>1. ASSUME NEW w \in actions, actionCode[w.act] = actionCode[z.act], reactionCode[w.react] = reactionCode[z.react]
      PROVE  w = z
  BY <1>1, CodesInPlay, NamesIdentify
<1>. QED
  BY <1>1 DEF Played

LEMMA OutcomesPlayable == Inv => EveryOutcomePlayable
<1>. SUFFICES ASSUME Inv, phase = "play", NEW z \in actions
              PROVE  \E x \in Codes(ActionNames), y \in Codes(ReactionNames) : Played(x, y) = {z}
  BY DEF EveryOutcomePlayable
<1>1. actionCode[z.act] \in Codes(ActionNames) /\ reactionCode[z.react] \in Codes(ReactionNames)
  BY CodesInPlay
<1>. QED
  BY <1>1, PlayedAlone

LEMMA NoneForced == Inv => NobodyIsForced
<1>. SUFFICES ASSUME Inv, phase = "play" PROVE NobodyIsForced
  BY DEF NobodyIsForced
<1>1. ~ AgentErrs(facts, actionCode[NopName])
  <2>1. AgentMutex(actionCode[NopName])
    BY CodesInPlay DEF AgentMutex
  <2>2. preOf[NopName] = Nop
    BY CodesInPlay, NamesIdentify, ParsedNames, OperatorNames DEF Inv
  <2>3. AgentPre(facts, actionCode[NopName])
    BY <2>2, CodesInPlay, ParsedNames DEF AgentPre
  <2>. QED
    BY <2>1, <2>3 DEF AgentErrs
<1>2. ASSUME NEW x \in Codes(ActionNames), AgentMutex(x)
      PROVE  \E y \in Codes(ReactionNames) : ~ EnvErrs(x, y)
  <2>1. PICK n \in ActionNames : actionCode[n] = x
    BY <1>2 DEF AgentMutex
  <2>2. PICK z \in actions : z.act = n
    BY DEF ActionNames
  <2>3. reactionCode[z.react] \in Codes(ReactionNames) /\ z.react \in ReactionNames
    BY CodesInPlay
  <2>4. EnvMutex(reactionCode[z.react])
    BY <2>3 DEF EnvMutex
  <2>5. EnvPre(x, reactionCode[z.react])
    BY <2>1, <2>2, <2>3, CodesInPlay DEF EnvPre
  <2>. QED
    BY <2>3, <2>4, <2>5 DEF EnvErrs
<1>. QED
  BY <1>1, <1>2, CodesInPlay DEF NobodyIsForced

\* Every outcome of every action has an input of its own that plays it and nothing
\* else: to_symbolic never gives one code to two names and get_bits never counts a
\* bit too few, however many operators there are and in whatever order the sets
\* are enumerated.
THEOREM OutcomesAlwaysPlayable == DomainSpec => []EveryOutcomePlayable
<1>. QED
  BY DomainInv, OutcomesPlayable, PTL

\* The agent can always play nop without an error, and the environment can answer
\* every code of an action without one.
THEOREM NobodyIsEverForced == DomainSpec => []NobodyIsForced
<1>. QED
  BY DomainInv, NoneForced, PTL

-----------------------------------------------------------------------------
(* The automaton implements the domain of the operators.                   *)

\* The effect lines that parse_sas recognises all the effects in: none with a
\* condition, and none that makes a variable false without asking for it to be true.
RecognisedLines ==
  \A op \in OperatorSet : \A e \in op.prepost : e.cond = {} /\ (e.pre = -1 => e.post = 0)

\* The operators of the instances, element by element.
LEMMA LegalOperators ==
  ASSUME NEW a, NEW s
  PROVE  Fond!Legal(a, s) <=>
           \/ a = NopName
           \/ /\ \E op \in OperatorSet : op.act = a
              /\ \A op \in OperatorSet : op.act = a =>
                   \A c \in op.prevail : (c[1] \in s) = (c[2] = 0)
  BY DEF Fond!Legal, OperatorSet

LEMMA ReactionsOfOperators ==
  ASSUME NEW a
  PROVE  Fond!Reactions(a) = IF a = NopName THEN {FirstReaction}
                             ELSE {op.react : op \in {p \in OperatorSet : p.act = a}}
  BY DEF Fond!Reactions, OperatorSet

\* The lists pos and neg say what the prevail lines say.
LEMMA ListsSayPrevail ==
  ASSUME NEW op \in OperatorSet, NEW s
  PROVE  (Parsed(op).pos \subseteq s /\ Parsed(op).neg \cap s = {})
           <=> \A c \in op.prevail : (c[1] \in s) = (c[2] = 0)
<1>1. \A c \in op.prevail : c[2] \in {0, 1}
  BY OperatorsAssumption DEF OperatorSet
<1>2. /\ Parsed(op).pos = {c[1] : c \in {d \in op.prevail : d[2] = 0}}
      /\ Parsed(op).neg = {c[1] : c \in {d \in op.prevail : d[2] = 1}}
  BY DEF Parsed
<1>. QED
  BY <1>1, <1>2

\* The lists add and del say what the effects do to facts in which the prevail
\* lines hold.
LEMMA ListsSayEffects ==
  ASSUME NEW op \in OperatorSet, NEW s, RecognisedLines,
         \A c \in op.prevail : (c[1] \in s) = (c[2] = 0)
  PROVE  (s \ Parsed(op).del) \cup Parsed(op).add = Fond!Result(op, s)
<1>1. ASSUME NEW e \in op.prepost
      PROVE  /\ e.cond = {} /\ (e.pre = -1 => e.post = 0)
             /\ e.post \in {0, 1} /\ e.pre # e.post /\ e.pre \in {-1, 0, 1}
             /\ e.pre # -1 => (e.var \in s) = (e.pre = 0)
  <2>1. e.cond = {} /\ (e.pre = -1 => e.post = 0)
    BY DEF RecognisedLines
  <2>2. e.post \in {0, 1} /\ e.pre # e.post /\ (e.pre # -1 => <<e.var, e.pre>> \in op.prevail)
    BY OperatorsAssumption DEF OperatorSet
  <2>3. \A c \in op.prevail : c[2] \in {0, 1}
    BY OperatorsAssumption DEF OperatorSet
  <2>4. CASE e.pre # -1
    <3>. DEFINE c == <<e.var, e.pre>>
    <3>1. c \in op.prevail /\ c[1] = e.var /\ c[2] = e.pre
      BY <2>2, <2>4
    <3>. HIDE DEF c
    <3>2. (c[1] \in s) = (c[2] = 0) /\ c[2] \in {0, 1}
      BY <3>1, <2>3
    <3>. QED
      BY <2>1, <2>2, <3>1, <3>2
  <2>5. CASE e.pre = -1
    BY <2>1, <2>2, <2>5
  <2>. QED
    BY <2>4, <2>5
<1>2. \A e \in op.prepost : Fond!Triggered(e, s)
  BY <1>1 DEF Fond!Triggered
<1>3. Parsed(op).add = {e.var : e \in {d \in op.prepost : d.post = 0 /\ Fond!Triggered(d, s)}}
  <2>1. Parsed(op).add = {e.var : e \in {d \in {e \in op.prepost : e.cond = {}} : d.pre \in {-1, 1} /\ d.post = 0}}
    BY DEF Parsed
  <2>. QED
    BY <2>1, <1>1, <1>2
<1>4. Parsed(op).del = {e.var : e \in {d \in op.prepost : d.post = 1 /\ Fond!Triggered(d, s)}}
  <2>1. Parsed(op).del = {e.var : e \in {d \in {e \in op.prepost : e.cond = {}} : d.pre = 0 /\ d.post = 1}}
    BY DEF Parsed
  <2>. QED
    BY <2>1, <1>1, <1>2
<1>. QED
  BY <1>3, <1>4 DEF Fond!Result

\* The name of a code: the one name that has it, or none.
LEMMA NameOfCode ==
  ASSUME NEW names, NEW code, IsNumbering(code, names), NEW c
  PROVE  /\ \A n \in names : code[n] = c => NameOf(code, c) = n
         /\ (\A n \in names : code[n] # c) => NameOf(code, c) = NoName
<1>1. DOMAIN code = names /\ \A m, n \in names : code[m] = code[n] => m = n
  BY DEF IsNumbering
<1>. QED
  BY <1>1 DEF NameOf

\* The agent's error bit is set by the moves that are not legal.
LEMMA AgentErrsIllegal ==
  ASSUME Inv, phase = "play", NEW x, NEW s
  PROVE  AgentErrs(s, x) <=> ~ Fond!Legal(NameOf(actionCode, x), s)
<1>1. IsNumbering(actionCode, ActionNames)
  BY DEF Inv
<1>2. CASE ~ AgentMutex(x)
  <2>1. NameOf(actionCode, x) = NoName
    BY <1>1, <1>2, NameOfCode DEF AgentMutex
  <2>. QED
    BY <2>1, <1>2, OperatorNames, LegalOperators DEF AgentErrs
<1>3. ASSUME NEW n \in ActionNames, actionCode[n] = x
      PROVE  AgentErrs(s, x) <=> ~ Fond!Legal(NameOf(actionCode, x), s)
  <2>1. NameOf(actionCode, x) = n
    BY <1>1, <1>3, NameOfCode
  <2>2. AgentErrs(s, x) <=> ~ (preOf[n].pos \subseteq s /\ preOf[n].neg \cap s = {})
    BY <1>3, CodesInPlay DEF AgentErrs, AgentMutex, AgentPre
  <2>3. preOf[n] \in actions /\ preOf[n].act = n
    BY CodesInPlay
  <2>4. CASE preOf[n] = Nop
    BY <2>1, <2>2, <2>3, <2>4, ParsedNames, LegalOperators
  <2>5. CASE preOf[n] # Nop
    <3>1. PICK op \in OperatorSet : preOf[n] = Parsed(op)
      BY <2>3, <2>5 DEF Inv
    <3>2. op.act = n /\ n # NopName
      BY <2>3, <3>1, ParsedNames, OperatorNames
    <3>3. Fond!Legal(n, s) <=> \A c \in op.prevail : (c[1] \in s) = (c[2] = 0)
      BY <3>2, OperatorNames, LegalOperators
    <3>4. (preOf[n].pos \subseteq s /\ preOf[n].neg \cap s = {})
            <=> \A c \in op.prevail : (c[1] \in s) = (c[2] = 0)
      <4>1. (Parsed(op).pos \subseteq s /\ Parsed(op).neg \cap s = {})
              <=> \A c \in op.prevail : (c[1] \in s) = (c[2] = 0)
        BY ListsSayPrevail
      <4>. QED
        BY <3>1, <4>1
    <3>5. AgentErrs(s, x) <=> ~ Fond!Legal(n, s)
      BY <2>2, <3>3, <3>4, Zenon
    <3>. QED
      BY <2>1, <3>5
  <2>. QED
    BY <2>4, <2>5
<1>. QED
  BY <1>2, <1>3 DEF AgentMutex

\* The environment's error bit is set by the reactions that are not one of the
\* action's.
LEMMA EnvErrsForeign ==
  ASSUME Inv, phase = "play", NEW x, NEW y
  PROVE  EnvErrs(x, y) <=> NameOf(reactionCode, y) \notin Fond!Reactions(NameOf(actionCode, x))
<1>. DEFINE a == NameOf(actionCode, x)
            r == NameOf(reactionCode, y)
<1>1. IsNumbering(actionCode, ActionNames) /\ IsNumbering(reactionCode, ReactionNames)
  BY DEF Inv
<1>2. CASE ~ EnvMutex(y)
  <2>1. r = NoName
    BY <1>1, <1>2, NameOfCode DEF EnvMutex
  <2>2. NoName \notin Fond!Reactions(a)
    BY OperatorNames, ReactionsOfOperators
  <2>. QED
    BY <2>1, <2>2, <1>2 DEF EnvErrs
<1>3. ASSUME NEW q \in ReactionNames, reactionCode[q] = y
      PROVE  EnvErrs(x, y) <=> r \notin Fond!Reactions(a)
  <2>1. r = q
    BY <1>1, <1>3, NameOfCode
  <2>2. EnvErrs(x, y) <=> ~ \E z \in actions : z.react = q /\ actionCode[z.act] = x
    BY <1>3, CodesInPlay DEF EnvErrs, EnvMutex, EnvPre
  <2>3. \A z \in actions : actionCode[z.act] = x => z.act = a
    BY <1>1, CodesInPlay, NameOfCode
  <2>4. ASSUME NEW z \in actions, z.react = q, actionCode[z.act] = x
        PROVE  q \in Fond!Reactions(a)
    <3>1. z.act = a
      BY <2>3, <2>4
    <3>2. z = Nop \/ \E op \in OperatorSet : z = Parsed(op)
      BY DEF Inv
    <3>. HIDE DEF a, r
    <3>. QED
      BY <2>4, <3>1, <3>2, ParsedNames, OperatorNames, ReactionsOfOperators
  <2>5. ASSUME q \in Fond!Reactions(a)
        PROVE  \E z \in actions : z.react = q /\ actionCode[z.act] = x
    <3>1. PICK z \in actions : z.act = a /\ z.react = q
      <4>. HIDE DEF a, r
      <4>1. CASE a = NopName
        BY <2>5, <4>1, CodesInPlay, ParsedNames, ReactionsOfOperators
      <4>2. CASE a # NopName
        <5>1. PICK op \in OperatorSet : op.act = a /\ op.react = q
          BY <2>5, <4>2, ReactionsOfOperators
        <5>. QED
          BY <5>1, CodesInPlay, ParsedNames
      <4>. QED
        BY <4>1, <4>2
    <3>2. a \in ActionNames /\ a # NoName
      <4>1. a \in ActionNames
        BY <3>1, CodesInPlay
      <4>2. z = Nop \/ \E op \in OperatorSet : z = Parsed(op)
        BY DEF Inv
      <4>3. z.act # NoName
        BY <4>2, ParsedNames, OperatorNames
      <4>. QED
        BY <4>1, <4>3, <3>1
    <3>3. PICK n \in ActionNames : actionCode[n] = x
      BY <1>1, <3>2, NameOfCode
    <3>4. a = n
      BY <1>1, <3>3, NameOfCode
    <3>. QED
      BY <3>1, <3>3, <3>4
  <2>. QED
    BY <2>1, <2>2, <2>4, <2>5
<1>. QED
  BY <1>2, <1>3 DEF EnvMutex

\* One input of the automaton is one step of the domain.
LEMMA ReadIsStep ==
  ASSUME Inv, RecognisedLines, NEW x, NEW y, Read(x, y)
  PROVE  Fond!Step
<1>. DEFINE a == NameOf(actionCode, x)
            r == NameOf(reactionCode, y)
<1>1. phase = "play" /\ actionCode' = actionCode /\ reactionCode' = reactionCode /\ input' = <<x, y>>
  BY DEF Read, loadVars
<1>2. Move' = <<a, r>>
  BY <1>1 DEF Move
<1>3. agErr' = (agErr \/ ~ Fond!Legal(a, facts))
  BY <1>1, AgentErrsIllegal DEF Read
<1>4. envErr' = (envErr \/ r \notin Fond!Reactions(a))
  BY <1>1, EnvErrsForeign DEF Read
<1>5. ASSUME ~ agErr', ~ envErr'
      PROVE  \/ a = NopName /\ facts' = facts
             \/ \E i \in DOMAIN SASOperators :
                  /\ <<a, r>> = <<SASOperators[i].act, SASOperators[i].react>>
                  /\ facts' = Fond!Result(SASOperators[i], facts)
  <2>1. ~ AgentErrs(facts, x) /\ ~ EnvErrs(x, y)
    BY <1>5 DEF Read
  <2>2. PICK q \in ReactionNames : reactionCode[q] = y
    BY <2>1 DEF EnvErrs, EnvMutex
  <2>3. PICK z \in actions : z.react = q /\ actionCode[z.act] = x
    BY <2>1, <2>2 DEF EnvErrs, EnvPre
  <2>4. z.act = a /\ z.react = r
    BY <1>1, <2>2, <2>3, NameOfCode, CodesInPlay DEF Inv
  <2>5. Played(x, y) = {z}
    BY <1>1, <2>2, <2>3, PlayedAlone
  <2>6. facts' = (facts \ z.del) \cup z.add
    BY <2>5 DEF Read, FactsAfter
  <2>7. CASE z = Nop
    BY <2>4, <2>6, <2>7, ParsedNames
  <2>8. CASE z # Nop
    <3>1. PICK op \in OperatorSet : z = Parsed(op)
      BY <2>8 DEF Inv
    <3>2. op.act = a /\ op.react = r /\ a # NopName
      BY <2>4, <3>1, ParsedNames, OperatorNames
    <3>3. Fond!Legal(a, facts)
      BY <1>1, <2>1, AgentErrsIllegal
    <3>4. \A c \in op.prevail : (c[1] \in facts) = (c[2] = 0)
      BY <3>2, <3>3, LegalOperators
    <3>5. facts' = Fond!Result(op, facts)
      BY <2>6, <3>1, <3>4, ListsSayEffects
    <3>6. PICK i \in DOMAIN SASOperators : op = SASOperators[i]
      BY DEF OperatorSet
    <3>. QED
      BY <3>2, <3>5, <3>6
  <2>. QED
    BY <2>7, <2>8
<1>. HIDE DEF a, r
<1>6. Move'[1] = a /\ Move'[2] = r
  BY <1>2
<1>. QED
  BY <1>2, <1>3, <1>4, <1>5, <1>6 DEF Fond!Step

\* Loading and stuttering leave the domain where it is.
LEMMA LoadStutters ==
  ASSUME Inv, Load \/ UNCHANGED domainVars
  PROVE  UNCHANGED <<Move, facts, agErr, envErr>>
<1>1. CASE Load
  <2>1. UNCHANGED stateVars /\ phase # "play"
    BY <1>1 DEF Load, ReadOperator, ReadEnd, Encode
  <2>2. input = <<>> /\ input' = <<>>
    BY <2>1 DEF Inv, stateVars
  <2>. QED
    BY <2>1, <2>2 DEF Move, stateVars
<1>2. CASE UNCHANGED domainVars
  BY <1>2 DEF Move, NameOf, domainVars, loadVars, stateVars
<1>. QED
  BY <1>1, <1>2

LEMMA InitIsInit == DomainInit => Fond!Init
  BY DEF DomainInit, Fond!Init, Move

\* The automaton that the game is played on follows the operators of the file,
\* when all their effect lines are of the kinds that parse_sas recognises: as long
\* as nobody has broken a rule the facts are what the operators make of them, and
\* the error bits blame who first broke one.
THEOREM AutomatonImplementsFond ==
  ASSUME RecognisedLines
  PROVE  DomainSpec => ImplementsFond
<1>1. Inv /\ [DomainNext]_domainVars => [Fond!Step]_<<Move, facts, agErr, envErr>>
  <2>. SUFFICES ASSUME Inv, [DomainNext]_domainVars
                PROVE  [Fond!Step]_<<Move, facts, agErr, envErr>>
    OBVIOUS
  <2>1. CASE Load \/ UNCHANGED domainVars
    BY <2>1, LoadStutters
  <2>2. CASE Play
    <3>1. PICK x \in Codes(ActionNames), y \in Codes(ReactionNames) : Read(x, y)
      BY <2>2 DEF Play
    <3>. QED
      BY <3>1, ReadIsStep
  <2>. QED
    BY <2>1, <2>2 DEF DomainNext
<1>. QED
  BY <1>1, InitIsInit, DomainInv, PTL DEF DomainSpec, ImplementsFond, Fond!Spec

=============================================================================
