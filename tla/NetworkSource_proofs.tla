------------------------ MODULE NetworkSource_proofs ------------------------
(***************************************************************************)
(* For every timeline, any number of nodes, wrong and failed answers and   *)
(* restarts, and whatever the options: a node that copies the timeline of  *)
(* the network behaves as Replica says, and what it hands over is refused  *)
(* for want of a file only.                                                *)
(***************************************************************************)
EXTENDS NetworkSource, Lemmas

(***************************************************************************)
(* Timelines.                                                              *)
(***************************************************************************)

\* Element i is a sign block that follows place p, with none but sign blocks
\* in between.
IsAfter(tl, p, i) ==
    i \in DOMAIN tl /\ i > p /\ \A k \in p + 1 .. i : tl[k][1] = "sign"

LEMMA TimelineFacts ==
    ASSUME NEW tl, IsTimeline(tl)
    PROVE  /\ tl \in Seq({"block", "sign"} \X Nat)
           /\ Len(tl) \in Nat /\ DOMAIN tl = 1 .. Len(tl)
           /\ \A i \in 1 .. Len(tl) :
                /\ tl[i] \in {"block", "sign"} \X Nat /\ tl[i][2] \in Nat
                /\ tl[i][1] # "sign" => tl[i] = Block(tl[i][2]) /\ tl[i][1] = "block"
           /\ \A i, j \in 1 .. Len(tl) : tl[i] = tl[j] => i = j
<1>1. /\ tl \in Seq({"block", "sign"} \X Nat)
      /\ \A i, j \in DOMAIN tl : tl[i] = tl[j] => i = j
  BY DEF IsTimeline, IsInjective
<1>2. Len(tl) \in Nat /\ DOMAIN tl = 1 .. Len(tl)
  BY <1>1
<1>3. ASSUME NEW i \in 1 .. Len(tl)
      PROVE  /\ tl[i] \in {"block", "sign"} \X Nat /\ tl[i][2] \in Nat
             /\ tl[i][1] # "sign" => tl[i] = Block(tl[i][2]) /\ tl[i][1] = "block"
  <2>1. tl[i] \in {"block", "sign"} \X Nat
    BY <1>1, <1>2
  <2> QED
    BY <2>1 DEF Block
<1> QED
  BY <1>1, <1>2, <1>3

\* The first m elements are a timeline too.
LEMMA Prefix ==
    ASSUME NEW tl, IsTimeline(tl), NEW m \in 0 .. Len(tl)
    PROVE  /\ IsTimeline(SubSeq(tl, 1, m))
           /\ Len(SubSeq(tl, 1, m)) = m
           /\ \A i \in 1 .. m : SubSeq(tl, 1, m)[i] = tl[i]
<1>1. /\ tl \in Seq({"block", "sign"} \X Nat) /\ Len(tl) \in Nat
      /\ DOMAIN tl = 1 .. Len(tl) /\ m \in Nat /\ m <= Len(tl)
      /\ \A i, j \in 1 .. Len(tl) : tl[i] = tl[j] => i = j
  BY TimelineFacts
<1>2. PICK u : u = SubSeq(tl, 1, m)
  OBVIOUS
<1>3. /\ u \in Seq({"block", "sign"} \X Nat) /\ Len(u) = m /\ DOMAIN u = 1 .. m
      /\ \A i \in 1 .. m : u[i] = tl[i]
  BY <1>1, <1>2
<1>4. \A i \in 1 .. m : i \in 1 .. Len(tl)
  BY <1>1
<1>5. IsInjective(u)
  BY <1>1, <1>3, <1>4 DEF IsInjective
<1>6. ASSUME NEW i \in DOMAIN u
      PROVE  /\ i = 1 => u[i] = <<"block", 1>>
             /\ i # 1 /\ u[i][1] = "block" =>
                    \E j \in 1 .. i - 1 : u[j] = <<"block", u[i][2] - 1>>
  <2>1. /\ i = 1 => tl[i] = <<"block", 1>>
        /\ i # 1 /\ tl[i][1] = "block" =>
                    \E j \in 1 .. i - 1 : tl[j] = <<"block", tl[i][2] - 1>>
    BY <1>1, <1>3, <1>4 DEF IsTimeline
  <2>2. \A j \in 1 .. i - 1 : j \in 1 .. m
    BY <1>1, <1>3
  <2> QED
    BY <1>3, <2>1, <2>2
<1>7. IsTimeline(u)
  BY <1>3, <1>5, <1>6 DEF IsTimeline
<1> QED
  BY <1>2, <1>3, <1>7

\* The library's operator is the same one in the instance.
LEMMA InstanceCardinality == \A S : R!Cardinality(S) = Cardinality(S)
BY Zenon DEF R!Cardinality, Cardinality, R!IsFiniteSet, IsFiniteSet

\* The place of a block.
LEMMA PositionFacts ==
    ASSUME NEW tl, IsTimeline(tl), NEW n \in Nat \ {0},
           NEW i \in 1 .. Len(tl), tl[i] = Block(n)
    PROVE  R!Position(tl, n) = i
<1>1. DOMAIN tl = 1 .. Len(tl) /\ \A j \in 1 .. Len(tl) : tl[j] = tl[i] => j = i
  BY TimelineFacts
<1>2. PICK p : p = (CHOOSE j \in DOMAIN tl : tl[j] = <<"block", n>>)
  OBVIOUS
<1>3. p \in DOMAIN tl /\ tl[p] = <<"block", n>>
  BY <1>1, <1>2, Zenon DEF Block
<1>4. p = i
  BY <1>1, <1>3 DEF Block
<1> QED
  BY <1>2, <1>4 DEF R!Position

\* The sign blocks that follow a place are a run of elements.
LEMMA RunFacts ==
    ASSUME NEW tl, IsTimeline(tl), NEW p \in 0 .. Len(tl)
    PROVE  LET run == {i \in DOMAIN tl : i > p /\ \A k \in p + 1 .. i : R!IsSign(tl[k])}
           IN  /\ Cardinality(run) \in Nat
               /\ p + Cardinality(run) <= Len(tl)
               /\ \A i : i \in p + 1 .. p + Cardinality(run) <=> IsAfter(tl, p, i)
<1>1. Len(tl) \in Nat /\ DOMAIN tl = 1 .. Len(tl) /\ p \in Nat /\ p <= Len(tl)
  BY TimelineFacts
<1>2. PICK L \in Nat : L = Len(tl)
  BY <1>1
<1> DEFINE run == {i \in DOMAIN tl : i > p /\ \A k \in p + 1 .. i : R!IsSign(tl[k])}
           Ends == {i \in p + 1 .. L + 1 : i = L + 1 \/ tl[i][1] # "sign"}
<1>3. \A i : i \in run <=> IsAfter(tl, p, i)
  BY DEF IsAfter, R!IsSign
<1>4. PICK m \in Ends : \A i \in Ends : m <= i
  <2>1. Ends \subseteq Nat
    BY <1>1
  <2>2. L + 1 \in Ends
    BY <1>1, <1>2
  <2> QED
    BY <2>1, <2>2, NatMin, Zenon
<1>5. m \in p + 1 .. L + 1 /\ (m = L + 1 \/ tl[m][1] # "sign")
  OBVIOUS
<1>6. ASSUME NEW i \in p + 1 .. m - 1
      PROVE  IsAfter(tl, p, i)
  <2>1. i \in 1 .. L /\ i > p
    BY <1>1, <1>5
  <2>2. ASSUME NEW k \in p + 1 .. i PROVE tl[k][1] = "sign"
    <3>1. k \in p + 1 .. L + 1 /\ k # L + 1 /\ ~(m <= k)
      BY <1>1, <1>5, <2>1
    <3> QED
      BY <1>4, <3>1
  <2> QED
    BY <1>1, <1>2, <2>1, <2>2 DEF IsAfter
<1>7. ASSUME NEW i, IsAfter(tl, p, i)
      PROVE  i \in p + 1 .. m - 1
  <2>1. i \in 1 .. L /\ i > p /\ \A k \in p + 1 .. i : tl[k][1] = "sign"
    BY <1>1, <1>2, <1>7 DEF IsAfter
  <2>2. m \notin p + 1 .. i
    BY <1>5, <2>1
  <2> QED
    BY <1>1, <1>5, <2>1, <2>2
<1>8. run = p + 1 .. m - 1
  BY <1>3, <1>6, <1>7
<1>9. PICK c \in Nat : c = (m - 1) - p /\ p + c = m - 1
  BY <1>1, <1>5
<1>10. Cardinality(run) = c
  <2>1. Cardinality((p + 1) .. (m - 1)) = IF p + 1 > m - 1 THEN 0 ELSE (m - 1) - (p + 1) + 1
    <3>1. p + 1 \in Int /\ m - 1 \in Int
      BY <1>1, <1>5
    <3> QED
      BY <3>1, FS_Interval
  <2>2. (IF p + 1 > m - 1 THEN 0 ELSE (m - 1) - (p + 1) + 1) = c
    BY <1>1, <1>5, <1>9
  <2> HIDE DEF run
  <2> QED
    BY <1>8, <2>1, <2>2
<1>11. p + c <= Len(tl)
  BY <1>1, <1>2, <1>5, <1>9
<1>12. PICK r : r = run
  OBVIOUS
<1> HIDE DEF run
<1>13. \A i : i \in p + 1 .. p + c <=> IsAfter(tl, p, i)
  BY <1>3, <1>8, <1>9
<1> QED
  BY <1>10, <1>11, <1>13 DEF run

\* The block that is waited for next is at the end of the run.
LEMMA SignsFacts ==
    ASSUME NEW tl, IsTimeline(tl), NEW n \in Nat, NEW p \in 0 .. Len(tl),
           R!Position(tl, n) = p
    PROVE  /\ \A e : e \in R!Elements(R!SignsAfter(tl, n)) <=>
                        \E i \in DOMAIN tl : IsAfter(tl, p, i) /\ e = tl[i]
           /\ R!SignsAfter(tl, n) \in Seq({"block", "sign"} \X Nat)
<1>1. /\ tl \in Seq({"block", "sign"} \X Nat) /\ Len(tl) \in Nat
      /\ DOMAIN tl = 1 .. Len(tl) /\ p \in Nat /\ p <= Len(tl)
  BY TimelineFacts
<1>2. PICK run : run = {i \in DOMAIN tl : i > p /\ \A k \in p + 1 .. i : R!IsSign(tl[k])}
  OBVIOUS
<1>3. PICK c \in Nat : c = Cardinality(run) /\ p + c <= Len(tl)
                       /\ \A i : i \in p + 1 .. p + c <=> IsAfter(tl, p, i)
  BY <1>2, RunFacts
<1>4. R!SignsAfter(tl, n) = SubSeq(tl, p + 1, p + c)
  <2>1. R!SignsAfter(tl, n) =
            SubSeq(tl, p + 1, p + R!Cardinality(
                {i \in DOMAIN tl : i > p /\ \A k \in p + 1 .. i : R!IsSign(tl[k])}))
    BY Zenon DEF R!SignsAfter
  <2> QED
    BY <1>2, <1>3, <2>1, InstanceCardinality, Zenon
<1>5. PICK u : u = SubSeq(tl, p + 1, p + c)
  OBVIOUS
<1>6. /\ u \in Seq({"block", "sign"} \X Nat) /\ Len(u) = c /\ DOMAIN u = 1 .. c
      /\ \A j \in 1 .. c : u[j] = tl[p + j]
  <2>1. PICK b \in Nat : b = p + c /\ b <= Len(tl)
    BY <1>1, <1>3
  <2>2. u = SubSeq(tl, p + 1, b)
    BY <1>5, <2>1
  <2>3. \A k \in p + 1 .. b : tl[k] \in {"block", "sign"} \X Nat
    BY <1>1, <2>1
  <2>4. u \in Seq({"block", "sign"} \X Nat)
    BY <1>1, <2>1, <2>2, SubSeqProperties
  <2>5. Len(u) = c
    BY <1>1, <2>1, <2>2
  <2> QED
    BY <1>1, <2>1, <2>2, <2>4, <2>5
<1>7. ASSUME NEW e, e \in R!Elements(u)
      PROVE  \E i \in DOMAIN tl : IsAfter(tl, p, i) /\ e = tl[i]
  <2>1. PICK j \in 1 .. c : e = u[j]
    BY <1>6, <1>7 DEF R!Elements
  <2>2. p + j \in p + 1 .. p + c /\ e = tl[p + j]
    BY <1>1, <1>6, <2>1
  <2>3. IsAfter(tl, p, p + j)
    BY <1>3, <2>2
  <2> QED
    BY <2>2, <2>3 DEF IsAfter
<1>8. ASSUME NEW i, IsAfter(tl, p, i)
      PROVE  tl[i] \in R!Elements(u)
  <2>1. i \in p + 1 .. p + c
    BY <1>3, <1>8
  <2>2. i - p \in 1 .. c /\ p + (i - p) = i
    BY <1>1, <2>1
  <2>3. u[i - p] = tl[i]
    BY <1>6, <2>2
  <2> QED
    BY <1>6, <2>2, <2>3 DEF R!Elements
<1> QED
  BY <1>4, <1>5, <1>6, <1>7, <1>8

\* The numbers of the blocks are those up to their count.
LEMMA CountOfPrefix ==
    ASSUME NEW tl, IsTimeline(tl)
    PROVE  \A m \in 0 .. Len(tl) :
              LET B == {i \in 1 .. m : R!IsBlock(tl[i])}
              IN  /\ IsFiniteSet(B) /\ Cardinality(B) \in Nat
                  /\ \A n \in Nat : n \in 1 .. Cardinality(B) <=>
                                    \E i \in 1 .. m : tl[i] = Block(n)
<1>1. /\ Len(tl) \in Nat /\ DOMAIN tl = 1 .. Len(tl)
      /\ \A i \in 1 .. Len(tl) :
            /\ tl[i][2] \in Nat
            /\ tl[i][1] # "sign" => tl[i] = Block(tl[i][2]) /\ tl[i][1] = "block"
      /\ \A i, j \in 1 .. Len(tl) : tl[i] = tl[j] => i = j
  BY TimelineFacts
<1> DEFINE B(m) == {i \in 1 .. m : R!IsBlock(tl[i])}
           Ok(m) == /\ IsFiniteSet(B(m)) /\ Cardinality(B(m)) \in Nat
                    /\ \A n \in Nat : n \in 1 .. Cardinality(B(m)) <=>
                                      \E i \in 1 .. m : tl[i] = Block(n)
           Bad == {m \in 0 .. Len(tl) : ~Ok(m)}
<1> SUFFICES Bad = {}
  OBVIOUS
<1> SUFFICES ASSUME Bad # {} PROVE FALSE
  OBVIOUS
<1>2. PICK m \in Bad : \A j \in Bad : m <= j
  <2>1. Bad \subseteq Nat
    BY <1>1
  <2> QED
    BY <2>1, NatMin, Zenon
<1>3. m \in Nat /\ m <= Len(tl) /\ ~Ok(m)
  <2> HIDE DEF Ok
  <2> QED
    BY <1>1
<1>4. CASE m = 0
  <2>1. B(0) = {}
    OBVIOUS
  <2>2. IsFiniteSet({}) /\ Cardinality({}) = 0
    BY FS_EmptySet
  <2>3. \A n \in Nat : ~(\E i \in 1 .. 0 : tl[i] = Block(n)) /\ n \notin 1 .. 0
    OBVIOUS
  <2>4. Ok(0)
    BY <2>1, <2>2, <2>3
  <2> QED
    BY <1>3, <1>4, <2>4
<1>5. CASE m # 0
  <2>1. m - 1 \in 0 .. Len(tl) /\ ~(m <= m - 1) /\ m \in 1 .. Len(tl)
    BY <1>1, <1>3, <1>5
  <2>2. Ok(m - 1)
    BY <1>2, <2>1
  <2>3. PICK P : P = B(m - 1)
    OBVIOUS
  <2>4. PICK c \in Nat : c = Cardinality(P)
    BY <2>2, <2>3
  <2>5. IsFiniteSet(P) /\ \A n \in Nat : n \in 1 .. c <=> \E i \in 1 .. m - 1 : tl[i] = Block(n)
    BY <2>2, <2>3, <2>4
  <2>6. \A i : i \in 1 .. m <=> i \in 1 .. m - 1 \/ i = m
    BY <1>3, <1>5
  <2>7. CASE tl[m][1] = "sign"
    <3>1. B(m) = P
      BY <2>3, <2>6, <2>7 DEF R!IsBlock
    <3>2. \A n \in Nat : tl[m] # Block(n)
      BY <2>7 DEF Block
    <3>3. \A n \in Nat : n \in 1 .. c <=> \E i \in 1 .. m : tl[i] = Block(n)
      BY <2>5, <2>6, <3>2
    <3> QED
      BY <1>3, <2>4, <2>5, <3>1, <3>3
  <2>8. CASE tl[m][1] # "sign"
    <3>1. PICK k \in Nat : tl[m] = Block(k) /\ tl[m][2] = k /\ tl[m][1] = "block"
      BY <1>1, <2>1, <2>8
    <3>2. m \notin P /\ B(m) = P \cup {m}
      BY <2>1, <2>3, <2>6, <3>1 DEF R!IsBlock
    <3>3. IsFiniteSet(B(m)) /\ Cardinality(B(m)) = c + 1
      <4>1. PICK Q : Q = B(m)
        OBVIOUS
      <4>2. m \notin P /\ Q = P \cup {m}
        BY <3>2, <4>1
      <4>3. IsFiniteSet(Q) /\ Cardinality(Q) = c + 1
        BY <2>4, <2>5, <4>2, FS_AddElement
      <4> QED
        BY <4>1, <4>3
    <3>4. k = c + 1
      <4>1. k \notin 1 .. c
        <5>1. ASSUME NEW i \in 1 .. m - 1 PROVE tl[i] # Block(k)
          <6>1. i \in 1 .. Len(tl) /\ i # m
            BY <1>3, <2>1
          <6> QED
            BY <1>1, <2>1, <3>1, <6>1
        <5> QED
          BY <2>5, <5>1
      <4>2. CASE m = 1
        <5>1. k = 1
          BY <1>1, <2>1, <3>1, <4>2 DEF IsTimeline
        <5>2. ~(1 \in 1 .. c)
          BY <4>1, <5>1
        <5> QED
          BY <5>1, <5>2
      <4>3. CASE m # 1
        <5>1. PICK j \in 1 .. m - 1 : tl[j] = <<"block", k - 1>>
          BY <1>1, <2>1, <3>1, <4>3 DEF IsTimeline
        <5>2. tl[j][2] \in Nat
          BY <1>1, <2>1, <5>1
        <5>3. k - 1 \in Nat
          BY <5>1, <5>2
        <5>4. k - 1 \in 1 .. c
          BY <2>5, <5>1, <5>3 DEF Block
        <5> QED
          BY <4>1, <5>4
      <4> QED
        BY <4>2, <4>3
    <3>5. \A n \in Nat : n \in 1 .. c + 1 <=> n \in 1 .. c \/ n = k
      BY <3>4
    <3>6. \A n \in Nat : tl[m] = Block(n) <=> n = k
      BY <3>1 DEF Block
    <3>7. \A n \in Nat : n \in 1 .. c + 1 <=> \E i \in 1 .. m : tl[i] = Block(n)
      BY <2>5, <2>6, <3>5, <3>6
    <3>8. PICK d : d = Cardinality(B(m)) /\ d = c + 1
      BY <3>3
    <3>9. IsFiniteSet(B(m)) /\ d \in Nat
      BY <3>3, <3>8
    <3>10. Ok(m)
      <4> HIDE DEF B
      <4> QED
        BY <3>7, <3>8, <3>9
    <3> QED
      BY <1>3, <3>10
  <2> QED
    BY <2>7, <2>8
<1> QED
  BY <1>4, <1>5

\* The sign blocks between block n and the next block.
SignsOf(tl, n) == R!Elements(R!SignsAfter(tl, n))

LEMMA SignsAt ==
    ASSUME NEW tl, IsTimeline(tl)
    PROVE  \A n \in Nat, p \in 0 .. Len(tl) :
              R!Position(tl, n) = p =>
                \A e : e \in SignsOf(tl, n) <=>
                         \E i \in DOMAIN tl : IsAfter(tl, p, i) /\ e = tl[i]
<1> SUFFICES ASSUME NEW n \in Nat, NEW p \in 0 .. Len(tl), R!Position(tl, n) = p
             PROVE  \A e : e \in SignsOf(tl, n) <=>
                         \E i \in DOMAIN tl : IsAfter(tl, p, i) /\ e = tl[i]
  BY Zenon
<1> QED
  BY SignsFacts, Zenon DEF SignsOf

LEMMA CountFacts ==
    ASSUME NEW tl, IsTimeline(tl)
    PROVE  /\ R!CountBlocks(tl) \in Nat
           /\ \A n \in Nat : n \in 1 .. R!CountBlocks(tl) <=>
                             \E i \in 1 .. Len(tl) : tl[i] = Block(n)
           /\ \A n \in Nat : n \in 1 .. R!CountBlocks(tl) <=> Block(n) \in Range(tl)
<1>1. Len(tl) \in Nat /\ DOMAIN tl = 1 .. Len(tl) /\ Len(tl) \in 0 .. Len(tl)
  BY TimelineFacts
<1>2. PICK B : B = {i \in 1 .. Len(tl) : R!IsBlock(tl[i])}
  OBVIOUS
<1>3. /\ Cardinality(B) \in Nat
      /\ \A n \in Nat : n \in 1 .. Cardinality(B) <=> \E i \in 1 .. Len(tl) : tl[i] = Block(n)
  BY <1>1, <1>2, CountOfPrefix
<1>4. R!CountBlocks(tl) = Cardinality(B)
  <2>1. R!CountBlocks(tl) = R!Cardinality({i \in 1 .. Len(tl) : R!IsBlock(tl[i])})
    BY <1>1, Zenon DEF R!CountBlocks
  <2> QED
    BY <1>2, <2>1, InstanceCardinality, Zenon
<1>5. \A n \in Nat : Block(n) \in Range(tl) <=> \E i \in 1 .. Len(tl) : tl[i] = Block(n)
  BY <1>1 DEF Range
<1> QED
  BY <1>3, <1>4, <1>5

LEMMA BlockPlace ==
    ASSUME NEW tl, IsTimeline(tl), NEW n \in 0 .. R!CountBlocks(tl)
    PROVE  \E p \in 0 .. Len(tl) :
              /\ R!Position(tl, n) = p
              /\ n = 0 => p = 0
              /\ n # 0 => p # 0 /\ tl[p] = Block(n)
<1>1. Len(tl) \in Nat
  BY TimelineFacts
<1>2. CASE n = 0
  BY <1>1, <1>2 DEF R!Position
<1>3. CASE n # 0
  <2>1. n \in Nat \ {0} /\ n \in 1 .. R!CountBlocks(tl)
    BY <1>3, CountFacts
  <2>2. PICK i \in 1 .. Len(tl) : tl[i] = Block(n)
    BY <2>1, CountFacts
  <2>3. R!Position(tl, n) = i
    BY <2>1, <2>2, PositionFacts
  <2> QED
    BY <1>3, <2>2, <2>3
<1> QED
  BY <1>2, <1>3

\* Sign blocks are elements of the timeline, and none is before the first block.
LEMMA SignFacts ==
    ASSUME NEW tl, IsTimeline(tl)
    PROVE  /\ SignsOf(tl, 0) = {}
           /\ \A n \in 0 .. R!CountBlocks(tl) : \A e \in SignsOf(tl, n) :
                /\ e \in Range(tl) /\ e[1] = "sign" /\ e[2] \in Nat
                /\ \A k : e # Block(k)
<1>1. /\ Len(tl) \in Nat /\ DOMAIN tl = 1 .. Len(tl)
      /\ \A i \in 1 .. Len(tl) : tl[i][2] \in Nat
  BY TimelineFacts
<1>2. ASSUME NEW n \in 0 .. R!CountBlocks(tl), NEW e \in SignsOf(tl, n)
      PROVE  /\ e \in Range(tl) /\ e[1] = "sign" /\ e[2] \in Nat
             /\ \A k : e # Block(k)
             /\ n # 0
  <2>1. n \in Nat
    BY CountFacts
  <2>2. PICK p \in 0 .. Len(tl) : R!Position(tl, n) = p /\ (n = 0 => p = 0)
    BY BlockPlace
  <2>3. PICK i \in DOMAIN tl : IsAfter(tl, p, i) /\ e = tl[i]
    BY <1>2, <2>1, <2>2, SignsFacts DEF SignsOf
  <2>4. i \in 1 .. Len(tl) /\ i > p /\ \A k \in p + 1 .. i : tl[k][1] = "sign"
    BY <1>1, <2>3 DEF IsAfter
  <2>5. tl[i][1] = "sign"
    BY <1>1, <2>4
  <2>6. e \in Range(tl) /\ e[1] = "sign" /\ e[2] \in Nat
    BY <1>1, <2>3, <2>4, <2>5 DEF Range
  <2>7. n # 0
    <3> SUFFICES ASSUME n = 0 PROVE FALSE
      OBVIOUS
    <3>1. 1 \in p + 1 .. i /\ 1 \in DOMAIN tl
      BY <1>1, <2>2, <2>4
    <3>2. tl[1] = <<"block", 1>>
      BY <3>1 DEF IsTimeline
    <3> QED
      BY <2>4, <3>1, <3>2
  <2>8. \A k : e # Block(k)
    BY <2>6 DEF Block
  <2> QED
    BY <2>6, <2>7, <2>8
<1>3. 0 \in 0 .. R!CountBlocks(tl)
  BY CountFacts
<1> QED
  BY <1>2, <1>3

\* A node that has a part of the timeline has all sign blocks that are followed
\* by a block it has.
LEMMA PartFacts ==
    ASSUME NEW tl, IsTimeline(tl), NEW v, IsTimeline(v), Len(v) <= Len(tl),
           \A i \in 1 .. Len(v) : v[i] = tl[i]
    PROVE  /\ R!CountBlocks(v) <= R!CountBlocks(tl)
           /\ \A n \in 0 .. R!CountBlocks(v) :
                /\ SignsOf(v, n) \subseteq SignsOf(tl, n)
                /\ n < R!CountBlocks(v) => SignsOf(v, n) = SignsOf(tl, n)
<1>0. PICK m \in Nat : m = Len(v) /\ m <= Len(tl)
  BY TimelineFacts
<1>1. /\ Len(tl) \in Nat /\ DOMAIN tl = 1 .. Len(tl) /\ m \in Nat /\ m <= Len(tl)
      /\ \A i, j \in 1 .. Len(tl) : tl[i] = tl[j] => i = j
  BY <1>0, TimelineFacts
<1>2. IsTimeline(v) /\ Len(v) = m /\ \A i \in 1 .. m : v[i] = tl[i]
  BY <1>0
<1>3. DOMAIN v = 1 .. m
  BY <1>2, TimelineFacts
<1>4. PICK c \in Nat : c = R!CountBlocks(v)
  BY <1>2, CountFacts
<1>5. PICK d \in Nat : d = R!CountBlocks(tl)
  BY CountFacts
<1>6. \A n \in Nat : n \in 1 .. c <=> \E i \in 1 .. m : v[i] = Block(n)
  BY <1>2, <1>4, CountFacts
<1>7. \A n \in Nat : n \in 1 .. d <=> \E i \in 1 .. Len(tl) : tl[i] = Block(n)
  BY <1>5, CountFacts
<1>8. c <= d
  <2>1. CASE c = 0
    BY <2>1
  <2>2. CASE c # 0
    <3>1. PICK i \in 1 .. m : v[i] = Block(c)
      BY <1>6, <2>2
    <3>2. i \in 1 .. Len(tl) /\ tl[i] = Block(c)
      BY <1>1, <1>2, <3>1
    <3>3. c \in 1 .. d
      BY <1>7, <3>2
    <3> QED
      BY <3>3
  <2> QED
    BY <2>1, <2>2
<1>11. \A n \in 0 .. R!CountBlocks(v) : \E p \in 0 .. Len(v) :
              /\ R!Position(v, n) = p
              /\ n = 0 => p = 0
              /\ n # 0 => p # 0 /\ v[p] = Block(n)
  BY <1>2, BlockPlace
<1>10. \A n \in Nat, p \in 0 .. Len(v) :
         R!Position(v, n) = p =>
           \A e : e \in SignsOf(v, n) <=> \E i \in DOMAIN v : IsAfter(v, p, i) /\ e = v[i]
  BY SignsAt
<1>9. ASSUME NEW n \in 0 .. c
      PROVE  /\ SignsOf(v, n) \subseteq SignsOf(tl, n)
             /\ n < c => SignsOf(v, n) = SignsOf(tl, n)
  <2>1. n \in Nat /\ n \in 0 .. R!CountBlocks(v) /\ n \in 0 .. R!CountBlocks(tl)
    BY <1>4, <1>5, <1>8
  <2>2. PICK p \in 0 .. m : /\ R!Position(v, n) = p
                            /\ n = 0 => p = 0
                            /\ n # 0 => p # 0 /\ v[p] = Block(n)
    <3>1. \E p \in 0 .. Len(v) :
              /\ R!Position(v, n) = p
              /\ n = 0 => p = 0
              /\ n # 0 => p # 0 /\ v[p] = Block(n)
      BY <1>11, <2>1
    <3> QED
      BY <1>2, <3>1
  <2>3. PICK q \in 0 .. Len(tl) : /\ R!Position(tl, n) = q
                                  /\ n = 0 => q = 0
                                  /\ n # 0 => q # 0 /\ tl[q] = Block(n)
    BY <2>1, BlockPlace
  <2>4. p = q
    BY <1>1, <1>2, <2>2, <2>3
  <2>5. p \in Nat /\ p \in 0 .. Len(v) /\ p \in 0 .. Len(tl)
    BY <1>1, <1>2, <2>2
  <2>6. /\ \A e : e \in SignsOf(v, n) <=> \E i \in DOMAIN v : IsAfter(v, p, i) /\ e = v[i]
        /\ \A e : e \in SignsOf(tl, n) <=> \E i \in DOMAIN tl : IsAfter(tl, p, i) /\ e = tl[i]
    <3>1. \A e : e \in SignsOf(v, n) <=> \E i \in DOMAIN v : IsAfter(v, p, i) /\ e = v[i]
      BY <1>10, <2>1, <2>2, <2>5
    <3>2. \A e : e \in SignsOf(tl, n) <=> \E i \in DOMAIN tl : IsAfter(tl, p, i) /\ e = tl[i]
      BY <2>1, <2>3, <2>4, <2>5, SignsFacts DEF SignsOf
    <3> QED
      BY <3>1, <3>2
  <2>7. ASSUME NEW i \in 1 .. m, i > p
        PROVE  IsAfter(v, p, i) <=> IsAfter(tl, p, i)
    <3>1. \A k \in p + 1 .. i : v[k] = tl[k]
      BY <1>1, <1>2, <2>5
    <3>2. i \in DOMAIN v /\ i \in DOMAIN tl
      BY <1>1, <1>3
    <3> QED
      BY <2>7, <3>1, <3>2 DEF IsAfter
  <2>8. SignsOf(v, n) \subseteq SignsOf(tl, n)
    <3> SUFFICES ASSUME NEW e \in SignsOf(v, n) PROVE e \in SignsOf(tl, n)
      OBVIOUS
    <3>1. PICK i \in 1 .. m : IsAfter(v, p, i) /\ e = v[i]
      BY <1>3, <2>6
    <3>2. i > p
      BY <3>1 DEF IsAfter
    <3>3. IsAfter(tl, p, i) /\ i \in DOMAIN tl /\ e = tl[i]
      BY <1>1, <1>2, <2>7, <3>1, <3>2
    <3> QED
      BY <2>6, <3>3
  <2>9. ASSUME n < c, NEW e \in SignsOf(tl, n)
        PROVE  e \in SignsOf(v, n)
    <3>1. PICK i \in DOMAIN tl : IsAfter(tl, p, i) /\ e = tl[i]
      BY <2>6
    <3>2. i \in 1 .. Len(tl) /\ i > p /\ \A k \in p + 1 .. i : tl[k][1] = "sign"
      BY <1>1, <3>1 DEF IsAfter
    <3>3. n + 1 \in Nat /\ n + 1 \in 1 .. c
      BY <2>1, <2>9
    <3>4. PICK b \in 1 .. m : v[b] = Block(n + 1)
      BY <1>6, <3>3
    <3>5. b \in DOMAIN tl /\ b \in 1 .. Len(tl) /\ tl[b] = <<"block", n + 1>> /\ tl[b][1] = "block"
      BY <1>1, <1>2, <3>4 DEF Block
    <3>6. b > p
      <4>1. CASE n = 0
        BY <1>1, <2>2, <3>4, <4>1
      <4>2. CASE n # 0
        <5>1. b # 1
          <6>1. b = 1 => tl[b] = <<"block", 1>>
            BY <3>5 DEF IsTimeline
          <6>2. n + 1 # 1
            BY <2>1, <4>2
          <6> QED
            BY <3>5, <6>1, <6>2
        <5>2. PICK j \in 1 .. b - 1 : tl[j] = <<"block", tl[b][2] - 1>>
          BY <3>5, <5>1 DEF IsTimeline
        <5>3. tl[b][2] - 1 = n
          BY <2>1, <3>5
        <5>4. tl[j] = Block(n) /\ j \in 1 .. Len(tl) /\ j < b
          BY <1>1, <3>5, <5>2, <5>3 DEF Block
        <5>5. p \in 1 .. Len(tl) /\ tl[p] = Block(n)
          BY <1>1, <2>3, <2>4, <4>2
        <5>6. j = p
          BY <1>1, <5>4, <5>5
        <5> QED
          BY <5>4, <5>6
      <4> QED
        BY <4>1, <4>2
    <3>7. ~(b \in p + 1 .. i)
      BY <3>2, <3>5
    <3>8. i \in 1 .. m
      BY <1>1, <2>5, <3>2, <3>4, <3>5, <3>6, <3>7
    <3>9. IsAfter(v, p, i) /\ i \in DOMAIN v /\ e = v[i]
      BY <1>2, <1>3, <2>7, <3>1, <3>2, <3>8
    <3> QED
      BY <2>6, <3>9
  <2> QED
    BY <2>8, <2>9
<1> QED
  BY <1>2, <1>4, <1>5, <1>8, <1>9

LEMMA ElementsAreRange == \A f : R!Elements(f) = Range(f)
BY DEF R!Elements, Range

LEMMA ViewFacts ==
    ASSUME NEW tl, IsTimeline(tl), NEW m \in 0 .. Len(tl)
    PROVE  /\ R!CountBlocks(SubSeq(tl, 1, m)) \in Nat
           /\ R!CountBlocks(SubSeq(tl, 1, m)) <= R!CountBlocks(tl)
           /\ \A n \in 0 .. R!CountBlocks(SubSeq(tl, 1, m)) :
                /\ Range(R!SignsAfter(SubSeq(tl, 1, m), n)) \subseteq SignsOf(tl, n)
                /\ n < R!CountBlocks(SubSeq(tl, 1, m)) =>
                        Range(R!SignsAfter(SubSeq(tl, 1, m), n)) = SignsOf(tl, n)
<1>1. PICK v : v = SubSeq(tl, 1, m)
  OBVIOUS
<1>2. Len(tl) \in Nat
  BY TimelineFacts
<1>3. IsTimeline(v) /\ Len(v) <= Len(tl) /\ \A i \in 1 .. Len(v) : v[i] = tl[i]
  BY <1>1, <1>2, Prefix
<1>4. R!CountBlocks(v) \in Nat
  BY <1>3, CountFacts
<1>5. \A n : SignsOf(v, n) = Range(R!SignsAfter(v, n))
  BY ElementsAreRange DEF SignsOf
<1>6. /\ R!CountBlocks(v) <= R!CountBlocks(tl)
      /\ \A n \in 0 .. R!CountBlocks(v) :
            /\ Range(R!SignsAfter(v, n)) \subseteq SignsOf(tl, n)
            /\ n < R!CountBlocks(v) => Range(R!SignsAfter(v, n)) = SignsOf(tl, n)
  BY <1>3, <1>5, PartFacts
<1> QED
  BY <1>1, <1>4, <1>6

\* A node never has fewer blocks than it had.
LEMMA ViewsGrow ==
    ASSUME NEW tl, IsTimeline(tl), NEW m \in 0 .. Len(tl), NEW k \in 0 .. Len(tl), m <= k
    PROVE  R!CountBlocks(SubSeq(tl, 1, m)) <= R!CountBlocks(SubSeq(tl, 1, k))
<1>1. PICK v : v = SubSeq(tl, 1, m)
  OBVIOUS
<1>2. PICK w : w = SubSeq(tl, 1, k)
  OBVIOUS
<1>3. Len(tl) \in Nat
  BY TimelineFacts
<1>4. IsTimeline(v) /\ Len(v) = m /\ \A i \in 1 .. m : v[i] = tl[i]
  BY <1>1, Prefix
<1>5. IsTimeline(w) /\ Len(w) = k /\ \A i \in 1 .. k : w[i] = tl[i]
  BY <1>2, Prefix
<1>6. Len(v) <= Len(w) /\ \A i \in 1 .. Len(v) : v[i] = w[i]
  BY <1>3, <1>4, <1>5
<1>7. R!CountBlocks(v) <= R!CountBlocks(w)
  BY <1>4, <1>5, <1>6, PartFacts
<1> QED
  BY <1>1, <1>2, <1>7

(***************************************************************************)
(* The invariant.                                                          *)
(***************************************************************************)

\* The node's timeline: each element of the network's once at most, and the
\* blocks are the first ones.
CopyOK(tl, copied) ==
    /\ copied \in Seq(Range(tl)) /\ IsInjective(copied)
    /\ R!CountBlocks(copied) \in Nat
    /\ \A n \in Nat : Block(n) \in Range(copied) <=> n \in 1 .. R!CountBlocks(copied)

\* A header names all sign blocks before its block, and some of those after it.
GoodHeader(tl, h) ==
    /\ h.number \in 1 .. R!CountBlocks(tl) /\ h.hash = Block(h.number)
    /\ h.prev = SignsOf(tl, h.number - 1) /\ h.next \subseteq SignsOf(tl, h.number)

Fields == {"number", "pos", "hash", "dump", "signedSize", "file", "exception",
           "prev", "next"}

\* A block that was fetched, or the place of one whose header was not.
BlockItem(tl, a) ==
    /\ a.pos = ThisBlock
    /\ \/ GoodHeader(tl, a)
       \/ /\ a.exception /\ a.number \in Nat \ {0} /\ a.hash = NoHash
          /\ a.prev = {} /\ a.next = {}

\* A sign block before or after a block, where it is in the network's timeline.
SignItem(tl, a) ==
    \/ /\ a.pos = BeforeBlock /\ a.number \in 1 .. R!CountBlocks(tl)
       /\ a.hash \in SignsOf(tl, a.number - 1)
    \/ /\ a.pos = AfterBlock /\ a.number \in 0 .. R!CountBlocks(tl)
       /\ a.hash \in SignsOf(tl, a.number)

\* The number of the block that has to be there before an item.
Ahead(a) == IF a.pos = AfterBlock THEN a.number ELSE a.number - 1

Sooner(x, a) == x.number < a.number \/ (x.number = a.number /\ x.pos < a.pos)

\* The items begin at the block that is next, and none of the blocks is missing.
Numbered(next, blocks, items) ==
    /\ \A a \in items : next - 1 <= Ahead(a)
    /\ \A a \in items : \A j \in next .. Ahead(a) :
        \E b \in blocks : b.pos = ThisBlock /\ b.number = j
    /\ \A a, b \in blocks :
        a.pos = ThisBlock /\ b.pos = ThisBlock /\ a.number = b.number => a = b

\* A sign block is among the items once, and not if it is already there.
SignsOnce(copied, fetchedItems, unfetched) ==
    /\ \A a, b \in fetchedItems :
        a.pos # ThisBlock /\ b.pos # ThisBlock /\ a.hash = b.hash => a = b
    /\ \A a, b \in unfetched : a.hash = b.hash => a = b
    /\ \A a \in fetchedItems, b \in unfetched : a.pos # ThisBlock => a.hash # b.hash
    /\ \A a \in fetchedItems \cup unfetched :
        a.pos # ThisBlock => a.hash \notin Range(copied)

\* The sign blocks before a block are there, or are items before it.
SignsFirst(copied, fetchedItems, items) ==
    \A a \in fetchedItems : a.pos = ThisBlock =>
        \A e \in a.prev :
            \/ e \in Range(copied)
            \/ \E x \in items : x.pos # ThisBlock /\ x.hash = e /\ Sooner(x, a)

ItemsOK(tl, copied, next, fetchedItems, unfetched) ==
    /\ \A a \in fetchedItems : DOMAIN a = Fields /\ (BlockItem(tl, a) \/ SignItem(tl, a))
    /\ \A a \in unfetched : SignItem(tl, a)
    /\ SignsOnce(copied, fetchedItems, unfetched)
    /\ Numbered(next, fetchedItems, fetchedItems \cup unfetched)
    /\ SignsFirst(copied, fetchedItems, fetchedItems \cup unfetched)

\* Before the sign blocks are looked for, the blocks of the batch.
BatchOK(tl, next, count, fetchedItems) ==
    /\ \A a \in fetchedItems : /\ DOMAIN a = Fields /\ BlockItem(tl, a)
                               /\ a.number \in next .. next + count - 1
    /\ \A a, b \in fetchedItems : a.number = b.number => a = b
    /\ \A j \in next .. next + count - 1 : \E b \in fetchedItems : b.number = j

TypesOK ==
    /\ conf \in Configs /\ have \in [Servers -> 0 .. Len(conf.timeline)]
    /\ servers \subseteq Servers
    /\ nextBlockToRead \in Nat /\ lastBlockInBlockchain \in Nat /\ fetched \in Nat

AskedOK ==
    /\ \A h \in headers : GoodHeader(conf.timeline, h)
    /\ \A s \in servers : lastBlockInBlockchain <= Count(s)
    /\ pc # "idle" => nextBlockToRead = R!CountBlocks(local) + 1

AdditingsOK ==
    ~afterBlocksAdditings.cleared =>
        /\ pc = "process" /\ advancedBlocks = {}
        /\ lastBlockInBlockchain = R!CountBlocks(local)
        /\ afterBlocksAdditings.hashes \subseteq
                SignsOf(conf.timeline, R!CountBlocks(local))

RoundOK ==
    /\ pc = "batch" => BatchOK(conf.timeline, nextBlockToRead, fetched, advancedBlocks)
    /\ pc = "additing" =>
        ItemsOK(conf.timeline, local, nextBlockToRead, advancedBlocks, pending)
    /\ pc = "process" =>
        /\ ItemsOK(conf.timeline, local, nextBlockToRead, advancedBlocks, {})
        /\ \A a \in advancedBlocks : a.exception \/ a.dump = a.hash

NsInv ==
    /\ TypesOK /\ CopyOK(conf.timeline, local)
    /\ AskedOK /\ AdditingsOK /\ RoundOK

(***************************************************************************)
(* The order of the items.                                                 *)
(***************************************************************************)

LEMMA FirstFacts ==
    ASSUME NEW S, S # {},
           \A a \in S : a.number \in Nat /\ a.pos \in Nat /\ a.hash[2] \in Nat
    PROVE  /\ First(S) \in S
           /\ \A b \in S : Before(First(S), b) /\ ~Sooner(b, First(S))
<1> DEFINE Numbers == {a.number : a \in S}
<1>1. PICK n \in Numbers : \A k \in Numbers : n <= k
  <2>1. Numbers \subseteq Nat /\ Numbers # {}
    OBVIOUS
  <2> QED
    BY <2>1, NatMin, Zenon
<1>2. n \in Nat /\ (\E a \in S : a.number = n) /\ \A a \in S : n <= a.number
  BY <1>1
<1> DEFINE S1 == {a \in S : a.number = n}
           Places == {a.pos : a \in S1}
<1>3. PICK p \in Places : \A k \in Places : p <= k
  <2>1. Places \subseteq Nat /\ Places # {}
    BY <1>2
  <2> QED
    BY <2>1, NatMin, Zenon
<1>4. p \in Nat /\ (\E a \in S1 : a.pos = p) /\ \A a \in S1 : p <= a.pos
  BY <1>3
<1> DEFINE S2 == {a \in S1 : a.pos = p}
           Ranks2 == {a.hash[2] : a \in S2}
<1>5. PICK r \in Ranks2 : \A k \in Ranks2 : r <= k
  <2>1. Ranks2 \subseteq Nat /\ Ranks2 # {}
    BY <1>4
  <2> QED
    BY <2>1, NatMin, Zenon
<1>6. PICK a \in S : a.number = n /\ a.pos = p /\ a.hash[2] = r
  BY <1>5
<1>7. ASSUME NEW b \in S PROVE Before(a, b)
  <2>1. n <= b.number /\ b.number \in Nat
    BY <1>2
  <2>2. CASE b.number # n
    BY <1>2, <1>6, <2>1, <2>2 DEF Before
  <2>3. CASE b.number = n
    <3>1. b \in S1 /\ p <= b.pos /\ b.pos \in Nat
      BY <1>4, <2>3
    <3>2. CASE b.pos # p
      BY <1>4, <1>6, <2>3, <3>1, <3>2 DEF Before
    <3>3. CASE b.pos = p
      <4>1. r <= b.hash[2]
        BY <1>5, <3>1, <3>3
      <4> QED
        BY <1>6, <2>3, <3>3, <4>1 DEF Before
    <3> QED
      BY <3>2, <3>3
  <2> QED
    BY <2>2, <2>3
<1>8. First(S) \in S /\ \A b \in S : Before(First(S), b)
  <2>1. \E x \in S : \A b \in S : Before(x, b)
    BY <1>7
  <2> HIDE DEF Before
  <2> QED
    BY <2>1, Zenon DEF First
<1>9. PICK f \in S : f = First(S)
  BY <1>8
<1>10. ASSUME NEW b \in S PROVE ~Sooner(b, f)
  <2>1. Before(f, b)
    BY <1>8, <1>9
  <2>2. /\ f.number \in Nat /\ b.number \in Nat /\ f.pos \in Nat /\ b.pos \in Nat
    OBVIOUS
  <2> QED
    BY <2>1, <2>2 DEF Before, Sooner
<1> QED
  BY <1>8, <1>9, <1>10

IsAdditing(tl, a) == a = Additing(a.pos, a.number, a.hash) /\ SignItem(tl, a)

LEMMA SignItemTypes ==
    ASSUME NEW tl, IsTimeline(tl), NEW a, SignItem(tl, a)
    PROVE  /\ a.number \in Nat /\ a.pos \in {BeforeBlock, AfterBlock}
           /\ a.hash \in Range(tl) /\ a.hash[2] \in Nat /\ a.hash[1] = "sign"
           /\ \A k : a.hash # Block(k)
<1>1. PICK c \in Nat : c = R!CountBlocks(tl)
  BY CountFacts
<1>2. \A n \in 0 .. c : \A e \in SignsOf(tl, n) :
        e \in Range(tl) /\ e[1] = "sign" /\ e[2] \in Nat /\ \A k : e # Block(k)
  BY <1>1, SignFacts
<1>3. CASE a.pos = BeforeBlock /\ a.number \in 1 .. c /\ a.hash \in SignsOf(tl, a.number - 1)
  <2>1. a.number - 1 \in 0 .. c
    BY <1>3
  <2> QED
    BY <1>2, <1>3, <2>1
<1>4. CASE a.pos = AfterBlock /\ a.number \in 0 .. c /\ a.hash \in SignsOf(tl, a.number)
  BY <1>2, <1>4
<1> QED
  BY <1>1, <1>3, <1>4 DEF SignItem

\* Of the mentions of a sign block the first one is left.
LEMMA NewAdditingsFacts ==
    ASSUME NEW tl, IsTimeline(tl), NEW adds, \A a \in adds : IsAdditing(tl, a),
           NEW new, new = NewAdditings(adds)
    PROVE  /\ new \subseteq adds
           /\ \A a \in new : a.hash \notin Range(local)
           /\ \A a, b \in new : a.hash = b.hash => a = b
           /\ \A a \in adds : a.hash \in Range(local)
                              \/ \E b \in new : b.hash = a.hash /\ Before(b, a)
<1>1. \A a \in adds : /\ a.number \in Nat /\ a.pos \in Nat /\ a.hash[2] \in Nat
                      /\ a = Additing(a.pos, a.number, a.hash)
  BY SignItemTypes DEF IsAdditing, BeforeBlock, AfterBlock
<1>2. /\ new \subseteq adds
      /\ \A a \in new : a.hash \notin Range(local)
                        /\ \A b \in adds : b.hash = a.hash => Before(a, b)
  BY DEF NewAdditings, WithoutRepetition
<1>3. ASSUME NEW a \in new, NEW b \in new, a.hash = b.hash
      PROVE  a = b
  <2>1. Before(a, b) /\ Before(b, a)
    BY <1>2, <1>3
  <2>2. a.number = b.number /\ a.pos = b.pos
    BY <1>1, <1>2, <2>1 DEF Before
  <2> QED
    BY <1>1, <1>2, <1>3, <2>2
<1>4. ASSUME NEW a \in adds, a.hash \notin Range(local)
      PROVE  \E b \in new : b.hash = a.hash /\ Before(b, a)
  <2>1. PICK S : S = {b \in adds : b.hash = a.hash}
    OBVIOUS
  <2>2. a \in S /\ \A b \in S : b.number \in Nat /\ b.pos \in Nat /\ b.hash[2] \in Nat
    BY <1>1, <2>1
  <2>3. First(S) \in S /\ \A b \in S : Before(First(S), b)
    BY <2>2, FirstFacts
  <2>4. PICK f \in adds : f.hash = a.hash /\ \A b \in S : Before(f, b)
    BY <2>1, <2>3
  <2>5. f \in new
    <3>1. \A b \in adds : b.hash = f.hash => Before(f, b)
      BY <2>1, <2>4
    <3> QED
      BY <1>4, <2>4, <3>1 DEF NewAdditings, WithoutRepetition
  <2> QED
    BY <2>2, <2>4, <2>5
<1> QED
  BY <1>2, <1>3, <1>4

\* What a block item and the sign blocks it mentions are.
LEMMA BlockItemTypes ==
    ASSUME NEW tl, IsTimeline(tl), NEW a, BlockItem(tl, a)
    PROVE  /\ a.pos = ThisBlock /\ a.number \in Nat \ {0} /\ a.hash[2] \in Nat
           /\ \A h \in a.prev : IsAdditing(tl, Additing(BeforeBlock, a.number, h))
           /\ \A h \in a.next : IsAdditing(tl, Additing(AfterBlock, a.number, h))
           /\ ~a.exception => GoodHeader(tl, a)
<1>1. PICK c \in Nat : c = R!CountBlocks(tl)
  BY CountFacts
<1>2. CASE GoodHeader(tl, a)
  <2>1. /\ a.number \in 1 .. c /\ a.hash = Block(a.number)
        /\ a.prev = SignsOf(tl, a.number - 1) /\ a.next \subseteq SignsOf(tl, a.number)
    BY <1>1, <1>2 DEF GoodHeader
  <2>2. a.number \in Nat \ {0} /\ a.hash[2] \in Nat /\ a.number \in 0 .. c
    BY <2>1 DEF Block
  <2>3. ASSUME NEW h \in a.prev PROVE IsAdditing(tl, Additing(BeforeBlock, a.number, h))
    BY <1>1, <2>1, <2>3 DEF IsAdditing, Additing, SignItem
  <2>4. ASSUME NEW h \in a.next PROVE IsAdditing(tl, Additing(AfterBlock, a.number, h))
    BY <1>1, <2>1, <2>2, <2>4 DEF IsAdditing, Additing, SignItem
  <2> QED
    BY <1>2, <2>2, <2>3, <2>4 DEF BlockItem
<1>3. CASE ~GoodHeader(tl, a)
  BY <1>3 DEF BlockItem, NoHash
<1> QED
  BY <1>2, <1>3

\* batchFetched.
LEMMA BatchToItems ==
    ASSUME NEW tl, IsTimeline(tl), NEW next \in Nat, NEW count \in Nat, NEW adv,
           BatchOK(tl, next, count, adv), NEW new, new = NewAdditings(AdditingsOf(adv))
    PROVE  ItemsOK(tl, local, next, adv, new)
<1>1. PICK adds : adds = AdditingsOf(adv)
  OBVIOUS
<1>2. \A a \in adv : /\ DOMAIN a = Fields /\ BlockItem(tl, a) /\ a.pos = ThisBlock
                     /\ a.number \in Nat /\ a.number \in next .. next + count - 1
  BY BlockItemTypes DEF BatchOK
<1>3. /\ \A a, b \in adv : a.number = b.number => a = b
      /\ \A j \in next .. next + count - 1 : \E b \in adv : b.number = j
  BY DEF BatchOK
<1>4. ASSUME NEW a \in adds
      PROVE  /\ IsAdditing(tl, a)
             /\ \E b \in adv : a.number = b.number /\ a.pos \in {BeforeBlock, AfterBlock}
  <2>1. PICK b \in adv : \/ \E h \in b.prev : a = Additing(BeforeBlock, b.number, h)
                         \/ \E h \in b.next : a = Additing(AfterBlock, b.number, h)
    BY <1>1, <1>4 DEF AdditingsOf
  <2>2. IsAdditing(tl, a)
    BY <1>2, <2>1, BlockItemTypes
  <2>3. a.number = b.number /\ a.pos \in {BeforeBlock, AfterBlock}
    BY <2>1 DEF Additing
  <2> QED
    BY <2>2, <2>3
<1>5. /\ new \subseteq adds
      /\ \A a \in new : a.hash \notin Range(local)
      /\ \A a, b \in new : a.hash = b.hash => a = b
      /\ \A a \in adds : a.hash \in Range(local)
                         \/ \E b \in new : b.hash = a.hash /\ Before(b, a)
  BY <1>1, <1>4, NewAdditingsFacts
<1>6. \A a \in new : SignItem(tl, a) /\ a.pos # ThisBlock /\ a.number \in Nat
  BY <1>4, <1>5, SignItemTypes DEF IsAdditing, BeforeBlock, AfterBlock, ThisBlock
<1>7. SignsOnce(local, adv, new)
  BY <1>2, <1>5 DEF SignsOnce
<1>8. Numbered(next, adv, adv \cup new)
  <2>1. ASSUME NEW a \in adv \cup new
        PROVE  /\ next - 1 <= Ahead(a)
               /\ \A j \in next .. Ahead(a) : j \in next .. next + count - 1
    <3>1. PICK b \in adv : a.number = b.number
      BY <1>4, <1>5
    <3>2. a.number \in next .. next + count - 1 /\ a.number \in Nat
      BY <1>2, <3>1
    <3>3. Ahead(a) = a.number \/ Ahead(a) = a.number - 1
      BY DEF Ahead
    <3> QED
      BY <3>2, <3>3
  <2> QED
    BY <1>2, <1>3, <2>1 DEF Numbered
<1>9. SignsFirst(local, adv, adv \cup new)
  <2> SUFFICES ASSUME NEW a \in adv, NEW e \in a.prev, e \notin Range(local)
               PROVE  \E x \in adv \cup new : x.pos # ThisBlock /\ x.hash = e /\ Sooner(x, a)
    BY DEF SignsFirst
  <2>1. PICK y : y = Additing(BeforeBlock, a.number, e)
    OBVIOUS
  <2>2. y \in adds /\ y.number = a.number /\ y.pos = BeforeBlock /\ y.hash = e
    BY <1>1, <2>1 DEF AdditingsOf, Additing
  <2>3. PICK x \in new : x.hash = e /\ Before(x, y)
    BY <1>5, <2>2
  <2>4. x.pos # ThisBlock /\ x.pos \in {BeforeBlock, AfterBlock} /\ x.number \in Nat
    BY <1>6, SignItemTypes
  <2>5. a.number \in Nat /\ a.pos = ThisBlock
    BY <1>2
  <2>6. Sooner(x, a)
    BY <2>2, <2>3, <2>4, <2>5 DEF Before, Sooner, BeforeBlock, AfterBlock, ThisBlock
  <2> QED
    BY <2>3, <2>4, <2>6
<1> QED
  BY <1>2, <1>6, <1>7, <1>8, <1>9 DEF ItemsOK

\* processBegins: the sign blocks after the last block.
LEMMA LastSignsToItems ==
    ASSUME NEW tl, IsTimeline(tl), NEW n \in 0 .. R!CountBlocks(tl), NEW next, next = n + 1,
           NEW hashes, hashes \subseteq SignsOf(tl, n),
           NEW new, new = NewAdditings({Additing(AfterBlock, n, h) : h \in hashes})
    PROVE  ItemsOK(tl, local, next, {}, new)
<1>1. PICK adds : adds = {Additing(AfterBlock, n, h) : h \in hashes}
  OBVIOUS
<1>2. \A a \in adds : IsAdditing(tl, a) /\ a.pos = AfterBlock /\ a.number = n
  BY <1>1 DEF IsAdditing, Additing, SignItem
<1>3. /\ new \subseteq adds
      /\ \A a \in new : a.hash \notin Range(local)
      /\ \A a, b \in new : a.hash = b.hash => a = b
  <2>1. new = NewAdditings(adds) /\ \A a \in adds : IsAdditing(tl, a)
    BY <1>1, <1>2
  <2> QED
    BY ONLY IsTimeline(tl), <2>1, NewAdditingsFacts
<1>4. n \in Nat
  BY CountFacts
<1>5. \A a \in new : Ahead(a) = n /\ SignItem(tl, a)
  BY <1>2, <1>3 DEF Ahead, IsAdditing
<1>6. Numbered(next, {}, {} \cup new)
  <2>1. n + 1 - 1 <= n /\ \A j : j \notin n + 1 .. n
    BY <1>4
  <2> QED
    BY <1>5, <2>1 DEF Numbered
<1> QED
  BY <1>3, <1>5, <1>6 DEF ItemsOK, SignsOnce, SignsFirst

\* fetchAdditing.
LEMMA ItemFetched ==
    ASSUME NEW tl, IsTimeline(tl), NEW copied, NEW next \in Nat, NEW adv, NEW new,
           ItemsOK(tl, copied, next, adv, new), NEW x \in new,
           NEW y, DOMAIN y = Fields, y.number = x.number, y.pos = x.pos, y.hash = x.hash
    PROVE  ItemsOK(tl, copied, next, adv \cup {y}, new \ {x})
<1>1. /\ \A a \in adv : DOMAIN a = Fields /\ (BlockItem(tl, a) \/ SignItem(tl, a))
      /\ \A a \in new : SignItem(tl, a)
      /\ SignsOnce(copied, adv, new)
      /\ Numbered(next, adv, adv \cup new)
      /\ SignsFirst(copied, adv, adv \cup new)
  BY DEF ItemsOK
<1>2. SignItem(tl, y) /\ y.pos # ThisBlock
  <2>1. SignItem(tl, y)
    BY <1>1 DEF SignItem
  <2> QED
    BY <2>1, SignItemTypes DEF BeforeBlock, AfterBlock, ThisBlock
<1>3. \A a \in new : a.pos # ThisBlock
  BY <1>1, SignItemTypes DEF BeforeBlock, AfterBlock, ThisBlock
<1>4. SignsOnce(copied, adv \cup {y}, new \ {x})
  BY <1>1, <1>3 DEF SignsOnce
<1>5. Numbered(next, adv \cup {y}, (adv \cup {y}) \cup (new \ {x}))
  <2>1. Ahead(y) = Ahead(x)
    BY DEF Ahead
  <2> QED
    BY <1>1, <1>2, <2>1 DEF Numbered
<1>6. SignsFirst(copied, adv \cup {y}, (adv \cup {y}) \cup (new \ {x}))
  <2> SUFFICES ASSUME NEW a \in adv, a.pos = ThisBlock, NEW e \in a.prev, e \notin Range(copied)
               PROVE  \E z \in (adv \cup {y}) \cup (new \ {x}) :
                        z.pos # ThisBlock /\ z.hash = e /\ Sooner(z, a)
    BY <1>2 DEF SignsFirst
  <2>1. PICK z \in adv \cup new : z.pos # ThisBlock /\ z.hash = e /\ Sooner(z, a)
    BY <1>1 DEF SignsFirst
  <2>2. CASE z = x
    BY <1>2, <2>1, <2>2 DEF Sooner
  <2>3. CASE z # x
    BY <2>1, <2>3
  <2> QED
    BY <2>2, <2>3
<1> QED
  BY <1>1, <1>2, <1>4, <1>5, <1>6 DEF ItemsOK

\* parseBlockInfo.
LEMMA ItemsChecked ==
    ASSUME NEW tl, IsTimeline(tl), NEW copied, NEW next \in Nat, NEW adv,
           ItemsOK(tl, copied, next, adv, {}), NEW checked,
           checked = {[a EXCEPT !.exception = @ \/ ~Parses(a)] : a \in adv}
    PROVE  /\ ItemsOK(tl, copied, next, checked, {})
           /\ \A a \in checked : a.exception \/ a.dump = a.hash
<1> DEFINE Same(b, a) ==
        /\ DOMAIN b = Fields /\ b.number = a.number /\ b.pos = a.pos /\ b.hash = a.hash
        /\ b.prev = a.prev /\ b.next = a.next
        /\ b.exception \/ b.dump = b.hash
        /\ a.exception => b.exception
<1> DEFINE Checked(a) == [a EXCEPT !.exception = @ \/ ~Parses(a)]
<1>1. /\ \A a \in adv : DOMAIN a = Fields /\ (BlockItem(tl, a) \/ SignItem(tl, a))
      /\ SignsOnce(copied, adv, {})
      /\ Numbered(next, adv, adv)
      /\ SignsFirst(copied, adv, adv)
  <2>1. adv \cup {} = adv
    OBVIOUS
  <2> QED
    BY <2>1 DEF ItemsOK
<1>2. ASSUME NEW a \in adv PROVE Same(Checked(a), a)
  <2>1. DOMAIN a = Fields
    BY <1>1
  <2>2. PICK e : e = (a.exception \/ ~Parses(a))
    OBVIOUS
  <2>3. PICK b : b = [a EXCEPT !.exception = e]
    OBVIOUS
  <2>4. b = Checked(a)
    BY <2>2, <2>3, Zenon
  <2>5. /\ DOMAIN b = Fields /\ b.number = a.number /\ b.pos = a.pos /\ b.hash = a.hash
        /\ b.prev = a.prev /\ b.next = a.next /\ b.dump = a.dump /\ b.exception = e
    BY <2>1, <2>3 DEF Fields
  <2>6. e \/ a.dump = a.hash
    BY <2>2, Zenon DEF Parses
  <2>7. a.exception => e
    BY <2>2, Zenon
  <2>8. (b.exception \/ b.dump = b.hash) /\ (a.exception => b.exception)
    BY <2>5, <2>6, <2>7, Zenon
  <2>9. Same(b, a)
    BY <2>5, <2>8, Zenon
  <2> HIDE DEF Same, Checked
  <2> QED
    BY <2>4, <2>9, Zenon
<1>3. PICK Back : \A b \in checked : Back[b] \in adv /\ b = Checked(Back[b])
  <2> DEFINE F == [b \in checked |-> CHOOSE a \in adv : b = Checked(a)]
  <2>1. \A b \in checked : \E a \in adv : b = Checked(a)
    BY Zenon
  <2> HIDE DEF Checked
  <2>2. \A b \in checked : F[b] \in adv /\ b = Checked(F[b])
    BY <2>1
  <2> HIDE DEF F
  <2> QED
    BY <2>2
<1>4. \A a \in adv : Checked(a) \in checked
  BY Zenon
<1> HIDE DEF Checked
<1>5. \A b \in checked : Same(b, Back[b])
  BY <1>2, <1>3
<1>6. \A b \in checked : DOMAIN b = Fields /\ (BlockItem(tl, b) \/ SignItem(tl, b))
  <2> SUFFICES ASSUME NEW b \in checked
               PROVE  DOMAIN b = Fields /\ (BlockItem(tl, b) \/ SignItem(tl, b))
    OBVIOUS
  <2>1. PICK a \in adv : Same(b, a)
    BY <1>3, <1>5
  <2>2. CASE SignItem(tl, a)
    BY <2>1, <2>2 DEF SignItem
  <2>3. CASE BlockItem(tl, a)
    <3>1. CASE GoodHeader(tl, a)
      BY <2>1, <2>3, <3>1 DEF BlockItem, GoodHeader
    <3>2. CASE ~GoodHeader(tl, a)
      <4>1. /\ a.exception
            /\ a.pos = ThisBlock /\ a.number \in Nat \ {0} /\ a.hash = NoHash
            /\ a.prev = {} /\ a.next = {}
        BY <2>3, <3>2, Zenon DEF BlockItem
      <4>2. b.exception
        BY <2>1, <4>1, Zenon
      <4>3. /\ b.pos = ThisBlock /\ b.number \in Nat \ {0} /\ b.hash = NoHash
            /\ b.prev = {} /\ b.next = {}
        BY <2>1, <4>1, Zenon
      <4> QED
        BY <2>1, <4>2, <4>3, Zenon DEF BlockItem
    <3> QED
      BY <3>1, <3>2
  <2> QED
    BY <1>1, <2>1, <2>2, <2>3
<1>7. \A a, b \in checked : Back[a] = Back[b] => a = b
  BY <1>3
<1>8. SignsOnce(copied, checked, {})
  <2>1. \A a, b \in adv : a.pos # ThisBlock /\ b.pos # ThisBlock /\ a.hash = b.hash => a = b
    BY <1>1 DEF SignsOnce
  <2>2. \A a \in adv : a.pos # ThisBlock => a.hash \notin Range(copied)
    BY <1>1 DEF SignsOnce
  <2>3. \A b \in checked : Back[b] \in adv /\ b.pos = Back[b].pos /\ b.hash = Back[b].hash
    BY <1>3, <1>5
  <2>4. \A a, b \in checked : a.pos # ThisBlock /\ b.pos # ThisBlock /\ a.hash = b.hash => a = b
    BY <1>7, <2>1, <2>3
  <2> QED
    BY <2>2, <2>3, <2>4 DEF SignsOnce
<1>9. Numbered(next, checked, checked)
  <2>1. \A b \in checked : /\ Back[b] \in adv /\ b.pos = Back[b].pos
                           /\ b.number = Back[b].number /\ Ahead(b) = Ahead(Back[b])
    BY <1>3, <1>5 DEF Ahead
  <2>2. \A a, b \in checked :
            a.pos = ThisBlock /\ b.pos = ThisBlock /\ a.number = b.number => a = b
    BY <1>1, <1>7, <2>1 DEF Numbered
  <2>3. \A a \in adv : /\ Checked(a) \in checked /\ Checked(a).pos = a.pos
                       /\ Checked(a).number = a.number
    BY <1>2, <1>4
  <2>4. ASSUME NEW b \in checked, NEW j \in next .. Ahead(b)
        PROVE  \E c \in checked : c.pos = ThisBlock /\ c.number = j
    <3>1. PICK a \in adv : a.pos = ThisBlock /\ a.number = j
      BY <1>1, <2>1 DEF Numbered
    <3> QED
      BY <2>3, <3>1
  <2>5. \A b \in checked : next - 1 <= Ahead(b)
    BY <1>1, <2>1 DEF Numbered
  <2> QED
    BY <2>2, <2>4, <2>5 DEF Numbered
<1>10. SignsFirst(copied, checked, checked)
  <2> SUFFICES ASSUME NEW b \in checked, b.pos = ThisBlock, NEW e \in b.prev,
                      e \notin Range(copied)
               PROVE  \E x \in checked : x.pos # ThisBlock /\ x.hash = e /\ Sooner(x, b)
    BY DEF SignsFirst
  <2>1. PICK a \in adv : a = Back[b] /\ Same(b, a)
    BY <1>3, <1>5
  <2>2. PICK z \in adv : z.pos # ThisBlock /\ z.hash = e /\ Sooner(z, a)
    BY <1>1, <2>1 DEF SignsFirst
  <2>3. Checked(z) \in checked /\ Same(Checked(z), z)
    BY <1>2, <1>4
  <2> QED
    BY <2>1, <2>2, <2>3 DEF Sooner
<1>11. checked \cup {} = checked
  OBVIOUS
<1>12. \A b \in checked : b.exception \/ b.dump = b.hash
  BY <1>5
<1>13. ItemsOK(tl, copied, next, checked, {})
  BY <1>6, <1>8, <1>9, <1>10, <1>11 DEF ItemsOK
<1> QED
  BY <1>12, <1>13

LEMMA CountAppend ==
    ASSUME NEW S, NEW q \in Seq(S), NEW e
    PROVE  R!CountBlocks(q) \in Nat
           /\ R!CountBlocks(Append(q, e)) =
                R!CountBlocks(q) + IF R!IsBlock(e) THEN 1 ELSE 0
<1>1. PICK n \in Nat : n = Len(q)
  OBVIOUS
<1>2. PICK s : s = Append(q, e)
  OBVIOUS
<1>3. /\ DOMAIN q = 1 .. n /\ DOMAIN s = 1 .. n + 1
      /\ (\A i \in 1 .. n : s[i] = q[i]) /\ s[n + 1] = e
  BY <1>1, <1>2
<1>4. PICK P : P = {i \in DOMAIN q : R!IsBlock(q[i])}
  OBVIOUS
<1>5. PICK Q : Q = {i \in DOMAIN s : R!IsBlock(s[i])}
  OBVIOUS
<1>6. R!CountBlocks(q) = Cardinality(P)
  BY <1>4, InstanceCardinality, Zenon DEF R!CountBlocks
<1>7. R!CountBlocks(s) = Cardinality(Q)
  BY <1>5, InstanceCardinality, Zenon DEF R!CountBlocks
<1>8. IsFiniteSet(P) /\ Cardinality(P) \in Nat
  <2>1. IsFiniteSet(1 .. n)
    BY FS_Interval
  <2>2. P \subseteq 1 .. n
    BY <1>3, <1>4
  <2> QED
    BY <2>1, <2>2, FS_Subset, FS_CardinalityType
<1>9. \A i : i \in 1 .. n + 1 <=> i \in 1 .. n \/ i = n + 1
  OBVIOUS
<1>10. n + 1 \notin P
  BY <1>3, <1>4
<1>11. Q = IF R!IsBlock(e) THEN P \cup {n + 1} ELSE P
  <2>1. \A i \in 1 .. n : R!IsBlock(s[i]) <=> R!IsBlock(q[i])
    BY <1>3
  <2>2. R!IsBlock(s[n + 1]) <=> R!IsBlock(e)
    BY <1>3
  <2> QED
    BY <1>3, <1>4, <1>5, <1>9, <2>1, <2>2
<1>12. Cardinality(P \cup {n + 1}) = Cardinality(P) + 1
  BY <1>8, <1>10, FS_AddElement
<1>13. R!CountBlocks(s) = R!CountBlocks(q) + IF R!IsBlock(e) THEN 1 ELSE 0
  BY <1>6, <1>7, <1>8, <1>11, <1>12
<1> QED
  BY <1>2, <1>6, <1>8, <1>13

\* A copy has no more blocks than the network.
LEMMA CopiedBlocks ==
    ASSUME NEW tl, IsTimeline(tl), NEW copied, CopyOK(tl, copied)
    PROVE  R!CountBlocks(copied) \in 0 .. R!CountBlocks(tl)
<1>1. PICK n \in Nat : n = R!CountBlocks(copied)
  BY DEF CopyOK
<1>2. PICK total \in Nat : total = R!CountBlocks(tl)
  BY CountFacts
<1>3. \A k \in Nat : Block(k) \in Range(tl) <=> k \in 1 .. total
  BY <1>2, CountFacts
<1>4. \A e \in Range(copied) : e \in Range(tl)
  <2>1. copied \in Seq(Range(tl))
    BY DEF CopyOK
  <2> QED
    BY <2>1 DEF Range
<1>5. n # 0 => Block(n) \in Range(copied)
  BY <1>1 DEF CopyOK
<1>6. n # 0 => n \in 1 .. total
  BY <1>3, <1>4, <1>5
<1> QED
  BY <1>1, <1>2, <1>6

\* What a copy is once it has an element more.
LEMMA CopyGrows ==
    ASSUME NEW tl, IsTimeline(tl), NEW copied, CopyOK(tl, copied),
           NEW e \in Range(tl), e \notin Range(copied),
           NEW n \in Nat, n = R!CountBlocks(copied),
           e = Block(n + 1) \/ \A k : e # Block(k)
    PROVE  /\ CopyOK(tl, Append(copied, e))
           /\ R!CountBlocks(Append(copied, e)) = n + IF e = Block(n + 1) THEN 1 ELSE 0
           /\ \A d : d \in Range(Append(copied, e)) <=> d \in Range(copied) \/ d = e
<1>1. /\ copied \in Seq(Range(tl)) /\ IsInjective(copied)
      /\ \A k \in Nat : Block(k) \in Range(copied) <=> k \in 1 .. n
  BY DEF CopyOK
<1>2. PICK s : s = Append(copied, e)
  OBVIOUS
<1>3. \A q : ToSet(q) = Range(q)
  BY DEF ToSet, Range
<1>4. e \notin ToSet(copied)
  BY <1>3
<1>5. s \in Seq(Range(tl) \cup {e}) /\ IsInjective(s) /\ ToSet(s) = ToSet(copied) \cup {e}
  BY <1>1, <1>2, <1>4, AppendNew
<1>6. Range(tl) \cup {e} = Range(tl)
  OBVIOUS
<1>7. s \in Seq(Range(tl)) /\ IsInjective(s)
      /\ \A d : d \in Range(s) <=> d \in Range(copied) \/ d = e
  BY <1>3, <1>5, <1>6
<1>8. R!IsBlock(e) <=> e = Block(n + 1)
  <2>1. PICK i \in DOMAIN tl : e = tl[i]
    BY DEF Range
  <2>2. e[1] # "sign" => e = Block(e[2])
    BY <2>1, TimelineFacts
  <2>3. e = Block(n + 1) => R!IsBlock(e)
    BY DEF R!IsBlock, Block
  <2>4. R!IsBlock(e) => e[1] # "sign"
    BY DEF R!IsBlock
  <2> QED
    BY <2>2, <2>3, <2>4
<1>9. R!CountBlocks(s) = n + IF e = Block(n + 1) THEN 1 ELSE 0
  BY <1>1, <1>2, <1>8, CountAppend
<1>10. ASSUME NEW k \in Nat PROVE Block(k) \in Range(s) <=> k \in 1 .. R!CountBlocks(s)
  <2>1. CASE e = Block(n + 1)
    <3>1. Block(k) = e <=> k = n + 1
      BY <2>1 DEF Block
    <3>2. k \in 1 .. n + 1 <=> k \in 1 .. n \/ k = n + 1
      OBVIOUS
    <3>3. R!CountBlocks(s) = n + 1
      BY <1>9, <2>1
    <3> QED
      BY <1>1, <1>7, <3>1, <3>2, <3>3
  <2>2. CASE e # Block(n + 1)
    <3>1. R!CountBlocks(s) = n
      BY <1>9, <2>2
    <3> QED
      BY <1>1, <1>7, <2>2, <3>1
  <2> QED
    BY <2>1, <2>2
<1>11. R!CountBlocks(s) \in Nat
  BY <1>9
<1>12. CopyOK(tl, s)
  BY <1>7, <1>10, <1>11 DEF CopyOK
<1> QED
  BY <1>2, <1>7, <1>9, <1>12

\* The first item is the block that follows, its sign blocks being there, or one
\* of the sign blocks before that block.
LEMMA FirstItem ==
    ASSUME NEW tl, IsTimeline(tl), NEW copied, CopyOK(tl, copied),
           NEW n \in Nat, n = R!CountBlocks(copied), NEW adv,
           ItemsOK(tl, copied, n + 1, adv, {}),
           NEW f \in adv, \A b \in adv : ~Sooner(b, f), ~f.exception
    PROVE  /\ f.hash \in Range(tl) /\ f.hash \notin Range(copied) /\ n \in 0 .. R!CountBlocks(tl)
           /\ f.pos = ThisBlock => /\ f.hash = Block(n + 1)
                                   /\ f.number = n + 1
                                   /\ SignsOf(tl, n) \subseteq Range(copied)
           /\ f.pos # ThisBlock => /\ f.hash \in SignsOf(tl, n)
                                   /\ \A k : f.hash # Block(k)
<1>1. /\ \A a \in adv : DOMAIN a = Fields /\ (BlockItem(tl, a) \/ SignItem(tl, a))
      /\ \A a \in adv : a.pos # ThisBlock => a.hash \notin Range(copied)
      /\ Numbered(n + 1, adv, adv)
      /\ SignsFirst(copied, adv, adv)
  <2>1. adv \cup {} = adv
    OBVIOUS
  <2> QED
    BY <2>1 DEF ItemsOK, SignsOnce
<1>2. PICK total \in Nat : total = R!CountBlocks(tl)
  BY CountFacts
<1>3. \A k \in Nat : Block(k) \in Range(tl) <=> k \in 1 .. total
  BY <1>2, CountFacts
<1>5. n \in 0 .. total
  BY <1>2, CopiedBlocks
<1>6. /\ n + 1 - 1 <= Ahead(f)
      /\ \A j \in n + 1 .. Ahead(f) : \E b \in adv : b.pos = ThisBlock /\ b.number = j
  BY <1>1 DEF Numbered
<1>7. CASE f.pos = ThisBlock
  <2>1. GoodHeader(tl, f)
    <3>1. BlockItem(tl, f)
      BY <1>1, <1>7, SignItemTypes DEF BeforeBlock, AfterBlock, ThisBlock
    <3> QED
      BY <3>1, BlockItemTypes
  <2>2. /\ f.number \in 1 .. total /\ f.hash = Block(f.number)
        /\ f.prev = SignsOf(tl, f.number - 1)
    BY <1>2, <2>1 DEF GoodHeader
  <2>3. Ahead(f) = f.number - 1
    BY <1>7 DEF Ahead, AfterBlock, ThisBlock
  <2>4. f.number = n + 1
    <3> SUFFICES ASSUME f.number # n + 1 PROVE FALSE
      OBVIOUS
    <3>1. n + 1 \in n + 1 .. Ahead(f)
      BY <1>6, <2>2, <2>3
    <3>2. PICK b \in adv : b.pos = ThisBlock /\ b.number = n + 1
      BY <1>6, <3>1
    <3>3. Sooner(b, f)
      BY <1>6, <2>2, <2>3, <3>2 DEF Sooner
    <3> QED
      BY <3>3
  <2>5. SignsOf(tl, n) \subseteq Range(copied)
    <3>1. f.prev = SignsOf(tl, n)
      BY <2>2, <2>4
    <3> QED
      BY <1>1, <1>7, <3>1 DEF SignsFirst
  <2>6. f.hash \in Range(tl)
    BY <1>3, <2>2
  <2>7. f.hash \notin Range(copied)
    <3>1. n + 1 \notin 1 .. n
      OBVIOUS
    <3> QED
      BY <2>2, <2>4, <3>1 DEF CopyOK
  <2> QED
    BY <1>2, <1>5, <1>7, <2>2, <2>4, <2>5, <2>6, <2>7
<1>8. CASE f.pos # ThisBlock
  <2>1. SignItem(tl, f)
    BY <1>1, <1>8 DEF BlockItem
  <2>2. f.hash \in Range(tl) /\ (\A k : f.hash # Block(k)) /\ f.number \in Nat
    BY <2>1, SignItemTypes
  <2>3. Ahead(f) = n
    <3> SUFFICES ASSUME Ahead(f) # n PROVE FALSE
      OBVIOUS
    <3>1. n + 1 \in n + 1 .. Ahead(f)
      BY <1>6, <2>2 DEF Ahead
    <3>2. PICK b \in adv : b.pos = ThisBlock /\ b.number = n + 1
      BY <1>6, <3>1
    <3>3. CASE f.pos = AfterBlock
      <4>1. n + 1 <= f.number
        BY <1>6, <2>2, <3>1, <3>3 DEF Ahead
      <4> QED
        BY <2>2, <3>2, <3>3, <4>1 DEF Sooner, AfterBlock, ThisBlock
    <3>4. CASE f.pos # AfterBlock
      <4>1. n + 1 <= f.number - 1
        BY <1>6, <2>2, <3>1, <3>4 DEF Ahead
      <4> QED
        BY <2>2, <3>2, <4>1 DEF Sooner
    <3> QED
      BY <3>3, <3>4
  <2>4. f.hash \in SignsOf(tl, n)
    <3>1. SignItem(tl, f) => f.hash \in SignsOf(tl, Ahead(f))
      BY DEF SignItem, Ahead, AfterBlock, BeforeBlock
    <3> QED
      BY <2>1, <2>3, <3>1
  <2> QED
    BY <1>1, <1>2, <1>5, <1>8, <2>2, <2>4
<1> QED
  BY <1>7, <1>8

\* The other items, once the first one is in the copy.
LEMMA ItemsLeft ==
    ASSUME NEW tl, IsTimeline(tl), NEW copied, CopyOK(tl, copied),
           NEW n \in Nat, n = R!CountBlocks(copied), NEW adv,
           ItemsOK(tl, copied, n + 1, adv, {}),
           NEW f \in adv, \A b \in adv : ~Sooner(b, f), ~f.exception,
           NEW grown, \A d : d \in Range(grown) <=> d \in Range(copied) \/ d = f.hash,
           NEW m, m = n + IF f.pos = ThisBlock THEN 1 ELSE 0
    PROVE  ItemsOK(tl, grown, m + 1, adv \ {f}, {})
<1>1. /\ \A a \in adv : DOMAIN a = Fields /\ (BlockItem(tl, a) \/ SignItem(tl, a))
      /\ SignsOnce(copied, adv, {})
      /\ Numbered(n + 1, adv, adv)
      /\ SignsFirst(copied, adv, adv)
  <2>1. adv \cup {} = adv
    OBVIOUS
  <2> QED
    BY <2>1 DEF ItemsOK
<1>2. /\ f.pos = ThisBlock => f.hash = Block(n + 1) /\ f.number = n + 1
      /\ f.pos # ThisBlock => \A k : f.hash # Block(k)
  BY FirstItem
<1>3. \A a \in adv : /\ a.number \in Nat /\ a.pos \in {BeforeBlock, ThisBlock, AfterBlock}
                     /\ a.pos # ThisBlock => \A k : a.hash # Block(k)
  BY <1>1, BlockItemTypes, SignItemTypes DEF ThisBlock, BeforeBlock, AfterBlock
<1>4. SignsOnce(grown, adv \ {f}, {})
  <2>1. ASSUME NEW a \in adv \ {f}, a.pos # ThisBlock
        PROVE  a.hash \notin Range(grown)
    <3>1. a.hash \notin Range(copied)
      BY <1>1, <2>1 DEF SignsOnce
    <3>2. a.hash # f.hash
      BY <1>1, <1>2, <1>3, <2>1 DEF SignsOnce
    <3> QED
      BY <3>1, <3>2
  <2> QED
    BY <1>1, <2>1 DEF SignsOnce
<1>5. Numbered(m + 1, adv \ {f}, adv \ {f})
  <2>1. /\ \A a \in adv : n <= Ahead(a)
        /\ \A a \in adv : \A j \in n + 1 .. Ahead(a) :
              \E b \in adv : b.pos = ThisBlock /\ b.number = j
        /\ \A a, b \in adv :
              a.pos = ThisBlock /\ b.pos = ThisBlock /\ a.number = b.number => a = b
    BY <1>1 DEF Numbered
  <2>2. CASE f.pos = ThisBlock
    <3>1. m = n + 1 /\ f.number = n + 1
      BY <1>2, <2>2
    <3>2. ASSUME NEW a \in adv \ {f} PROVE n + 1 <= Ahead(a)
      <4> SUFFICES ASSUME Ahead(a) = n PROVE FALSE
        BY <1>3, <2>1 DEF Ahead
      <4>1. ~Sooner(a, f)
        OBVIOUS
      <4>2. CASE a.pos = AfterBlock
        BY <1>3, <3>1, <4>1, <4>2 DEF Ahead, Sooner
      <4>3. CASE a.pos = BeforeBlock
        BY <1>3, <2>2, <3>1, <4>1, <4>3 DEF Ahead, Sooner, BeforeBlock, ThisBlock, AfterBlock
      <4>4. CASE a.pos = ThisBlock
        <5>1. a.number = n + 1
          BY <1>3, <4>4 DEF Ahead, ThisBlock, AfterBlock
        <5> QED
          BY <2>1, <2>2, <3>1, <4>4, <5>1
      <4> QED
        BY <1>3, <4>2, <4>3, <4>4
    <3>3. ASSUME NEW a \in adv \ {f}, NEW j \in m + 1 .. Ahead(a)
          PROVE  \E b \in adv \ {f} : b.pos = ThisBlock /\ b.number = j
      <4>1. Ahead(a) \in Int
        BY <1>3 DEF Ahead
      <4>2. j \in n + 1 .. Ahead(a) /\ j # n + 1
        BY <3>1, <4>1
      <4>3. PICK b \in adv : b.pos = ThisBlock /\ b.number = j
        BY <2>1, <4>2
      <4> QED
        BY <3>1, <4>2, <4>3
    <3>4. m + 1 - 1 = n + 1
      BY <3>1
    <3> QED
      BY <2>1, <3>2, <3>3, <3>4 DEF Numbered
  <2>3. CASE f.pos # ThisBlock
    <3>1. m = n /\ m + 1 - 1 = n
      BY <2>3
    <3>2. \A b \in adv : b.pos = ThisBlock => b \in adv \ {f}
      BY <2>3
    <3>3. ASSUME NEW a \in adv \ {f}, NEW j \in m + 1 .. Ahead(a)
          PROVE  \E b \in adv \ {f} : b.pos = ThisBlock /\ b.number = j
      BY <2>1, <3>1, <3>2
    <3> QED
      BY <2>1, <3>1, <3>3 DEF Numbered
  <2> QED
    BY <2>2, <2>3
<1>6. SignsFirst(grown, adv \ {f}, adv \ {f})
  <2> SUFFICES ASSUME NEW a \in adv \ {f}, a.pos = ThisBlock, NEW e \in a.prev,
                      e \notin Range(grown)
               PROVE  \E x \in adv \ {f} : x.pos # ThisBlock /\ x.hash = e /\ Sooner(x, a)
    BY DEF SignsFirst
  <2>1. PICK x \in adv : x.pos # ThisBlock /\ x.hash = e /\ Sooner(x, a)
    BY <1>1 DEF SignsFirst
  <2>2. x # f
    BY <2>1
  <2> QED
    BY <2>1, <2>2
<1>7. (adv \ {f}) \cup {} = adv \ {f}
  OBVIOUS
<1> QED
  BY <1>1, <1>4, <1>5, <1>6, <1>7 DEF ItemsOK

(***************************************************************************)
(* What the other nodes answer.                                            *)
(***************************************************************************)

LEMMA AnswerFacts ==
    ASSUME NEW c \in Configs, conf = c, have \in [Servers -> 0 .. Len(c.timeline)],
           NEW s \in Servers
    PROVE  /\ IsTimeline(c.timeline)
           /\ Count(s) \in Nat /\ Count(s) <= R!CountBlocks(c.timeline)
           /\ \A n \in 0 .. Count(s) :
                /\ Range(getSignaturesBetween(s, n)) \subseteq SignsOf(c.timeline, n)
                /\ n < Count(s) =>
                    Range(getSignaturesBetween(s, n)) = SignsOf(c.timeline, n)
<1>1. IsTimeline(c.timeline)
  BY NetworkAssumption
<1>2. have[s] \in 0 .. Len(c.timeline)
  OBVIOUS
<1>3. PICK v : v = SubSeq(c.timeline, 1, have[s])
  OBVIOUS
<1>4. View(s) = v
  BY <1>3 DEF View
<1>5. /\ R!CountBlocks(v) \in Nat
      /\ R!CountBlocks(v) <= R!CountBlocks(c.timeline)
      /\ \A n \in 0 .. R!CountBlocks(v) :
            /\ Range(R!SignsAfter(v, n)) \subseteq SignsOf(c.timeline, n)
            /\ n < R!CountBlocks(v) => Range(R!SignsAfter(v, n)) = SignsOf(c.timeline, n)
  BY <1>1, <1>2, <1>3, ViewFacts
<1>6. Count(s) = R!CountBlocks(v) /\ \A n : getSignaturesBetween(s, n) = R!SignsAfter(v, n)
  BY <1>4 DEF Count, getSignaturesBetween
<1> QED
  BY <1>1, <1>5, <1>6

LEMMA HeaderFacts ==
    ASSUME NEW c \in Configs, conf = c, have \in [Servers -> 0 .. Len(c.timeline)],
           NEW s \in Servers, NEW n \in 1 .. Count(s), NEW isLast
    PROVE  GoodHeader(c.timeline, Header(s, n, isLast)) /\ Header(s, n, isLast).number = n
<1>1. PICK k \in Nat : k = Count(s) /\ k <= R!CountBlocks(c.timeline)
  BY AnswerFacts
<1>2. PICK total \in Nat : total = R!CountBlocks(c.timeline)
  BY AnswerFacts, CountFacts
<1>3. n \in Nat /\ n \in 1 .. total /\ n - 1 \in 0 .. k /\ n - 1 < k /\ n \in 0 .. k
  BY <1>1, <1>2
<1>4. PICK h : h = Header(s, n, isLast)
  OBVIOUS
<1>5. h = [number |-> n, hash |-> Block(n),
           prev |-> IF n = 1 THEN {} ELSE Range(getSignaturesBetween(s, n - 1)),
           next |-> IF isLast THEN Range(getSignaturesBetween(s, n)) ELSE {}]
  BY <1>4 DEF Header
<1>6. Range(getSignaturesBetween(s, n - 1)) = SignsOf(c.timeline, n - 1)
  BY <1>1, <1>3, AnswerFacts
<1>7. Range(getSignaturesBetween(s, n)) \subseteq SignsOf(c.timeline, n)
  BY <1>1, <1>3, AnswerFacts
<1>8. n = 1 => SignsOf(c.timeline, n - 1) = {}
  <2>1. SignsOf(c.timeline, 0) = {}
    BY AnswerFacts, SignFacts
  <2>2. n = 1 => n - 1 = 0
    OBVIOUS
  <2> QED
    BY <2>1, <2>2
<1>9. h.prev = SignsOf(c.timeline, n - 1)
  BY <1>5, <1>6, <1>8
<1>10. h.next \subseteq SignsOf(c.timeline, n)
  BY <1>5, <1>7
<1>11. h.number = n /\ h.hash = Block(n)
  BY <1>5
<1> QED
  BY <1>2, <1>3, <1>4, <1>9, <1>10, <1>11 DEF GoodHeader

(***************************************************************************)
(* The steps.                                                              *)
(***************************************************************************)

LEMMA NoItems ==
    /\ \A tl, copied, next : ItemsOK(tl, copied, next, {}, {})
    /\ \A tl, next : next \in Nat => BatchOK(tl, next, 0, {})
<1>1. ASSUME NEW tl, NEW copied, NEW next PROVE ItemsOK(tl, copied, next, {}, {})
  BY DEF ItemsOK, SignsOnce, Numbered, SignsFirst
<1>2. ASSUME NEW tl, NEW next \in Nat PROVE BatchOK(tl, next, 0, {})
  <2>1. \A j : j \notin next .. next + 0 - 1
    OBVIOUS
  <2> QED
    BY <2>1 DEF BatchOK
<1> QED
  BY <1>1, <1>2

LEMMA RestartStep ==
    ASSUME NsInv, Restart PROVE NsInv'
<1>1. /\ pc' = "idle" /\ nextBlockToRead' = 0 /\ lastBlockInBlockchain' = 0
      /\ servers' = {} /\ afterBlocksAdditings' = NoAdditings /\ headers' = {}
      /\ fetched' = 0 /\ conf' = conf /\ have' = have /\ local' = local
  BY DEF Restart
<1>2. afterBlocksAdditings'.cleared
  BY <1>1 DEF NoAdditings
<1>3. TypesOK' /\ CopyOK(conf.timeline, local)'
  BY <1>1 DEF NsInv, TypesOK
<1>4. AskedOK' /\ RoundOK'
  BY <1>1 DEF AskedOK, RoundOK
<1>5. AdditingsOK'
  BY <1>2 DEF AdditingsOK
<1> QED
  BY <1>3, <1>4, <1>5 DEF NsInv

LEMMA GrowStep ==
    ASSUME NsInv, NEW t \in Servers, Grow(t) PROVE NsInv'
<1>1. /\ have[t] < Len(conf.timeline) /\ have' = [have EXCEPT ![t] = @ + 1]
      /\ UNCHANGED <<conf, local, pc, nextBlockToRead, lastBlockInBlockchain, servers,
                     afterBlocksAdditings, headers, advancedBlocks, pending, fetched>>
  BY DEF Grow, sourceVars
<1>2. /\ conf \in Configs /\ have \in [Servers -> 0 .. Len(conf.timeline)]
      /\ servers \subseteq Servers /\ IsTimeline(conf.timeline)
  BY NetworkAssumption DEF NsInv, TypesOK
<1>3. PICK tl : tl = conf.timeline /\ IsTimeline(tl) /\ Len(tl) \in Nat
  BY <1>2, TimelineFacts
<1>4. have' \in [Servers -> 0 .. Len(tl)] /\ \A s \in Servers : have[s] <= have'[s]
  BY <1>1, <1>2, <1>3
<1>5. TypesOK' /\ CopyOK(conf.timeline, local)' /\ AdditingsOK' /\ RoundOK'
  BY <1>1, <1>3, <1>4 DEF NsInv, TypesOK, AdditingsOK, RoundOK
<1>6. ASSUME NEW s \in servers' PROVE (lastBlockInBlockchain <= Count(s))'
  <2>1. s \in Servers /\ s \in servers /\ lastBlockInBlockchain \in Nat
        /\ lastBlockInBlockchain <= Count(s)
    BY <1>1, <1>2, <1>6 DEF NsInv, AskedOK, TypesOK
  <2>2. PICK i \in 0 .. Len(tl) : i = have[s]
    BY <1>2, <1>3, <2>1
  <2>3. PICK j \in 0 .. Len(tl) : j = have'[s]
    BY <1>4, <2>1
  <2>4. R!CountBlocks(SubSeq(tl, 1, i)) <= R!CountBlocks(SubSeq(tl, 1, j))
    BY <1>3, <1>4, <2>1, <2>2, <2>3, ViewsGrow
  <2>5. Count(s) = R!CountBlocks(SubSeq(tl, 1, i))
    BY <1>3, <2>2 DEF Count, View
  <2>6. Count(s)' = R!CountBlocks(SubSeq(tl, 1, j))
    BY <1>1, <1>3, <2>3 DEF Count, View
  <2>7. R!CountBlocks(SubSeq(tl, 1, i)) \in Nat /\ R!CountBlocks(SubSeq(tl, 1, j)) \in Nat
    BY <1>3, ViewFacts
  <2> QED
    BY <1>1, <2>1, <2>4, <2>5, <2>6, <2>7
<1>7. AskedOK'
  BY <1>1, <1>6 DEF NsInv, AskedOK
<1> QED
  BY <1>5, <1>7 DEF NsInv

LEMMA parseBlockInfoStep ==
    ASSUME NsInv, parseBlockInfo PROVE NsInv'
<1>1. /\ pc = "additing" /\ pending = {} /\ pc' = "process"
      /\ advancedBlocks' = {[a EXCEPT !.exception = @ \/ ~Parses(a)] : a \in advancedBlocks}
      /\ UNCHANGED <<conf, have, local, nextBlockToRead, lastBlockInBlockchain, servers,
                     afterBlocksAdditings, headers, pending, fetched>>
  BY DEF parseBlockInfo
<1>2. IsTimeline(conf.timeline) /\ nextBlockToRead \in Nat
  BY NetworkAssumption DEF NsInv, TypesOK
<1>3. ItemsOK(conf.timeline, local, nextBlockToRead, advancedBlocks, {})
  BY <1>1 DEF NsInv, RoundOK
<1>4. /\ ItemsOK(conf.timeline, local, nextBlockToRead, advancedBlocks', {})
      /\ \A a \in advancedBlocks' : a.exception \/ a.dump = a.hash
  BY <1>1, <1>2, <1>3, ItemsChecked
<1>5. TypesOK' /\ CopyOK(conf.timeline, local)'
  BY <1>1 DEF NsInv, TypesOK
<1>6. AskedOK'
  BY <1>1 DEF NsInv, AskedOK, Count, View
<1>7. RoundOK'
  BY <1>1, <1>4 DEF RoundOK
<1>8. AdditingsOK'
  BY <1>1 DEF NsInv, AdditingsOK
<1> QED
  BY <1>5, <1>6, <1>7, <1>8 DEF NsInv

LEMMA batchFetchedStep ==
    ASSUME NsInv, batchFetched PROVE NsInv'
<1>1. /\ pc = "batch" /\ pc' = "additing"
      /\ pending' = NewAdditings(AdditingsOf(advancedBlocks))
      /\ UNCHANGED <<conf, have, local, nextBlockToRead, lastBlockInBlockchain, servers,
                     afterBlocksAdditings, headers, advancedBlocks, fetched>>
  BY DEF batchFetched
<1>2. /\ IsTimeline(conf.timeline) /\ nextBlockToRead \in Nat /\ fetched \in Nat
      /\ BatchOK(conf.timeline, nextBlockToRead, fetched, advancedBlocks)
  BY <1>1, NetworkAssumption DEF NsInv, TypesOK, RoundOK
<1>3. ItemsOK(conf.timeline, local, nextBlockToRead, advancedBlocks, pending')
  BY <1>1, <1>2, BatchToItems
<1>4. TypesOK' /\ CopyOK(conf.timeline, local)'
  BY <1>1 DEF NsInv, TypesOK
<1>5. AskedOK'
  BY <1>1 DEF NsInv, AskedOK, Count, View
<1>6. RoundOK'
  BY <1>1, <1>3 DEF RoundOK
<1>7. AdditingsOK'
  BY <1>1 DEF NsInv, AdditingsOK
<1> QED
  BY <1>4, <1>5, <1>6, <1>7 DEF NsInv

LEMMA fetchAdditingStep ==
    ASSUME NsInv, fetchAdditing PROVE NsInv'
<1>1. /\ pc = "additing" /\ pending # {}
      /\ UNCHANGED <<conf, have, local, nextBlockToRead, lastBlockInBlockchain, servers,
                     afterBlocksAdditings, headers, fetched>>
  BY DEF fetchAdditing
<1>2. /\ IsTimeline(conf.timeline) /\ nextBlockToRead \in Nat
      /\ ItemsOK(conf.timeline, local, nextBlockToRead, advancedBlocks, pending)
  BY <1>1, NetworkAssumption DEF NsInv, TypesOK, RoundOK
<1>3. TypesOK' /\ CopyOK(conf.timeline, local)'
  BY <1>1 DEF NsInv, TypesOK
<1>4. CASE pc' = "idle"
  BY <1>1, <1>3, <1>4 DEF NsInv, AskedOK, Count, View, AdditingsOK, RoundOK
<1>5. CASE \E d \in getBlockDump(First(pending).hash, headers) :
              /\ advancedBlocks' = advancedBlocks \cup
                    {AdvancedSign(First(pending), d.dump, FileOf(First(pending)))}
              /\ pending' = pending \ {First(pending)} /\ pc' = pc
  <2>1. PICK x : x = First(pending)
    OBVIOUS
  <2>2. x \in pending
    <3>1. \A a \in pending : a.number \in Nat /\ a.pos \in Nat /\ a.hash[2] \in Nat
      BY <1>2, SignItemTypes DEF ItemsOK, BeforeBlock, AfterBlock
    <3> QED
      BY <1>1, <2>1, <3>1, FirstFacts
  <2>3. PICK y : /\ DOMAIN y = Fields /\ y.number = x.number /\ y.pos = x.pos
                 /\ y.hash = x.hash
                 /\ advancedBlocks' = advancedBlocks \cup {y}
    BY <1>5, <2>1 DEF AdvancedSign, Fields
  <2>4. ItemsOK(conf.timeline, local, nextBlockToRead, advancedBlocks \cup {y},
                pending \ {x})
    BY <1>2, <2>2, <2>3, ItemFetched
  <2>5. pending' = pending \ {x} /\ pc' = "additing"
    BY <1>1, <1>5, <2>1
  <2>6. RoundOK'
    BY <1>1, <2>3, <2>4, <2>5 DEF RoundOK
  <2>7. AskedOK' /\ AdditingsOK'
    BY <1>1, <2>5 DEF NsInv, AskedOK, Count, View, AdditingsOK
  <2> QED
    BY <1>3, <2>6, <2>7 DEF NsInv
<1> QED
  BY <1>4, <1>5 DEF fetchAdditing

LEMMA processBeginsStep ==
    ASSUME NsInv, processBegins PROVE NsInv'
<1>1. /\ pc = "process" /\ advancedBlocks = {}
      /\ UNCHANGED <<conf, have, local, nextBlockToRead, lastBlockInBlockchain, servers,
                     headers, advancedBlocks>>
  BY DEF processBegins
<1>2. PICK tl : tl = conf.timeline /\ IsTimeline(tl)
  BY NetworkAssumption DEF NsInv, TypesOK
<1>3. /\ nextBlockToRead \in Nat /\ fetched \in Nat
      /\ nextBlockToRead = R!CountBlocks(local) + 1
      /\ R!CountBlocks(local) \in Nat
  BY <1>1 DEF NsInv, TypesOK, AskedOK, CopyOK
<1>4. CopyOK(conf.timeline, local)'
  BY <1>1 DEF NsInv
<1>5. AskedOK'
  BY <1>1, <1>3 DEF NsInv, AskedOK, Count, View
<1>6. CASE /\ ~afterBlocksAdditings.cleared
           /\ pending' = NewAdditings(
                {Additing(AfterBlock, lastBlockInBlockchain, h) :
                    h \in afterBlocksAdditings.hashes})
           /\ afterBlocksAdditings' = NoAdditings
           /\ pc' = "additing" /\ fetched' = fetched
  <2>1. PICK n \in Nat : n = R!CountBlocks(local)
    BY <1>3
  <2>2. lastBlockInBlockchain = n /\ afterBlocksAdditings.hashes \subseteq SignsOf(tl, n)
    BY <1>2, <1>6, <2>1 DEF NsInv, AdditingsOK
  <2>3. n \in 0 .. R!CountBlocks(tl)
    BY <1>2, <2>1, CopiedBlocks DEF NsInv
  <2>4. ItemsOK(tl, local, nextBlockToRead, {}, pending')
    BY <1>2, <1>3, <1>6, <2>1, <2>2, <2>3, LastSignsToItems
  <2>5. RoundOK'
    BY <1>1, <1>2, <1>6, <2>4 DEF RoundOK
  <2>6. afterBlocksAdditings'.cleared
    BY <1>6 DEF NoAdditings
  <2>7. TypesOK' /\ AdditingsOK'
    BY <1>1, <1>6, <2>6 DEF NsInv, TypesOK, AdditingsOK
  <2> QED
    BY <1>4, <1>5, <2>5, <2>7 DEF NsInv
<1>7. CASE /\ afterBlocksAdditings.cleared /\ pc' = "batch" /\ fetched' = 0
           /\ afterBlocksAdditings' = afterBlocksAdditings
  <2>1. RoundOK'
    BY <1>1, <1>3, <1>7, NoItems DEF RoundOK
  <2>2. TypesOK' /\ AdditingsOK'
    BY <1>1, <1>7 DEF NsInv, TypesOK, AdditingsOK
  <2> QED
    BY <1>4, <1>5, <2>1, <2>2 DEF NsInv
<1>8. CASE /\ afterBlocksAdditings.cleared /\ pc' = "idle" /\ fetched' = fetched
           /\ afterBlocksAdditings' = afterBlocksAdditings
  <2>1. RoundOK'
    BY <1>8 DEF RoundOK
  <2>2. TypesOK' /\ AdditingsOK'
    BY <1>1, <1>8 DEF NsInv, TypesOK, AdditingsOK
  <2> QED
    BY <1>4, <1>5, <2>1, <2>2 DEF NsInv
<1> QED
  BY <1>6, <1>7, <1>8 DEF processBegins

\* The header of the next block, cached or asked for.
LEMMA getBlockHeaderFacts ==
    ASSUME NsInv, NEW n \in Nat \ {0}, n <= lastBlockInBlockchain,
           NEW hs \in getBlockHeader(n)
    PROVE  \A h \in hs : GoodHeader(conf.timeline, h)
<1>1. /\ conf \in Configs /\ have \in [Servers -> 0 .. Len(conf.timeline)]
      /\ servers \subseteq Servers /\ lastBlockInBlockchain \in Nat
      /\ \A h \in headers : GoodHeader(conf.timeline, h)
      /\ \A s \in servers : lastBlockInBlockchain <= Count(s)
  BY DEF NsInv, TypesOK, AskedOK
<1>2. CASE hs = headers
  BY <1>1, <1>2
<1>3. CASE hs # headers
  <2>1. PICK c : c = Min({lastBlockInBlockchain - n + 1, MaxAdvancedLoad})
    OBVIOUS
  <2>2. \E s \in servers : hs = RequestHeaders(s, n, c)
    BY <1>3, <2>1 DEF getBlockHeader
  <2>3. PICK s \in servers : hs = RequestHeaders(s, n, c)
    BY <2>2
  <2>4. c \in Nat \ {0} /\ c <= lastBlockInBlockchain - n + 1
    <3>1. lastBlockInBlockchain - n + 1 \in Nat \ {0} /\ MaxAdvancedLoad \in Nat \ {0}
      BY <1>1, NetworkAssumption
    <3>2. lastBlockInBlockchain - n + 1 \in Int /\ MaxAdvancedLoad \in Int
      BY <3>1
    <3>3. c = IF lastBlockInBlockchain - n + 1 <= MaxAdvancedLoad
              THEN lastBlockInBlockchain - n + 1 ELSE MaxAdvancedLoad
      BY <2>1, <3>2, MinOfTwo
    <3> QED
      BY <3>1, <3>3
  <2> SUFFICES ASSUME NEW h \in hs PROVE GoodHeader(conf.timeline, h)
    OBVIOUS
  <2>5. PICK k \in n .. n + c - 1 :
            h = Header(s, k, k = n + c - 1 \/ (k - n + 1) % BlocksInBatch = 0)
    BY <2>3 DEF RequestHeaders
  <2>6. s \in Servers /\ Count(s) \in Nat /\ lastBlockInBlockchain <= Count(s)
    BY <1>1, AnswerFacts
  <2>7. k \in 1 .. Count(s)
    BY <1>1, <2>4, <2>5, <2>6
  <2> QED
    BY <1>1, <2>5, <2>6, <2>7, HeaderFacts
<1> QED
  BY <1>2, <1>3

\* A batch with one more block.
LEMMA BatchGrows ==
    ASSUME NEW tl, NEW next \in Nat, NEW count \in Nat, NEW adv,
           BatchOK(tl, next, count, adv),
           NEW a, DOMAIN a = Fields, BlockItem(tl, a), a.number = next + count
    PROVE  BatchOK(tl, next, count + 1, adv \cup {a})
<1>1. next + (count + 1) - 1 = next + count
  OBVIOUS
<1>2. \A j : j \in next .. next + count <=> j \in next .. next + count - 1 \/ j = next + count
  OBVIOUS
<1>3. next + count \notin next .. next + count - 1
  OBVIOUS
<1> QED
  BY <1>1, <1>2, <1>3 DEF BatchOK

LEMMA CountAdvancedFacts ==
    ASSUME NsInv, fetched < CountAdvanced
    PROVE  NextInBatch <= lastBlockInBlockchain
<1>1. /\ nextBlockToRead \in Nat /\ lastBlockInBlockchain \in Nat /\ fetched \in Nat
      /\ CountAdvancedBlocks \in Nat
  BY NetworkAssumption DEF NsInv, TypesOK
<1>2. PICK k \in Int : k = lastBlockInBlockchain - nextBlockToRead + 1
  BY <1>1
<1>3. CountAdvanced = IF CountAdvancedBlocks <= k THEN CountAdvancedBlocks ELSE k
  <2>1. CountAdvancedBlocks \in Int
    BY <1>1
  <2> QED
    BY <1>2, <2>1, MinOfTwo DEF CountAdvanced
<1>4. fetched < k
  BY <1>1, <1>3
<1> QED
  BY <1>1, <1>2, <1>4 DEF NextInBatch

\* What a step of the batch may do but for the items.
LEMMA BatchStep ==
    ASSUME NsInv, InBatch, NEW a, DOMAIN a = Fields, BlockItem(conf.timeline, a),
           a.number = NextInBatch,
           advancedBlocks' = advancedBlocks \cup {a}, fetched' = fetched + 1, pc' = pc,
           \A h \in headers' : GoodHeader(conf.timeline, h)
    PROVE  NsInv'
<1>1. /\ pc = "batch" /\ pc' = "batch"
      /\ UNCHANGED <<conf, have, local, nextBlockToRead, lastBlockInBlockchain, servers,
                     afterBlocksAdditings, pending>>
  BY DEF InBatch
<1>2. /\ nextBlockToRead \in Nat /\ fetched \in Nat
      /\ BatchOK(conf.timeline, nextBlockToRead, fetched, advancedBlocks)
  BY <1>1 DEF NsInv, TypesOK, RoundOK
<1>3. BatchOK(conf.timeline, nextBlockToRead, fetched + 1, advancedBlocks \cup {a})
  BY <1>2, BatchGrows DEF NextInBatch
<1>4. TypesOK' /\ CopyOK(conf.timeline, local)' /\ AdditingsOK'
  BY <1>1, <1>2 DEF NsInv, TypesOK, AdditingsOK
<1>5. RoundOK'
  BY <1>1, <1>3 DEF RoundOK
<1>6. AskedOK'
  BY <1>1 DEF NsInv, AskedOK, Count, View
<1> QED
  BY <1>4, <1>5, <1>6 DEF NsInv

LEMMA fetchBlockStep ==
    ASSUME NsInv, fetchBlock PROVE NsInv'
<1>1. /\ InBatch /\ fetched' = fetched + 1 /\ pc' = pc
      /\ \E hs \in getBlockHeader(NextInBatch) : \E h \in hs :
            /\ h.number = NextInBatch /\ headers' = hs
            /\ \E dump, exception :
                advancedBlocks' = advancedBlocks \cup {AdvancedBlock(h, dump, exception)}
  BY DEF fetchBlock
<1>9. PICK hs \in getBlockHeader(NextInBatch) : \E h \in hs :
            /\ h.number = NextInBatch /\ headers' = hs
            /\ \E dump, exception :
                advancedBlocks' = advancedBlocks \cup {AdvancedBlock(h, dump, exception)}
  BY <1>1
<1>2. PICK h \in hs :
            /\ h.number = NextInBatch /\ headers' = hs
            /\ \E dump, exception :
                advancedBlocks' = advancedBlocks \cup {AdvancedBlock(h, dump, exception)}
  BY <1>9
<1>3. NextInBatch \in Nat \ {0} /\ NextInBatch <= lastBlockInBlockchain
  <2>1. fetched < CountAdvanced /\ pc = "batch"
    BY <1>1 DEF InBatch
  <2>2. /\ fetched \in Nat /\ nextBlockToRead = R!CountBlocks(local) + 1
        /\ R!CountBlocks(local) \in Nat
    BY <2>1 DEF NsInv, TypesOK, AskedOK, CopyOK
  <2> QED
    BY <2>1, <2>2, CountAdvancedFacts DEF NextInBatch
<1>4. \A g \in hs : GoodHeader(conf.timeline, g)
  BY <1>2, <1>3, getBlockHeaderFacts
<1>5. PICK dump, exception :
        advancedBlocks' = advancedBlocks \cup {AdvancedBlock(h, dump, exception)}
  BY <1>2
<1>6. PICK a : a = AdvancedBlock(h, dump, exception)
  OBVIOUS
<1>7. /\ DOMAIN a = Fields /\ a.number = h.number /\ a.pos = ThisBlock /\ a.hash = h.hash
      /\ a.prev = h.prev /\ a.next = h.next
  BY <1>6 DEF AdvancedBlock, Fields
<1>8. BlockItem(conf.timeline, a)
  BY <1>2, <1>4, <1>7 DEF BlockItem, GoodHeader
<1> QED
  BY <1>1, <1>2, <1>4, <1>5, <1>6, <1>7, <1>8, BatchStep

LEMMA fetchHeaderFailsStep ==
    ASSUME NsInv, fetchHeaderFails PROVE NsInv'
<1>1. InBatch /\ headers' = {}
  BY DEF fetchHeaderFails
<1>2. CASE pc' = "idle" /\ fetched' = fetched
  BY <1>1, <1>2 DEF NsInv, InBatch, TypesOK, AskedOK, Count, View, AdditingsOK, RoundOK
<1>3. CASE /\ advancedBlocks' = advancedBlocks \cup
                {AdvancedBlock([number |-> NextInBatch, hash |-> NoHash,
                                prev |-> {}, next |-> {}], Junk, TRUE)}
           /\ fetched' = fetched + 1 /\ pc' = pc
  <2>1. PICK a : a = AdvancedBlock([number |-> NextInBatch, hash |-> NoHash,
                                    prev |-> {}, next |-> {}], Junk, TRUE)
    OBVIOUS
  <2>2. /\ DOMAIN a = Fields /\ a.number = NextInBatch /\ a.pos = ThisBlock
        /\ a.hash = NoHash /\ a.prev = {} /\ a.next = {} /\ a.exception = TRUE
    BY <2>1 DEF AdvancedBlock, Fields
  <2>3. NextInBatch \in Nat \ {0}
    <3>1. /\ fetched \in Nat /\ nextBlockToRead = R!CountBlocks(local) + 1
          /\ R!CountBlocks(local) \in Nat
      BY <1>1 DEF NsInv, TypesOK, AskedOK, CopyOK, InBatch
    <3> QED
      BY <3>1 DEF NextInBatch
  <2>4. BlockItem(conf.timeline, a)
    BY <2>2, <2>3 DEF BlockItem
  <2> QED
    BY <1>1, <1>3, <2>1, <2>2, <2>4, BatchStep
<1> QED
  BY <1>2, <1>3 DEF fetchHeaderFails

\* The nodes that are asked have the blocks that are asked for.
LEMMA HighestFacts ==
    ASSUME NsInv, NEW known, known \subseteq Servers, known # {},
           NEW last, last = Max({Count(s) : s \in known})
    PROVE  /\ last \in Nat /\ Highest(known) \subseteq Servers
           /\ \A s \in Highest(known) : Count(s) = last
<1>1. PICK T : T = {Count(s) : s \in known}
  OBVIOUS
<1>2. /\ conf \in Configs /\ have \in [Servers -> 0 .. Len(conf.timeline)]
      /\ IsTimeline(conf.timeline)
  BY NetworkAssumption DEF NsInv, TypesOK
<1>3. PICK b \in Nat : b = R!CountBlocks(conf.timeline)
  BY <1>2, CountFacts
<1>4. \A s \in Servers : Count(s) \in 0 .. b
  BY <1>2, <1>3, AnswerFacts
<1>5. T \subseteq 0 .. b /\ T # {}
  BY <1>1, <1>4
<1>6. last \in T /\ \A k \in T : last >= k
  BY <1>1, <1>5, MaxOfSet
<1>7. last \in Nat
  BY <1>5, <1>6
<1>8. PICK t \in known : last = Count(t)
  BY <1>1, <1>6
<1>9. ASSUME NEW s \in Highest(known) PROVE s \in Servers /\ Count(s) = last
  <2>1. s \in known /\ Count(t) <= Count(s)
    BY <1>9 DEF Highest
  <2>2. last >= Count(s) /\ Count(s) \in 0 .. b
    BY <1>1, <1>4, <1>6, <2>1
  <2> QED
    BY <1>7, <1>8, <2>1, <2>2
<1> QED
  BY <1>7, <1>9

LEMMA RoundBegins ==
    ASSUME NsInv, NEW answered, BeginRound(answered), NEW known, known \subseteq Servers,
           \/ NoAnswer(known)
           \/ /\ Answered(known)
              /\ \A h \in headers' : GoodHeader(conf.timeline, h)
              /\ ~afterBlocksAdditings'.cleared =>
                    /\ lastBlockInBlockchain' = R!CountBlocks(local)
                    /\ afterBlocksAdditings'.hashes \subseteq
                            SignsOf(conf.timeline, R!CountBlocks(local))
    PROVE  NsInv'
<1>1. /\ nextBlockToRead' = R!CountBlocks(local) + 1 /\ fetched' = 0
      /\ advancedBlocks' = {} /\ UNCHANGED <<conf, have, local>>
  BY DEF BeginRound
<1>2. /\ R!CountBlocks(local) \in Nat /\ CopyOK(conf.timeline, local)
      /\ conf \in Configs /\ have \in [Servers -> 0 .. Len(conf.timeline)]
      /\ servers \subseteq Servers /\ lastBlockInBlockchain \in Nat
      /\ \A s \in servers : lastBlockInBlockchain <= Count(s)
  BY DEF NsInv, CopyOK, TypesOK, AskedOK
<1>3. CopyOK(conf.timeline, local)'
  BY <1>1, <1>2
<1>4. \A s : Count(s)' = Count(s)
  BY <1>1 DEF Count, View
<1>5. CASE NoAnswer(known)
  <2>1. /\ pc' = "idle" /\ headers' = {} /\ afterBlocksAdditings' = NoAdditings
        /\ UNCHANGED <<lastBlockInBlockchain, servers>>
    BY <1>5 DEF NoAnswer
  <2>2. afterBlocksAdditings'.cleared
    BY <2>1 DEF NoAdditings
  <2>3. TypesOK' /\ AskedOK' /\ RoundOK'
    BY <1>1, <1>2, <1>4, <2>1 DEF TypesOK, AskedOK, RoundOK
  <2> QED
    BY <1>3, <2>2, <2>3 DEF NsInv, AdditingsOK
<1>6. CASE /\ Answered(known)
           /\ \A h \in headers' : GoodHeader(conf.timeline, h)
           /\ ~afterBlocksAdditings'.cleared =>
                /\ lastBlockInBlockchain' = R!CountBlocks(local)
                /\ afterBlocksAdditings'.hashes \subseteq
                        SignsOf(conf.timeline, R!CountBlocks(local))
  <2>1. /\ known # {} /\ pc' = "process" /\ servers' = Highest(known)
        /\ lastBlockInBlockchain' = Max({Count(s) : s \in known})
    BY <1>6 DEF Answered
  <2>2. PICK last : last = lastBlockInBlockchain'
    OBVIOUS
  <2>3. /\ last \in Nat /\ Highest(known) \subseteq Servers
        /\ \A s \in Highest(known) : Count(s) = last
    BY <2>1, <2>2, HighestFacts
  <2>4. TypesOK'
    BY <1>1, <1>2, <2>1, <2>2, <2>3 DEF TypesOK
  <2>5. AskedOK'
    <3>1. \A s \in servers' : (lastBlockInBlockchain <= Count(s))'
      BY <1>4, <2>1, <2>2, <2>3
    <3> QED
      BY <1>1, <1>6, <3>1 DEF AskedOK
  <2>6. AdditingsOK'
    BY <1>1, <1>6, <2>1 DEF AdditingsOK
  <2>7. RoundOK'
    <3>1. ItemsOK(conf.timeline, local, nextBlockToRead, advancedBlocks, {})'
      BY <1>1, NoItems
    <3>2. \A a \in advancedBlocks' : a.exception \/ a.dump = a.hash
      BY <1>1
    <3> QED
      BY <2>1, <3>1, <3>2 DEF RoundOK
  <2> QED
    BY <1>3, <2>4, <2>5, <2>6, <2>7 DEF NsInv
<1> QED
  BY <1>5, <1>6

LEMMA doProcessStep ==
    ASSUME NsInv, NEW answered \in SUBSET Servers, doProcess(answered)
    PROVE  NsInv'
<1>1. PICK known : known = {s \in answered : AnswersCount(s)}
  OBVIOUS
<1>2. known \subseteq Servers
  BY <1>1
<1>3. /\ BeginRound(answered)
      /\ \/ NoAnswer(known)
         \/ /\ Answered(known) /\ headers' = {}
            /\ afterBlocksAdditings' = Additings(
                 UNION {Range(getSignaturesBetween(s, Count(s))) : s \in Highest(known)})
  BY <1>1 DEF doProcess
<1>4. CASE NoAnswer(known)
  BY <1>2, <1>3, <1>4, RoundBegins
<1>5. CASE /\ Answered(known) /\ headers' = {}
           /\ afterBlocksAdditings' = Additings(
                UNION {Range(getSignaturesBetween(s, Count(s))) : s \in Highest(known)})
  <2>1. PICK hashes : hashes =
                UNION {Range(getSignaturesBetween(s, Count(s))) : s \in Highest(known)}
    OBVIOUS
  <2>2. PICK last : last = lastBlockInBlockchain'
    OBVIOUS
  <2>3. /\ last \in Nat /\ Highest(known) \subseteq Servers
        /\ \A s \in Highest(known) : Count(s) = last
    BY <1>2, <1>5, <2>2, HighestFacts DEF Answered
  <2>4. \A s \in Highest(known) :
            Range(getSignaturesBetween(s, Count(s))) \subseteq SignsOf(conf.timeline, last)
    <3>1. conf \in Configs /\ have \in [Servers -> 0 .. Len(conf.timeline)]
      BY DEF NsInv, TypesOK
    <3> SUFFICES ASSUME NEW s \in Highest(known)
                 PROVE  Range(getSignaturesBetween(s, Count(s))) \subseteq
                            SignsOf(conf.timeline, last)
      OBVIOUS
    <3>2. s \in Servers /\ Count(s) = last /\ last \in 0 .. Count(s)
      BY <2>3
    <3>3. Range(getSignaturesBetween(s, last)) \subseteq SignsOf(conf.timeline, last)
      BY <3>1, <3>2, AnswerFacts
    <3> QED
      BY <3>2, <3>3
  <2>5. hashes \subseteq SignsOf(conf.timeline, last)
    BY <2>1, <2>4
  <2>6. afterBlocksAdditings' =
            IF last = R!CountBlocks(local) THEN [cleared |-> FALSE, hashes |-> hashes]
            ELSE NoAdditings
    BY <1>5, <2>1, <2>2 DEF Additings
  <2>7. ~afterBlocksAdditings'.cleared =>
            /\ last = R!CountBlocks(local)
            /\ afterBlocksAdditings'.hashes = hashes
    BY <2>6 DEF NoAdditings
  <2> QED
    BY <1>2, <1>3, <1>5, <2>2, <2>5, <2>7, RoundBegins
<1> QED
  BY <1>3, <1>4, <1>5

\* pre-load: no more headers than the node that answers has blocks.
LEMMA PreLoadFacts ==
    ASSUME NEW c \in Configs, conf = c, have \in [Servers -> 0 .. Len(c.timeline)],
           NEW s \in Servers, NEW current \in Nat,
           NEW hs, hs = PreLoadHeaders(s, current, PreLoadLast(s, current))
    PROVE  \A h \in Range(hs) : GoodHeader(c.timeline, h)
<1>1. PICK k \in Nat : k = Count(s)
  BY AnswerFacts
<1>2. PICK m \in Nat : m = Min({current + PreloadBlocks, k}) /\ m <= k
  <2>1. current + PreloadBlocks \in Nat
    BY NetworkAssumption
  <2>2. current + PreloadBlocks \in Int /\ k \in Int
    BY <2>1
  <2>3. Min({current + PreloadBlocks, k}) =
            IF current + PreloadBlocks <= k THEN current + PreloadBlocks ELSE k
    BY <2>2, MinOfTwo
  <2> QED
    BY <2>1, <2>3
<1>3. PICK fit : /\ fit \subseteq current + 1 .. m
                 /\ PreLoadLast(s, current) = current + Cardinality(fit)
  <2>1. PICK fit : fit = {n \in current + 1 .. m :
                            Count(s) <= current + PreloadBlocks + PreloadSlack
                            /\ \A j \in current + 1 .. n : j \notin conf.big}
    OBVIOUS
  <2>2. PreLoadLast(s, current) = current + Cardinality(fit)
    BY <1>1, <1>2, <2>1 DEF PreLoadLast
  <2> QED
    BY <2>1, <2>2
<1>4. Cardinality(fit) \in Nat /\ (Cardinality(fit) # 0 => current + Cardinality(fit) <= m)
  <2>1. current + 1 \in Int /\ m \in Int
    OBVIOUS
  <2>2. /\ IsFiniteSet(current + 1 .. m)
        /\ Cardinality(current + 1 .. m) =
                IF current + 1 > m THEN 0 ELSE m - (current + 1) + 1
    BY <2>1, FS_Interval
  <2>3. /\ IsFiniteSet(fit) /\ Cardinality(fit) <= Cardinality(current + 1 .. m)
    BY <1>3, <2>2, FS_Subset
  <2>4. Cardinality(fit) \in Nat
    BY <2>3, FS_CardinalityType
  <2> QED
    BY <2>2, <2>3, <2>4
<1>5. PICK end \in Nat : /\ end = PreLoadLast(s, current) /\ current <= end
                         /\ end # current => end <= k
  BY <1>2, <1>3, <1>4
<1> SUFFICES ASSUME NEW h \in Range(hs) PROVE GoodHeader(c.timeline, h)
  OBVIOUS
<1>6. PICK i \in 1 .. end - current : h = Header(s, current + i, current + i = end)
  BY <1>5 DEF PreLoadHeaders, Range
<1>7. current + i \in 1 .. Count(s)
  BY <1>1, <1>5, <1>6
<1> QED
  BY <1>6, <1>7, HeaderFacts

LEMMA doProcessPreLoadStep ==
    ASSUME NsInv, NEW answered \in SUBSET Servers, doProcessPreLoad(answered)
    PROVE  NsInv'
<1>1. PICK current \in Nat : current = R!CountBlocks(local)
  BY DEF NsInv, CopyOK
<1>2. PICK known : known = {s \in answered : AnswersPreLoad(s, current)}
  OBVIOUS
<1>3. known \subseteq Servers
  BY <1>2
<1>4. /\ BeginRound(answered)
      /\ \/ NoAnswer(known)
         \/ /\ Answered(known)
            /\ \E s \in Highest(known) :
                /\ headers' = Range(PreLoadHeaders(s, current, PreLoadLast(s, current)))
                /\ afterBlocksAdditings' = Additings(Range(PreLoadSigns(s, current)))
  BY <1>1, <1>2 DEF doProcessPreLoad
<1>5. CASE NoAnswer(known)
  BY <1>3, <1>4, <1>5, RoundBegins
<1>6. CASE /\ Answered(known)
           /\ \E s \in Highest(known) :
                /\ headers' = Range(PreLoadHeaders(s, current, PreLoadLast(s, current)))
                /\ afterBlocksAdditings' = Additings(Range(PreLoadSigns(s, current)))
  <2>1. PICK s \in Highest(known) :
                /\ headers' = Range(PreLoadHeaders(s, current, PreLoadLast(s, current)))
                /\ afterBlocksAdditings' = Additings(Range(PreLoadSigns(s, current)))
    BY <1>6
  <2>2. PICK last : last = lastBlockInBlockchain'
    OBVIOUS
  <2>3. /\ last \in Nat /\ s \in Servers /\ Count(s) = last
    BY <1>3, <1>6, <2>1, <2>2, HighestFacts DEF Answered
  <2>4. conf \in Configs /\ have \in [Servers -> 0 .. Len(conf.timeline)]
    BY DEF NsInv, TypesOK
  <2>5. \A h \in headers' : GoodHeader(conf.timeline, h)
    BY <2>1, <2>3, <2>4, PreLoadFacts
  <2>6. PICK hashes : hashes = Range(PreLoadSigns(s, current))
    OBVIOUS
  <2>7. last = current => hashes \subseteq SignsOf(conf.timeline, current)
    <3> SUFFICES ASSUME last = current
                 PROVE  hashes \subseteq SignsOf(conf.timeline, current)
      OBVIOUS
    <3>1. current \in 0 .. Count(s)
      BY <2>3
    <3>2. Range(getSignaturesBetween(s, current)) \subseteq SignsOf(conf.timeline, current)
      BY <2>3, <2>4, <3>1, AnswerFacts
    <3>3. hashes = Range(getSignaturesBetween(s, current))
      BY <2>3, <2>6 DEF PreLoadSigns
    <3> QED
      BY <3>2, <3>3
  <2>8. afterBlocksAdditings' =
            IF last = R!CountBlocks(local) THEN [cleared |-> FALSE, hashes |-> hashes]
            ELSE NoAdditings
    BY <2>1, <2>2, <2>6 DEF Additings
  <2>9. ~afterBlocksAdditings'.cleared =>
            /\ last = current
            /\ afterBlocksAdditings'.hashes = hashes
    BY <1>1, <2>8 DEF NoAdditings
  <2> QED
    BY <1>1, <1>3, <1>4, <1>6, <2>2, <2>5, <2>7, <2>9, RoundBegins
<1> QED
  BY <1>4, <1>5, <1>6

\* What is handed over next.
LEMMA NextItem ==
    ASSUME NsInv, pc = "process", advancedBlocks # {},
           NEW f, f = First(advancedBlocks), ~f.exception,
           NEW tl, tl = conf.timeline, NEW n, n = R!CountBlocks(local)
    PROVE  /\ IsTimeline(tl) /\ CopyOK(tl, local) /\ n \in 0 .. R!CountBlocks(tl)
           /\ n \in Nat /\ nextBlockToRead = n + 1
           /\ f \in advancedBlocks /\ \A b \in advancedBlocks : ~Sooner(b, f)
           /\ ItemsOK(tl, local, n + 1, advancedBlocks, {})
           /\ f.dump = f.hash /\ f.dump \in Range(tl) /\ f.dump \notin Range(local)
           /\ f.pos = ThisBlock => /\ f.dump = Block(n + 1)
                                   /\ SignsOf(tl, n) \subseteq Range(local)
           /\ f.pos # ThisBlock => /\ f.dump \in SignsOf(tl, n)
                                   /\ \A k : f.dump # Block(k)
<1>1. /\ IsTimeline(tl) /\ CopyOK(tl, local) /\ n \in Nat /\ nextBlockToRead = n + 1
      /\ ItemsOK(tl, local, n + 1, advancedBlocks, {})
      /\ \A a \in advancedBlocks : a.exception \/ a.dump = a.hash
  BY NetworkAssumption DEF NsInv, TypesOK, CopyOK, AskedOK, RoundOK
<1>2. \A a \in advancedBlocks : a.number \in Nat /\ a.pos \in Nat /\ a.hash[2] \in Nat
  BY <1>1, SignItemTypes, BlockItemTypes DEF ItemsOK, BeforeBlock, ThisBlock, AfterBlock
<1>3. f \in advancedBlocks /\ \A b \in advancedBlocks : ~Sooner(b, f)
  BY <1>2, FirstFacts
<1>4. f.dump = f.hash
  BY <1>1, <1>3
<1>5. /\ f.hash \in Range(tl) /\ f.hash \notin Range(local) /\ n \in 0 .. R!CountBlocks(tl)
      /\ f.pos = ThisBlock => /\ f.hash = Block(n + 1)
                              /\ SignsOf(tl, n) \subseteq Range(local)
      /\ f.pos # ThisBlock => /\ f.hash \in SignsOf(tl, n)
                              /\ \A k : f.hash # Block(k)
  BY <1>1, <1>3, FirstItem
<1> QED
  BY <1>1, <1>3, <1>4, <1>5

LEMMA processAdvancedStep ==
    ASSUME NsInv, processAdvanced PROVE NsInv'
<1>1. /\ pc = "process" /\ advancedBlocks # {}
      /\ UNCHANGED <<conf, have, lastBlockInBlockchain, servers, afterBlocksAdditings,
                     headers, pending, fetched>>
  BY DEF processAdvanced
<1>2. afterBlocksAdditings.cleared
  BY <1>1 DEF NsInv, AdditingsOK
<1>3. PICK f : f = First(advancedBlocks)
  OBVIOUS
<1>4. PICK tl : tl = conf.timeline
  OBVIOUS
<1>5. AdditingsOK'
  BY <1>1, <1>2 DEF AdditingsOK
<1>6. CASE pc' = "idle" /\ local' = local /\ nextBlockToRead' \in Nat
  BY <1>1, <1>5, <1>6 DEF NsInv, TypesOK, AskedOK, Count, View, RoundOK
<1>7. CASE f.exception
  <2>1. pc' = "idle" /\ local' = local /\ nextBlockToRead' = nextBlockToRead
    BY <1>3, <1>7 DEF processAdvanced
  <2> QED
    BY <1>6, <2>1 DEF NsInv, TypesOK
<1>8. CASE ~f.exception
  <2>1. PICK n \in Nat : n = R!CountBlocks(local)
    BY DEF NsInv, CopyOK
  <2>2. /\ advancedBlocks' = advancedBlocks \ {f}
        /\ nextBlockToRead' = nextBlockToRead + IF f.pos = ThisBlock THEN 1 ELSE 0
        /\ \/ Accepts(f) /\ local' = Append(local, f.dump) /\ pc' = pc
           \/ ~Accepts(f) /\ pc' = "idle" /\ local' = local
    BY <1>3, <1>8 DEF processAdvanced
  <2>3. /\ IsTimeline(tl) /\ CopyOK(tl, local) /\ nextBlockToRead = n + 1
        /\ f \in advancedBlocks /\ \A b \in advancedBlocks : ~Sooner(b, f)
        /\ ItemsOK(tl, local, n + 1, advancedBlocks, {})
        /\ f.dump = f.hash /\ f.dump \in Range(tl) /\ f.dump \notin Range(local)
        /\ f.pos = ThisBlock => f.dump = Block(n + 1)
        /\ f.pos # ThisBlock => \A k : f.dump # Block(k)
    BY <1>1, <1>3, <1>4, <1>8, <2>1, NextItem
  <2>4. PICK m : m = n + IF f.pos = ThisBlock THEN 1 ELSE 0
    OBVIOUS
  <2>5. m \in Nat /\ nextBlockToRead' = m + 1
    BY <2>2, <2>3, <2>4
  <2>6. CASE ~Accepts(f)
    BY <1>6, <2>2, <2>5, <2>6
  <2>7. CASE Accepts(f)
    <3>1. PICK grown : grown = Append(local, f.dump)
      OBVIOUS
    <3>2. local' = grown /\ pc' = "process"
      BY <1>1, <2>2, <2>7, <3>1
    <3>3. /\ CopyOK(tl, grown)
          /\ R!CountBlocks(grown) = n + IF f.dump = Block(n + 1) THEN 1 ELSE 0
          /\ \A d : d \in Range(grown) <=> d \in Range(local) \/ d = f.dump
      BY <2>1, <2>3, <3>1, CopyGrows
    <3>4. R!CountBlocks(grown) = m
      BY <2>3, <2>4, <3>3
    <3>5. ItemsOK(tl, grown, m + 1, advancedBlocks \ {f}, {})
      BY <1>8, <2>1, <2>3, <2>4, <3>3, ItemsLeft
    <3>6. \A a \in advancedBlocks : a.exception \/ a.dump = a.hash
      BY <1>1 DEF NsInv, RoundOK
    <3>7. CopyOK(conf.timeline, local)'
      BY <1>1, <1>4, <3>2, <3>3
    <3>8. RoundOK'
      BY <1>1, <1>4, <2>2, <2>5, <3>2, <3>5, <3>6 DEF RoundOK
    <3>9. TypesOK' /\ AskedOK'
      BY <1>1, <2>5, <3>2, <3>4 DEF NsInv, TypesOK, AskedOK, Count, View
    <3> QED
      BY <1>5, <3>7, <3>8, <3>9 DEF NsInv
  <2> QED
    BY <2>6, <2>7
<1> QED
  BY <1>7, <1>8

LEMMA NsInitially == NsInit => NsInv
<1> SUFFICES ASSUME NsInit PROVE NsInv
  OBVIOUS
<1>1. /\ conf \in Configs /\ have = [s \in Servers |-> 0] /\ local = <<>>
      /\ pc = "idle" /\ nextBlockToRead = 0 /\ lastBlockInBlockchain = 0 /\ servers = {}
      /\ afterBlocksAdditings = NoAdditings /\ headers = {} /\ fetched = 0
  BY DEF NsInit
<1>2. IsTimeline(conf.timeline) /\ Len(conf.timeline) \in Nat
  BY <1>1, NetworkAssumption, TimelineFacts
<1>3. TypesOK
  BY <1>1, <1>2 DEF TypesOK
<1>4. CopyOK(conf.timeline, local)
  <2>1. PICK P : P = {i \in DOMAIN local : R!IsBlock(local[i])}
    OBVIOUS
  <2>2. DOMAIN local = {} /\ P = {}
    BY <1>1, <2>1
  <2>3. R!CountBlocks(local) = Cardinality(P)
    BY <2>1, InstanceCardinality, Zenon DEF R!CountBlocks
  <2>4. R!CountBlocks(local) = 0
    BY <2>2, <2>3, FS_EmptySet
  <2>5. Range(local) = {}
    BY <2>2 DEF Range
  <2>6. local \in Seq(Range(conf.timeline)) /\ IsInjective(local)
    BY <1>1, <2>2 DEF IsInjective
  <2>7. \A n \in Nat : n \notin 1 .. 0
    OBVIOUS
  <2> QED
    BY <2>4, <2>5, <2>6, <2>7 DEF CopyOK
<1>5. AskedOK /\ RoundOK
  BY <1>1 DEF AskedOK, RoundOK
<1>6. AdditingsOK
  BY <1>1 DEF AdditingsOK, NoAdditings
<1> QED
  BY <1>3, <1>4, <1>5, <1>6 DEF NsInv

LEMMA NsStutters ==
    ASSUME NsInv, UNCHANGED nsVars PROVE NsInv'
BY DEF NsInv, nsVars, sourceVars, TypesOK, AskedOK, Count, View, AdditingsOK, RoundOK

LEMMA NsSteps == NsInv /\ [NsNext]_nsVars => NsInv'
<1> SUFFICES ASSUME NsInv, [NsNext]_nsVars PROVE NsInv'
  OBVIOUS
<1>1. CASE UNCHANGED nsVars
  BY <1>1, NsStutters
<1>2. CASE NsNext
  BY <1>2, doProcessStep, doProcessPreLoadStep, processBeginsStep, fetchBlockStep,
     fetchHeaderFailsStep, batchFetchedStep, fetchAdditingStep, parseBlockInfoStep,
     processAdvancedStep, RestartStep, GrowStep DEF NsNext, SourceNext
<1> QED
  BY <1>1, <1>2

(***************************************************************************)
(* Theorems.                                                               *)
(***************************************************************************)

\* At every moment what is asked for, what has been fetched and what has been
\* handed over fit together: the headers name the sign blocks the network has
\* between the blocks, the items follow the copy without a gap, and none is
\* there twice.
THEOREM NsInvariant == NsSpec => []NsInv
<1> QED
  BY NsInitially, NsSteps, PTL DEF NsSpec

\* SyncImpl never refuses a delivered block as one it has already or one that
\* does not follow, only a sign block that has no file.
THEOREM NothingIsRefused == NsSpec => []NothingRefused
<1>1. NsInv => NothingRefused
  <2> SUFFICES ASSUME NsInv, pc = "process", advancedBlocks # {}
               PROVE  \/ First(advancedBlocks).exception
                      \/ Accepts(First(advancedBlocks))
                      \/ First(advancedBlocks).file = NoFile
    BY DEF NothingRefused
  <2>1. PICK f : f = First(advancedBlocks)
    OBVIOUS
  <2>2. PICK n : n = R!CountBlocks(local)
    OBVIOUS
  <2>3. PICK tl : tl = conf.timeline
    OBVIOUS
  <2> SUFFICES ASSUME ~f.exception, f.file # NoFile PROVE Accepts(f)
    BY <2>1
  <2>4. /\ f.dump \notin Range(local)
        /\ f.pos = ThisBlock => f.dump = Block(n + 1)
    BY <2>1, <2>2, <2>3, NextItem
  <2> QED
    BY <2>2, <2>4 DEF Accepts
<1> QED
  BY <1>1, NsInvariant, PTL

\* Every step of the node is a step of Replica, or changes nothing that Replica
\* knows of.
LEMMA ReplicaSteps ==
    NsInv /\ [NsNext]_nsVars => [R!RpNext]_<<conf.timeline, local>>
<1> SUFFICES ASSUME NsInv, [NsNext]_nsVars
             PROVE  R!RpNext \/ UNCHANGED <<conf.timeline, local>>
  OBVIOUS
<1>1. conf' = conf
  BY DEF NsNext, SourceNext, doProcess, doProcessPreLoad, BeginRound, processBegins,
         fetchBlock, fetchHeaderFails, InBatch, batchFetched, fetchAdditing,
         parseBlockInfo, processAdvanced, Restart, Grow, nsVars
<1>2. CASE ~processAdvanced
  BY <1>1, <1>2 DEF NsNext, SourceNext, doProcess, doProcessPreLoad, BeginRound,
         processBegins, fetchBlock, fetchHeaderFails, InBatch, batchFetched,
         fetchAdditing, parseBlockInfo, Restart, Grow, nsVars
<1>3. CASE processAdvanced
  <2>1. PICK f : f = First(advancedBlocks)
    OBVIOUS
  <2>2. pc = "process" /\ advancedBlocks # {}
    BY <1>3 DEF processAdvanced
  <2>3. CASE local' = local
    BY <1>1, <2>3
  <2>4. CASE local' # local
    <3>1. ~f.exception /\ local' = Append(local, f.dump)
      BY <1>3, <2>1, <2>4 DEF processAdvanced
    <3>2. PICK n : n = R!CountBlocks(local)
      OBVIOUS
    <3>3. PICK tl : tl = conf.timeline
      OBVIOUS
    <3>4. /\ f.dump \in Range(tl) /\ f.dump \notin Range(local)
          /\ f.pos = ThisBlock => /\ f.dump = Block(n + 1)
                                  /\ SignsOf(tl, n) \subseteq Range(local)
          /\ f.pos # ThisBlock => f.dump \in SignsOf(tl, n)
      BY <2>1, <2>2, <3>1, <3>2, <3>3, NextItem
    <3>5. CASE f.pos = ThisBlock
      <4>1. /\ <<"block", n + 1>> \in R!Elements(tl)
            /\ R!Elements(R!SignsAfter(tl, n)) \subseteq R!Elements(local)
            /\ local' = Append(local, <<"block", n + 1>>)
        BY <3>1, <3>4, <3>5, ElementsAreRange DEF SignsOf, Block
      <4>2. R!CopyBlock
        BY <3>2, <3>3, <4>1 DEF R!CopyBlock
      <4> QED
        BY <1>1, <4>2 DEF R!RpNext
    <3>6. CASE f.pos # ThisBlock
      <4>1. f.dump \in R!Elements(R!SignsAfter(tl, n)) \ R!Elements(local)
        BY <3>4, <3>6, ElementsAreRange DEF SignsOf
      <4>2. R!CopySign
        BY <3>1, <3>2, <3>3, <4>1 DEF R!CopySign
      <4> QED
        BY <1>1, <4>2 DEF R!RpNext
    <3> QED
      BY <3>5, <3>6
  <2> QED
    BY <2>3, <2>4
<1> QED
  BY <1>2, <1>3

\* Whatever fails in between, the node's timeline becomes a copy of that of the
\* network, element by element, as Replica says.
THEOREM ReplicaImplemented == NsSpec => ImplementsReplica
<1>1. NsInit => R!RpInit
  BY DEF NsInit, R!RpInit
<1> QED
  BY <1>1, NsInvariant, ReplicaSteps, PTL DEF NsSpec, ImplementsReplica, R!RpSpec

(***************************************************************************)
(* Honest dumps, when nothing is pre-loaded.  With a pre-load the dumps    *)
(* are given to the sign blocks in the order of their hashes, which need   *)
(* not be theirs; and the size of a sign block is never right with verify. *)
(***************************************************************************)

PlainConfigs ==
    \A c \in Configs :
        ~c.preLoad /\ (c.verify => \A e \in Range(c.timeline) : e[1] = "block")

\* A dump is that of its hash or a wrong one, in the cache and among the items.
HonestOK ==
    /\ \A h \in DOMAIN dumps : dumps[h] \in {h, Junk}
    /\ \A a \in advancedBlocks :
        /\ DOMAIN a = Fields /\ a.dump \in {a.hash, Junk} /\ ~a.signedSize
        /\ a.exception => a.dump = Junk

LEMMA DumpFacts ==
    ASSUME HonestOK, NEW hash, NEW hs, NEW d \in getBlockDump(hash, hs)
    PROVE  /\ \A h \in DOMAIN d.cache : d.cache[h] \in {h, Junk}
           /\ d.dump \in {hash, Junk}
<1>1. \A h \in DOMAIN dumps : dumps[h] \in {h, Junk}
  BY DEF HonestOK
<1>2. CASE hash \in DOMAIN dumps
  <2>1. d = [cache |-> dumps, dump |-> dumps[hash], cost |-> 0]
    BY <1>2 DEF getBlockDump
  <2> QED
    BY <1>1, <1>2, <2>1
<1>3. CASE hash \notin DOMAIN dumps
  <2>1. PICK loaded : loaded = LoadedWith(hash, hs)
    OBVIOUS
  <2>2. \E bad : /\ d.cache = [h \in loaded \cup DOMAIN dumps |->
                        IF h \notin loaded THEN dumps[h]
                        ELSE IF h \in bad THEN Junk ELSE h]
                 /\ d.dump = IF hash \in bad THEN Junk ELSE hash
    BY <1>3, <2>1 DEF getBlockDump
  <2>3. PICK bad : /\ d.cache = [h \in loaded \cup DOMAIN dumps |->
                        IF h \notin loaded THEN dumps[h]
                        ELSE IF h \in bad THEN Junk ELSE h]
                   /\ d.dump = IF hash \in bad THEN Junk ELSE hash
    BY <2>2
  <2> QED
    BY <1>1, <2>3
<1> QED
  BY <1>2, <1>3

LEMMA HonestFetch ==
    ASSUME NsInv, HonestOK, fetchBlock PROVE HonestOK'
<1>1. PICK hs \in getBlockHeader(NextInBatch) : \E h \in hs :
        \/ \E d \in getBlockDump(h.hash, hs) :
              /\ dumps' = d.cache
              /\ advancedBlocks' = advancedBlocks \cup {AdvancedBlock(h, d.dump, FALSE)}
        \/ /\ advancedBlocks' = advancedBlocks \cup {AdvancedBlock(h, Junk, TRUE)}
           /\ dumps' = dumps
  BY DEF fetchBlock
<1>2. PICK h \in hs :
        \/ \E d \in getBlockDump(h.hash, hs) :
              /\ dumps' = d.cache
              /\ advancedBlocks' = advancedBlocks \cup {AdvancedBlock(h, d.dump, FALSE)}
        \/ /\ advancedBlocks' = advancedBlocks \cup {AdvancedBlock(h, Junk, TRUE)}
           /\ dumps' = dumps
  BY <1>1
<1>3. CASE \E d \in getBlockDump(h.hash, hs) :
              /\ dumps' = d.cache
              /\ advancedBlocks' = advancedBlocks \cup {AdvancedBlock(h, d.dump, FALSE)}
  <2>1. PICK d \in getBlockDump(h.hash, hs) :
              /\ dumps' = d.cache
              /\ advancedBlocks' = advancedBlocks \cup {AdvancedBlock(h, d.dump, FALSE)}
    BY <1>3
  <2>2. PICK a : a = AdvancedBlock(h, d.dump, FALSE)
    OBVIOUS
  <2>3. /\ DOMAIN a = Fields /\ a.hash = h.hash /\ a.dump = d.dump
        /\ a.signedSize = FALSE /\ a.exception = FALSE
    BY <2>2 DEF AdvancedBlock, Fields
  <2>4. /\ \A k \in DOMAIN d.cache : d.cache[k] \in {k, Junk}
        /\ d.dump \in {h.hash, Junk}
    BY DumpFacts
  <2> QED
    BY <2>1, <2>2, <2>3, <2>4 DEF HonestOK
<1>4. CASE /\ advancedBlocks' = advancedBlocks \cup {AdvancedBlock(h, Junk, TRUE)}
           /\ dumps' = dumps
  <2>1. PICK a : a = AdvancedBlock(h, Junk, TRUE)
    OBVIOUS
  <2>2. DOMAIN a = Fields /\ a.dump = Junk /\ a.signedSize = FALSE
    BY <2>1 DEF AdvancedBlock, Fields
  <2> QED
    BY <1>4, <2>1, <2>2 DEF HonestOK
<1> QED
  BY <1>2, <1>3, <1>4

LEMMA HonestNoHeader ==
    ASSUME HonestOK, fetchHeaderFails PROVE HonestOK'
<1>1. PICK h : h = [number |-> NextInBatch, hash |-> NoHash, prev |-> {}, next |-> {}]
  OBVIOUS
<1>2. /\ dumps' = dumps
      /\ \/ advancedBlocks' = advancedBlocks
         \/ advancedBlocks' = advancedBlocks \cup {AdvancedBlock(h, Junk, TRUE)}
  BY <1>1 DEF fetchHeaderFails
<1>3. PICK a : a = AdvancedBlock(h, Junk, TRUE)
  OBVIOUS
<1>4. DOMAIN a = Fields /\ a.dump = Junk /\ a.signedSize = FALSE
  BY <1>3 DEF AdvancedBlock, Fields
<1> QED
  BY <1>2, <1>3, <1>4 DEF HonestOK

LEMMA HonestAdditing ==
    ASSUME PlainConfigs, NsInv, HonestOK, fetchAdditing PROVE HonestOK'
<1>1. PICK x : x = First(pending)
  OBVIOUS
<1>2. \/ dumps' = dumps /\ advancedBlocks' = advancedBlocks
      \/ \E d \in getBlockDump(x.hash, headers) :
            /\ dumps' = d.cache
            /\ advancedBlocks' = advancedBlocks \cup {AdvancedSign(x, d.dump, FileOf(x))}
  BY <1>1 DEF fetchAdditing
<1>3. CASE dumps' = dumps /\ advancedBlocks' = advancedBlocks
  BY <1>3 DEF HonestOK
<1>4. CASE \E d \in getBlockDump(x.hash, headers) :
            /\ dumps' = d.cache
            /\ advancedBlocks' = advancedBlocks \cup {AdvancedSign(x, d.dump, FileOf(x))}
  <2>1. PICK d \in getBlockDump(x.hash, headers) :
            /\ dumps' = d.cache
            /\ advancedBlocks' = advancedBlocks \cup {AdvancedSign(x, d.dump, FileOf(x))}
    BY <1>4
  <2>2. ~conf.verify
    <3>1. /\ pc = "additing" /\ pending # {} /\ conf \in Configs
          /\ IsTimeline(conf.timeline)
      BY NetworkAssumption DEF fetchAdditing, NsInv, TypesOK
    <3>2. \A a \in pending : SignItem(conf.timeline, a)
      BY <3>1 DEF NsInv, RoundOK, ItemsOK
    <3>3. \A a \in pending : /\ a.number \in Nat /\ a.pos \in Nat /\ a.hash[2] \in Nat
                             /\ a.hash \in Range(conf.timeline) /\ a.hash[1] = "sign"
      BY <3>1, <3>2, SignItemTypes DEF BeforeBlock, AfterBlock
    <3> QED
      BY <3>1, <3>3 DEF PlainConfigs
  <2>3. PICK a : a = AdvancedSign(x, d.dump, FileOf(x))
    OBVIOUS
  <2>4. /\ DOMAIN a = Fields /\ a.hash = x.hash /\ a.dump = d.dump
        /\ a.signedSize = conf.verify /\ a.exception = FALSE
    BY <2>3 DEF AdvancedSign, Fields
  <2>5. /\ \A k \in DOMAIN d.cache : d.cache[k] \in {k, Junk}
        /\ d.dump \in {x.hash, Junk}
    BY DumpFacts
  <2> QED
    BY <2>1, <2>2, <2>3, <2>4, <2>5 DEF HonestOK
<1> QED
  BY <1>2, <1>3, <1>4

LEMMA HonestParse ==
    ASSUME HonestOK, parseBlockInfo PROVE HonestOK'
<1>1. /\ dumps' = dumps
      /\ advancedBlocks' = {[a EXCEPT !.exception = @ \/ ~Parses(a)] : a \in advancedBlocks}
  BY DEF parseBlockInfo
<1> SUFFICES ASSUME NEW b \in advancedBlocks'
             PROVE  /\ DOMAIN b = Fields /\ b.dump \in {b.hash, Junk} /\ ~b.signedSize
                    /\ b.exception => b.dump = Junk
  BY <1>1 DEF HonestOK
<1>2. PICK a \in advancedBlocks : b = [a EXCEPT !.exception = @ \/ ~Parses(a)]
  BY <1>1
<1>3. PICK e : e = (a.exception \/ ~Parses(a))
  OBVIOUS
<1>4. b = [a EXCEPT !.exception = e]
  BY <1>2, <1>3, Zenon
<1>5. DOMAIN a = Fields /\ a.dump \in {a.hash, Junk} /\ ~a.signedSize
      /\ (a.exception => a.dump = Junk)
  BY DEF HonestOK
<1>6. /\ DOMAIN b = Fields /\ b.hash = a.hash /\ b.dump = a.dump
      /\ b.signedSize = a.signedSize /\ b.exception = e
  BY <1>4, <1>5 DEF Fields
<1>7. e => a.dump = Junk
  <2>1. a.dump # Junk => a.dump = a.hash
    BY <1>5
  <2> QED
    BY <1>3, <1>5, <2>1, Zenon DEF Parses
<1>8. b.exception => b.dump = Junk
  BY <1>6, <1>7, Zenon
<1> QED
  BY <1>5, <1>6, <1>8

\* Without a pre-load, the checks of parseBlockInfo fail only on a dump that
\* another node got wrong: blocks and sign blocks that are loaded ahead, cached
\* and mixed in a batch are never taken for each other.
THEOREM HonestDumpsTaken == PlainConfigs /\ NsSpec => []HonestDumpsPass
<1> SUFFICES ASSUME PlainConfigs PROVE NsSpec => []HonestDumpsPass
  OBVIOUS
<1>1. NsInit => HonestOK
  BY DEF NsInit, HonestOK, Nothing
<1>2. ASSUME NsInv, HonestOK, [NsNext]_nsVars PROVE HonestOK'
  <2>1. CASE dumps' = dumps /\ advancedBlocks' \subseteq advancedBlocks
    BY <1>2, <2>1 DEF HonestOK
  <2>2. CASE dumps' = Nothing /\ advancedBlocks' = {}
    BY <2>2 DEF HonestOK, Nothing
  <2>3. ASSUME NEW answered \in SUBSET Servers, doProcess(answered)
        PROVE  dumps' = Nothing /\ advancedBlocks' = {}
    BY <2>3 DEF doProcess, BeginRound, NoAnswer, ClearedCache
  <2>4. ASSUME NEW answered \in SUBSET Servers, doProcessPreLoad(answered) PROVE FALSE
    BY <1>2, <2>4 DEF doProcessPreLoad, PlainConfigs, NsInv, TypesOK
  <2>5. CASE UNCHANGED nsVars \/ processBegins \/ batchFetched
             \/ processAdvanced \/ \E s \in Servers : Grow(s)
    BY <2>1, <2>5 DEF nsVars, sourceVars, processBegins, batchFetched, processAdvanced, Grow
  <2>6. CASE Restart
    BY <2>2, <2>6 DEF Restart
  <2> QED
    BY <1>2, <2>2, <2>3, <2>4, <2>5, <2>6, HonestFetch, HonestNoHeader, HonestAdditing,
       HonestParse DEF NsNext, SourceNext
<1>3. HonestOK => HonestDumpsPass
  BY DEF HonestOK, HonestDumpsPass
<1>4. NsInv /\ HonestOK /\ [NsNext]_nsVars => HonestOK'
  BY <1>2
<1> QED
  BY <1>1, <1>3, <1>4, NsInvariant, PTL DEF NsSpec

=============================================================================
