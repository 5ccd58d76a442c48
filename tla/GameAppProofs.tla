--------------------------- MODULE GameAppProofs ---------------------------
(***************************************************************************)
(* Theorems about GameApp, for every size of the board and of the table,   *)
(* every name, every score and any number of games.                        *)
(***************************************************************************)
EXTENDS GameApp, Induction, SequenceTheorems

USE GridAssumption, RecordsAssumption, NameAssumption

-----------------------------------------------------------------------------
(* The table of the best results *)

ScoresOf(list) == [k \in Rows |-> list[k].score]

\* What the table always is.
Table(list) ==
    /\ list = [k \in Rows |-> list[k]]
    /\ \A k \in Rows : list[k].score \in Nat
    /\ \A j, k \in Rows : j < k => list[j].score >= list[k].score

\* In a table the results that are as good are the first ones.
LEMMA Counted ==
    ASSUME NEW list, Table(list), NEW v \in Nat, NEW c \in 0..MAX_RECORDS,
           \A k \in Rows : list[k].score >= v <=> k <= c
    PROVE  AsGood(ScoresOf(list), v) = c
<1>1. {k \in DOMAIN ScoresOf(list) : ScoresOf(list)[k] >= v} = 1..c
  BY DEF ScoresOf, Rows
<1>2. Cardinality(1..c) = c
  BY FS_Interval
<1>. QED
  BY <1>1, <1>2 DEF AsGood

LEMMA CountExists ==
    ASSUME NEW list, Table(list), NEW v \in Nat
    PROVE  \E c \in 0..MAX_RECORDS : \A k \in Rows : list[k].score >= v <=> k <= c
<1> DEFINE Bad == {k \in Rows : ~(list[k].score >= v)}
<1>1. CASE Bad = {}
  <2>1. \A k \in Rows : list[k].score >= v <=> k <= MAX_RECORDS
    BY <1>1 DEF Rows
  <2>. QED
    BY <2>1
<1>2. CASE Bad # {}
  <2>1. Bad \in SUBSET Nat
    BY DEF Rows
  <2>2. PICK b \in Bad : \A k \in Bad : b <= k
    BY <1>2, <2>1, NatMin
  <2>3. b \in Rows /\ b \in Nat /\ b - 1 \in 0..MAX_RECORDS
    BY <2>2 DEF Rows
  <2>4. ASSUME NEW k \in Rows PROVE list[k].score >= v <=> k <= b - 1
    <3>1. k \in Nat /\ list[k].score \in Nat /\ list[b].score \in Nat
      BY <2>3 DEF Table, Rows
    <3>2. ~(list[b].score >= v)
      BY <2>2
    <3>3. CASE k < b
      BY <2>2, <2>3, <3>1, <3>3
    <3>4. CASE k = b
      BY <2>3, <3>1, <3>2, <3>4
    <3>5. CASE b < k
      <4>1. list[b].score >= list[k].score
        BY <2>3, <3>5 DEF Table
      <4>. QED
        BY <2>3, <3>1, <3>2, <3>5, <4>1
    <3>. QED
      BY <2>3, <3>1, <3>3, <3>4, <3>5
  <2>. QED
    BY <2>3, <2>4
<1>. QED
  BY <1>1, <1>2

\* Min of two numbers.
LEMMA MinOfTwo ==
    ASSUME NEW a \in Nat, NEW b \in Nat
    PROVE  Min({a, b}) = IF a <= b THEN a ELSE b
<1>1. {a, b} \in SUBSET Nat /\ {a, b} # {}
  OBVIOUS
<1>2. Min({a, b}) \in {a, b} /\ \A y \in {a, b} : Min({a, b}) <= y
  BY <1>1, MinIs
<1>. QED
  BY <1>2

\* add_record keeps a table a table, and a result counts once while there is
\* room for it.
LEMMA Added ==
    ASSUME NEW list, Table(list), NEW name, NEW points \in Nat
    PROVE  /\ Table(add_record(list, name, points))
           /\ \A v \in Nat :
                AsGood(ScoresOf(add_record(list, name, points)), v) =
                  Min({MAX_RECORDS,
                       AsGood(ScoresOf(list), v) + (IF points >= v THEN 1 ELSE 0)})
<1> DEFINE new == add_record(list, name, points)
           worse == {k \in Rows : points > list[k].score}
<1>0. /\ MAX_RECORDS \in Nat /\ \A k \in Rows : k \in Nat /\ list[k].score \in Nat
      /\ \A k \in Rows : k >= 1 /\ k <= MAX_RECORDS
  BY DEF Table, Rows
<1>1. CASE worse = {}
  <2>1. new = list
    BY <1>1 DEF add_record
  <2>2. \A k \in Rows : list[k].score >= points
    BY <1>0, <1>1
  <2>3. ASSUME NEW v \in Nat
        PROVE  AsGood(ScoresOf(list), v) =
                 Min({MAX_RECORDS, AsGood(ScoresOf(list), v) + (IF points >= v THEN 1 ELSE 0)})
    <3>1. PICK c \in 0..MAX_RECORDS : \A k \in Rows : list[k].score >= v <=> k <= c
      BY CountExists
    <3>2. AsGood(ScoresOf(list), v) = c
      BY <3>1, Counted
    <3>3. CASE points >= v
      <4>1. MAX_RECORDS \in Rows /\ list[MAX_RECORDS].score >= v
        BY <1>0, <2>2, <3>3 DEF Rows
      <4>2. c = MAX_RECORDS
        BY <3>1, <4>1
      <4>3. Min({MAX_RECORDS, c + 1}) = MAX_RECORDS
        BY <4>2, MinOfTwo
      <4>. QED
        BY <3>2, <3>3, <4>2, <4>3
    <3>4. CASE ~(points >= v)
      <4>1. Min({MAX_RECORDS, c + 0}) = c
        BY MinOfTwo
      <4>. QED
        BY <3>2, <3>4, <4>1
    <3>. QED
      BY <3>3, <3>4
  <2>. QED
    BY <2>1, <2>3
<1>2. CASE worse # {}
  <2>0. worse \in SUBSET Nat
    BY <1>0
  <2>1. \E k \in worse : \A j \in worse : k <= j
    BY <1>2, <2>0, NatMin
  <2> DEFINE at == CHOOSE k \in worse : \A j \in worse : k <= j
             record == [name |-> name, score |-> points]
  <2>2. at \in worse /\ \A j \in worse : at <= j
    BY <2>1
  <2>3. new = Inserted(list, at, record)
    BY <1>2 DEF add_record
  <2> HIDE DEF at, new
  <2>4. at \in Rows /\ at \in Nat /\ points > list[at].score
    BY <1>0, <2>2
  <2>5. \A k \in Rows : k < at => list[k].score >= points
    <3>1. ASSUME NEW k \in Rows, k < at PROVE list[k].score >= points
      <4>1. k \notin worse
        BY <1>0, <2>2, <2>4, <3>1
      <4>2. ~(points > list[k].score)
        BY <4>1
      <4>. QED
        BY <1>0, <4>2
    <3>. QED
      BY <3>1
  <2>6. \A k \in Rows : at <= k => points > list[k].score
    BY <1>0, <2>4 DEF Table
  <2>7. new = [k \in Rows |-> IF k < at THEN list[k] ELSE IF k = at THEN record ELSE list[k - 1]]
    BY <2>3 DEF Inserted
  <2>8. \A k \in Rows : at < k => k - 1 \in Rows
    BY <1>0, <2>4 DEF Rows
  <2>9. \A k \in Rows : new[k].score = IF k < at THEN list[k].score
                                       ELSE IF k = at THEN points ELSE list[k - 1].score
    BY <2>7
  <2>10. Table(new)
    <3>1. new = [k \in Rows |-> new[k]]
      BY <2>7
    <3>2. \A k \in Rows : new[k].score \in Nat
      <4>1. ASSUME NEW k \in Rows PROVE new[k].score \in Nat
        <5>1. k < at \/ k = at \/ (at < k /\ k - 1 \in Rows)
          BY <1>0, <2>4, <2>8
        <5>2. \/ new[k].score = list[k].score
              \/ new[k].score = points
              \/ k - 1 \in Rows /\ new[k].score = list[k - 1].score
          BY <1>0, <2>4, <2>9, <5>1
        <5>. QED
          BY <1>0, <5>2
      <4>. QED
        BY <4>1
    <3>3. ASSUME NEW j \in Rows, NEW k \in Rows, j < k PROVE new[j].score >= new[k].score
      <4>0. j \in Nat /\ k \in Nat
        BY <1>0
      <4>1. CASE k < at
        BY <1>0, <2>4, <2>9, <3>3, <4>0, <4>1 DEF Table
      <4>2. CASE k = at
        BY <1>0, <2>4, <2>5, <2>9, <3>3, <4>0, <4>2
      <4>3. CASE at < k /\ j < at
        <5>1. k - 1 \in Rows /\ at <= k - 1
          BY <2>4, <2>8, <4>0, <4>3
        <5>2. list[j].score >= points /\ points > list[k - 1].score
          BY <2>5, <2>6, <4>3, <5>1
        <5>3. new[j].score = list[j].score /\ new[k].score = list[k - 1].score
          BY <2>4, <2>9, <4>0, <4>3
        <5>. QED
          BY <1>0, <5>1, <5>2, <5>3
      <4>4. CASE at < k /\ j = at
        <5>1. k - 1 \in Rows /\ at <= k - 1
          BY <2>4, <2>8, <4>0, <4>4
        <5>2. points > list[k - 1].score
          BY <2>6, <5>1
        <5>3. new[j].score = points /\ new[k].score = list[k - 1].score
          BY <2>4, <2>9, <4>0, <4>4
        <5>. QED
          BY <1>0, <5>1, <5>2, <5>3
      <4>5. CASE at < k /\ at < j
        <5>1. k - 1 \in Rows /\ j - 1 \in Rows /\ j - 1 < k - 1
          BY <2>4, <2>8, <3>3, <4>0, <4>5
        <5>2. list[j - 1].score >= list[k - 1].score
          BY <5>1 DEF Table
        <5>3. new[j].score = list[j - 1].score /\ new[k].score = list[k - 1].score
          BY <2>4, <2>9, <4>0, <4>5
        <5>. QED
          BY <5>2, <5>3
      <4>. QED
        BY <2>4, <4>0, <4>1, <4>2, <4>3, <4>4, <4>5
    <3>. QED
      BY <3>1, <3>2, <3>3 DEF Table
  <2>11. ASSUME NEW v \in Nat
         PROVE  AsGood(ScoresOf(new), v) =
                  Min({MAX_RECORDS, AsGood(ScoresOf(list), v) + (IF points >= v THEN 1 ELSE 0)})
    <3>1. PICK c \in 0..MAX_RECORDS : \A k \in Rows : list[k].score >= v <=> k <= c
      BY CountExists
    <3>2. AsGood(ScoresOf(list), v) = c
      BY <3>1, Counted
    <3>3. CASE points >= v
      <4> DEFINE d == IF MAX_RECORDS <= c + 1 THEN MAX_RECORDS ELSE c + 1
      <4>1. Min({MAX_RECORDS, c + 1}) = d
        BY MinOfTwo
      <4>2. d \in 0..MAX_RECORDS
        OBVIOUS
      <4>3. at <= c + 1
        <5>1. at = 1 \/ (at - 1 \in Rows /\ at - 1 < at)
          BY <2>4, <1>0 DEF Rows
        <5>2. CASE at - 1 \in Rows /\ at - 1 < at
          <6>1. list[at - 1].score >= points
            BY <2>5, <5>2
          <6>2. list[at - 1].score >= v
            BY <1>0, <3>3, <5>2, <6>1
          <6>3. at - 1 <= c
            BY <3>1, <5>2, <6>2
          <6>. QED
            BY <2>4, <6>3
        <5>. QED
          BY <2>4, <5>1, <5>2
      <4>4. ASSUME NEW k \in Rows PROVE new[k].score >= v <=> k <= d
        <5>0. k \in Nat /\ k <= MAX_RECORDS /\ (k <= d <=> k <= c + 1)
          BY <1>0
        <5>1. CASE k < at
          BY <1>0, <2>4, <2>5, <2>9, <3>3, <4>3, <5>0, <5>1
        <5>2. CASE k = at
          BY <2>4, <2>9, <3>3, <4>3, <5>0, <5>2
        <5>3. CASE at < k
          <6>1. k - 1 \in Rows /\ new[k].score = list[k - 1].score
            BY <2>4, <2>8, <2>9, <5>0, <5>3
          <6>2. list[k - 1].score >= v <=> k - 1 <= c
            BY <3>1, <6>1
          <6>. QED
            BY <5>0, <6>1, <6>2
        <5>. QED
          BY <2>4, <5>0, <5>1, <5>2, <5>3
      <4> HIDE DEF d
      <4>5. AsGood(ScoresOf(new), v) = d
        BY <2>10, <4>2, <4>4, Counted
      <4>. QED
        BY <3>2, <3>3, <4>1, <4>5
    <3>4. CASE ~(points >= v)
      <4>1. Min({MAX_RECORDS, c + 0}) = c
        BY MinOfTwo
      <4>2. c < at
        <5>1. ~(list[at].score >= v)
          BY <1>0, <2>4, <3>4
        <5>. QED
          BY <2>4, <3>1, <5>1
      <4>3. ASSUME NEW k \in Rows PROVE new[k].score >= v <=> k <= c
        <5>0. k \in Nat
          BY <1>0
        <5>1. CASE k < at
          BY <2>4, <2>9, <3>1, <5>0, <5>1
        <5>2. CASE k = at
          BY <2>4, <2>9, <3>4, <4>2, <5>0, <5>2
        <5>3. CASE at < k
          <6>1. k - 1 \in Rows /\ new[k].score = list[k - 1].score /\ at <= k - 1
            BY <2>4, <2>8, <2>9, <5>0, <5>3
          <6>2. points > list[k - 1].score
            BY <2>6, <6>1
          <6>. QED
            BY <1>0, <2>4, <3>4, <4>2, <5>0, <5>3, <6>1, <6>2
        <5>. QED
          BY <2>4, <5>0, <5>1, <5>2, <5>3
      <4>5. AsGood(ScoresOf(new), v) = c
        BY <2>10, <4>3, Counted
      <4>. QED
        BY <3>2, <3>4, <4>1, <4>5
    <3>. QED
      BY <3>3, <3>4
  <2>. QED
    BY <2>10, <2>11 DEF new
<1>. QED
  BY <1>1, <1>2

-----------------------------------------------------------------------------
(* One line of the board *)

\* What a cell may hold: joining doubles a tile, and no tile is a 1.
Value == Nat \ {1}
Lines == [Lane -> Value]

\* A measure of tiles.  With c = 0 joining two tiles keeps it, with c = 1 it
\* adds the points of the join.
Measure(w, c) ==
    /\ w \in [Value -> Nat] /\ w[0] = 0 /\ c \in {0, 1}
    /\ \A v \in Value : w[2 * v] = w[v] + w[v] + (IF c = 1 THEN 2 * v ELSE 0)

Weigh(w, line) == [k \in Lane |-> w[line[k]]]

LEMMA LaneFinite == IsFiniteSet(Lane)
BY FS_Interval DEF Lane

IsFront(front, line) ==
    /\ front \in [0..GRID_SIZE -> Seq(Value)] /\ front[0] = <<>>
    /\ \A k \in 1..GRID_SIZE : front[k] = IF line[k] = 0 THEN front[k - 1]
                                          ELSE Append(front[k - 1], line[k])

LEMMA FrontExists ==
    ASSUME NEW line \in Lines
    PROVE  \E front : IsFront(front, line) /\ Tiles(line) = front[GRID_SIZE]
<1> DEFINE Rec(f) == f = [n \in 0..GRID_SIZE |->
                            IF n = 0 THEN <<>>
                            ELSE IF line[n] = 0 THEN f[n - 1] ELSE Append(f[n - 1], line[n])]
           step == [n \in 1..GRID_SIZE |-> [s \in Seq(Value) |->
                      IF line[n] = 0 THEN s ELSE Append(s, line[n])]]
           F == CHOOSE f : Rec(f)
<1>0. GRID_SIZE \in Nat /\ \A n \in 1..GRID_SIZE : line[n] \in Value
  BY DEF Lines, Lane
<1>1. step \in [1..GRID_SIZE -> [Seq(Value) -> Seq(Value)]]
  BY <1>0
<1>2. \E h \in [0..GRID_SIZE -> Seq(Value)] :
         h[0] = <<>> /\ \A k \in 1..GRID_SIZE : h[k] = step[k][h[k - 1]]
  <2> DEFINE S == Seq(Value)
             base == <<>>
  <2>1. base \in S /\ Steps(step, GRID_SIZE, S)
    BY <1>1 DEF Steps
  <2> HIDE DEF step, S, base
  <2>2. \E h : Recurses(h, GRID_SIZE, S, base, step)
    BY <1>0, <2>1, Recursion
  <2>. QED
    BY <2>2 DEF S, base, Recurses
<1>3. PICK h \in [0..GRID_SIZE -> Seq(Value)] :
         h[0] = <<>> /\ \A k \in 1..GRID_SIZE : h[k] = step[k][h[k - 1]]
  BY <1>2
<1>4. \A k \in 1..GRID_SIZE : k - 1 \in 0..GRID_SIZE /\ h[k - 1] \in Seq(Value)
  BY <1>0, <1>3
<1>5. \A k \in 1..GRID_SIZE : h[k] = IF line[k] = 0 THEN h[k - 1] ELSE Append(h[k - 1], line[k])
  BY <1>3, <1>4
<1>6. Rec(h)
  <2>1. \A n \in 0..GRID_SIZE : n # 0 => n \in 1..GRID_SIZE
    OBVIOUS
  <2>. QED
    BY <1>3, <1>5, <2>1
<1>7. Rec(F)
  BY <1>6
<1>8. Tiles(line) = F[GRID_SIZE]
  BY DEF Tiles
<1> HIDE DEF F
<1>9. /\ F[0] = <<>>
      /\ \A k \in 1..GRID_SIZE : F[k] = IF line[k] = 0 THEN F[k - 1] ELSE Append(F[k - 1], line[k])
  <2>1. 0 \in 0..GRID_SIZE /\ \A k \in 1..GRID_SIZE : k \in 0..GRID_SIZE /\ k # 0
    BY <1>0
  <2>. QED
    BY <1>7, <2>1
<1>10. F = [n \in 0..GRID_SIZE |-> F[n]]
  BY <1>7
<1> DEFINE T == {n \in Nat : n <= GRID_SIZE => F[n] \in Seq(Value)}
<1>11. 0 \in T
  <2>1. <<>> \in Seq(Value)
    OBVIOUS
  <2>. QED
    BY <1>9, <2>1
<1>12. ASSUME NEW n \in Nat, n \in T PROVE n + 1 \in T
  <2>1. ASSUME n + 1 <= GRID_SIZE PROVE F[n + 1] \in Seq(Value)
    <3>1. n + 1 \in 1..GRID_SIZE /\ F[n] \in Seq(Value) /\ (n + 1) - 1 = n
      BY <1>0, <1>12, <2>1
    <3>. QED
      <4>1. F[n + 1] = IF line[n + 1] = 0 THEN F[n] ELSE Append(F[n], line[n + 1])
        BY <1>9, <3>1
      <4>. QED
        BY <1>0, <3>1, <4>1
  <2>. QED
    BY <2>1
<1>13. \A n \in Nat : n \in T
  <2> HIDE DEF T
  <2>. QED
    BY <1>11, <1>12, CountingUp
<1>14. F \in [0..GRID_SIZE -> Seq(Value)]
  <2>1. \A n \in 0..GRID_SIZE : F[n] \in Seq(Value)
    BY <1>0, <1>13
  <2>. QED
    BY <1>10, <2>1
<1>15. IsFront(F, line)
  BY <1>9, <1>14 DEF IsFront
<1>. QED
  BY <1>8, <1>15

\* What the loop has done after n cells.
UpTo(front, line, n) ==
    /\ Len(front[n]) <= n
    /\ \A k \in 1..Len(front[n]) : front[n][k] \in Value \ {0}
    /\ (\A k \in 1..n : line[k] # 0) => \A k \in 1..n : k <= Len(front[n]) /\ front[n][k] = line[k]
    /\ (\E k \in 1..n : line[k] = 0) => Len(front[n]) < n
    /\ (\E k \in 1..n : line[k] # 0) => Len(front[n]) > 0

LEMMA FrontGrows ==
    ASSUME NEW line \in Lines, NEW front, IsFront(front, line)
    PROVE  \A n \in 0..GRID_SIZE : UpTo(front, line, n)
<1> DEFINE T == {n \in Nat : n <= GRID_SIZE => UpTo(front, line, n)}
<1>0. GRID_SIZE \in Nat /\ \A n \in 1..GRID_SIZE : line[n] \in Value
  BY DEF Lines, Lane
<1>1. 0 \in T
  <2>1. Len(front[0]) = 0
    BY DEF IsFront
  <2>. QED
    BY <2>1 DEF UpTo
<1>2. ASSUME NEW n \in Nat, n \in T PROVE n + 1 \in T
  <2>1. ASSUME n + 1 <= GRID_SIZE PROVE UpTo(front, line, n + 1)
    <3>1. /\ n + 1 \in 1..GRID_SIZE /\ n \in 0..GRID_SIZE /\ (n + 1) - 1 = n
          /\ UpTo(front, line, n)
      BY <1>0, <1>2, <2>1
    <3>2. /\ front[n] \in Seq(Value) /\ line[n + 1] \in Value
          /\ front[n + 1] = IF line[n + 1] = 0 THEN front[n] ELSE Append(front[n], line[n + 1])
      BY <1>0, <3>1 DEF IsFront
    <3> DEFINE s == front[n]
               t == front[n + 1]
               v == line[n + 1]
    <3>3. s \in Seq(Value) /\ v \in Value /\ t = IF v = 0 THEN s ELSE Append(s, v)
      BY <3>2
    <3>4. /\ Len(s) <= n
          /\ \A k \in 1..Len(s) : s[k] \in Value \ {0}
          /\ (\A k \in 1..n : line[k] # 0) => \A k \in 1..n : k <= Len(s) /\ s[k] = line[k]
          /\ (\E k \in 1..n : line[k] = 0) => Len(s) < n
          /\ (\E k \in 1..n : line[k] # 0) => Len(s) > 0
      BY <3>1 DEF UpTo
    <3>5. /\ Len(t) <= n + 1
          /\ \A k \in 1..Len(t) : t[k] \in Value \ {0}
          /\ (\A k \in 1..n + 1 : line[k] # 0) => \A k \in 1..n + 1 : k <= Len(t) /\ t[k] = line[k]
          /\ (\E k \in 1..n + 1 : line[k] = 0) => Len(t) < n + 1
          /\ (\E k \in 1..n + 1 : line[k] # 0) => Len(t) > 0
      <4>1. Len(s) \in Nat /\ \A k \in 1..n + 1 : k \in 1..n \/ k = n + 1
        BY <3>3
      <4>2. v = line[n + 1] /\ n + 1 \in 1..n + 1
        OBVIOUS
      <4> HIDE DEF s, t, v
      <4>3. CASE v = 0
        <5>1. t = s /\ ~(\A k \in 1..n + 1 : line[k] # 0)
          BY <3>3, <4>2, <4>3
        <5>2. (\E k \in 1..n + 1 : line[k] # 0) => Len(t) > 0
          BY <3>4, <4>1, <4>2, <4>3, <5>1
        <5>. QED
          BY <3>4, <4>1, <5>1, <5>2
      <4>4. CASE v # 0
        <5>1. /\ t = Append(s, v) /\ Len(t) = Len(s) + 1 /\ t[Len(s) + 1] = v
              /\ \A k \in 1..Len(s) : t[k] = s[k]
          BY <3>3, <4>4
        <5>2. \A k \in 1..Len(t) : t[k] \in Value \ {0}
          BY <3>3, <3>4, <4>1, <4>4, <5>1
        <5>3. ASSUME \A k \in 1..n + 1 : line[k] # 0, NEW k \in 1..n + 1
              PROVE  k <= Len(t) /\ t[k] = line[k]
          <6>1. \A j \in 1..n : j <= Len(s) /\ s[j] = line[j]
            BY <3>4, <5>3
          <6>2. Len(s) = n
            <7>1. CASE n = 0
              BY <3>4, <4>1, <7>1
            <7>2. CASE n # 0
              <8>1. n \in 1..n
                BY <7>2
              <8>. QED
                BY <3>4, <4>1, <6>1, <8>1
            <7>. QED
              BY <7>1, <7>2
          <6>. QED
            BY <4>1, <4>2, <5>1, <6>1, <6>2
        <5>4. (\E k \in 1..n + 1 : line[k] = 0) => Len(t) < n + 1
          BY <3>4, <4>1, <4>2, <4>4, <5>1
        <5>. QED
          BY <3>4, <4>1, <5>1, <5>2, <5>3, <5>4
      <4>. QED
        BY <4>3, <4>4
    <3>. QED
      BY <3>5 DEF UpTo
  <2>. QED
    BY <2>1
<1>3. \A n \in Nat : n \in T
  <2> HIDE DEF T
  <2>. QED
    BY <1>1, <1>2, CountingUp
<1>. QED
  BY <1>0, <1>3

\* The tiles found so far weigh what the cells passed so far do.
LEMMA FrontWeighs ==
    ASSUME NEW line \in Lines, NEW front, IsFront(front, line), NEW w, NEW c, Measure(w, c)
    PROVE  \A n \in 0..GRID_SIZE :
             Total(Weigh(w, Padded(front[n])), Lane) = Total(Weigh(w, line), 1..n)
<1> DEFINE u == Weigh(w, line)
           pad(n) == Weigh(w, Padded(front[n]))
           T == {n \in Nat : n <= GRID_SIZE => Total(pad(n), Lane) = Total(u, 1..n)}
<1>0. GRID_SIZE \in Nat /\ Lane = 1..GRID_SIZE /\ \A n \in Lane : line[n] \in Value
  BY DEF Lines, Lane
<1>1. \A n \in 0..GRID_SIZE : UpTo(front, line, n)
  BY FrontGrows
<1>2. ASSUME NEW n \in 0..GRID_SIZE
      PROVE  /\ front[n] \in Seq(Value) /\ Len(front[n]) \in Nat /\ Len(front[n]) <= n
             /\ \A k \in Lane : pad(n)[k] = IF k <= Len(front[n]) THEN w[front[n][k]] ELSE 0
             /\ \A k \in Lane : pad(n)[k] \in Int
  <2>1. front[n] \in Seq(Value) /\ Len(front[n]) \in Nat
    BY DEF IsFront
  <2>2. Len(front[n]) <= n /\ \A k \in 1..Len(front[n]) : front[n][k] \in Value
    BY <1>1 DEF UpTo
  <2>3. \A k \in Lane : Padded(front[n])[k] = IF k <= Len(front[n]) THEN front[n][k] ELSE 0
    BY DEF Padded
  <2>4. \A k \in Lane : pad(n)[k] = w[Padded(front[n])[k]]
    BY DEF Weigh
  <2>5. w[0] = 0 /\ \A v \in Value : w[v] \in Int
    BY DEF Measure
  <2>6. \A k \in Lane : pad(n)[k] = IF k <= Len(front[n]) THEN w[front[n][k]] ELSE 0
    <3> HIDE DEF pad
    <3>. QED
      BY <2>3, <2>4, <2>5
  <2>7. \A k \in Lane : k <= Len(front[n]) => k \in 1..Len(front[n])
    BY <1>0, <2>1
  <2> HIDE DEF pad
  <2>8. \A k \in Lane : pad(n)[k] \in Int
    BY <2>2, <2>5, <2>6, <2>7
  <2>. QED
    BY <2>1, <2>2, <2>6, <2>8
<1>3. \A k \in Lane : u[k] = w[line[k]] /\ u[k] \in Int
  BY <1>0 DEF Weigh, Measure
<1>4. 0 \in T
  <2>1. Len(front[0]) = 0
    BY DEF IsFront
  <2>2. \A k \in Lane : pad(0)[k] = 0
    <3>1. 0 \in 0..GRID_SIZE /\ \A k \in Lane : ~(k <= 0)
      BY <1>0
    <3>. QED
      BY <1>2, <2>1, <3>1
  <2> HIDE DEF pad, u
  <2>3. Total(pad(0), Lane) = 0
    BY <2>2, LaneFinite, TotalZero
  <2>4. 1..0 = {} /\ Total(u, {}) = 0
    BY TotalEmpty
  <2>. QED
    BY <2>3, <2>4
<1>5. ASSUME NEW n \in Nat, n \in T PROVE n + 1 \in T
  <2>1. ASSUME n + 1 <= GRID_SIZE PROVE Total(pad(n + 1), Lane) = Total(u, 1..n + 1)
    <3>1. /\ n + 1 \in 1..GRID_SIZE /\ n \in 0..GRID_SIZE /\ n + 1 \in 0..GRID_SIZE
          /\ (n + 1) - 1 = n /\ Total(pad(n), Lane) = Total(u, 1..n)
      BY <1>0, <1>5, <2>1
    <3>2. front[n + 1] = IF line[n + 1] = 0 THEN front[n] ELSE Append(front[n], line[n + 1])
      BY <3>1 DEF IsFront
    <3>3. /\ 1..n \in SUBSET Lane /\ n + 1 \in Lane /\ n + 1 \notin 1..n
          /\ (1..n) \cup {n + 1} = 1..n + 1
      BY <1>0, <3>1
    <3>4. Total(u, (1..n) \cup {n + 1}) = u[n + 1] + Total(u, 1..n) /\ Total(u, 1..n) \in Int
      <4> DEFINE P == 1..n
                 x == n + 1
      <4>1. P \in SUBSET Lane /\ x \in Lane /\ x \notin P
        BY <3>3
      <4> HIDE DEF P, x, u, pad
      <4>2. Total(u, P \cup {x}) = u[x] + Total(u, P) /\ Total(u, P) \in Int
        BY <1>3, <4>1, LaneFinite, TotalAdd
      <4>. QED
        BY <4>2 DEF P, x
    <3>5. CASE line[n + 1] = 0
      <4>1. u[n + 1] = 0
        BY <1>3, <3>3, <3>5 DEF Measure
      <4>2. pad(n + 1) = pad(n)
        BY <3>2, <3>5
      <4> HIDE DEF u, pad
      <4>. QED
        <5>1. Total(u, 1..n + 1) = Total(u, 1..n)
          <6>1. Total(u, 1..n + 1) = u[n + 1] + Total(u, 1..n)
            BY <3>3, <3>4, Zenon
          <6>. QED
            BY <3>4, <4>1, <6>1
        <5>. QED
          BY <3>1, <4>2, <5>1
    <3>6. CASE line[n + 1] # 0
      <4> DEFINE at == Len(front[n]) + 1
      <4>1. /\ front[n + 1] = Append(front[n], line[n + 1]) /\ Len(front[n + 1]) = at
            /\ front[n + 1][at] = line[n + 1]
            /\ \A k \in 1..Len(front[n]) : front[n + 1][k] = front[n][k]
        BY <1>0, <1>2, <3>1, <3>2, <3>3, <3>6
      <4>2. at \in Lane /\ pad(n)[at] = 0 /\ pad(n + 1)[at] = u[n + 1]
        <5>1. at \in Lane
          BY <1>0, <1>2, <3>1
        <5>2. ~(at <= Len(front[n])) /\ at <= at
          BY <1>2, <3>1
        <5>. QED
          <6>1. pad(n)[at] = 0
            BY <1>2, <3>1, <5>1, <5>2
          <6>2. pad(n + 1)[at] = w[front[n + 1][at]]
            <7> DEFINE m == n + 1
            <7>1. m \in 0..GRID_SIZE /\ Len(front[m]) = at
              BY <3>1, <4>1
            <7>2. pad(m)[at] = IF at <= Len(front[m]) THEN w[front[m][at]] ELSE 0
              BY <1>2, <5>1, <7>1
            <7> HIDE DEF pad, m, at
            <7>3. pad(m)[at] = w[front[m][at]]
              BY <5>2, <7>1, <7>2
            <7>. QED
              BY <7>3 DEF m
          <6>3. pad(n + 1)[at] = u[n + 1]
            BY <1>3, <3>3, <4>1, <6>2
          <6>. QED
            BY <5>1, <6>1, <6>3
      <4>3. \A k \in Lane \ {at} : pad(n)[k] = pad(n + 1)[k]
        <5>1. ASSUME NEW k \in Lane, k # at PROVE pad(n)[k] = pad(n + 1)[k]
          <6>1. (k <= at <=> k <= Len(front[n])) /\ (k <= Len(front[n]) => k \in 1..Len(front[n]))
            BY <1>0, <1>2, <3>1, <5>1
          <6>2. /\ pad(n)[k] = IF k <= Len(front[n]) THEN w[front[n][k]] ELSE 0
                /\ pad(n + 1)[k] = IF k <= Len(front[n + 1]) THEN w[front[n + 1][k]] ELSE 0
            BY <1>2, <3>1
          <6> HIDE DEF pad, at
          <6>. QED
            BY <4>1, <6>1, <6>2
        <5>. QED
          BY <5>1
      <4> HIDE DEF at
      <4>4. \A k \in Lane : pad(n)[k] \in Int /\ pad(n + 1)[k] \in Int
        BY <1>2, <3>1
      <4> DEFINE p == pad(n)
                 q == pad(n + 1)
      <4>5. Total(q, Lane) = Total(p, Lane) + q[at] - p[at]
        <5>1. \A k \in Lane : p[k] \in Int /\ q[k] \in Int
          BY <4>4
        <5>2. \A k \in Lane \ {at} : p[k] = q[k]
          BY <4>3
        <5> HIDE DEF p, q
        <5>. QED
          BY <4>2, <5>1, <5>2, LaneFinite, TotalPoint
      <4>6. u[n + 1] \in Int
        BY <1>3, <3>3
      <4> HIDE DEF pad, u
      <4>. QED
        <5>1. Total(u, 1..n + 1) = u[n + 1] + Total(u, 1..n)
          BY <3>3, <3>4
        <5>2. Total(pad(n + 1), Lane) = Total(pad(n), Lane) + u[n + 1]
          BY <3>1, <3>4, <4>2, <4>5, <4>6
        <5>. QED
          BY <3>1, <3>4, <4>6, <5>1, <5>2
    <3>. QED
      BY <3>5, <3>6
  <2> HIDE DEF pad, u
  <2>. QED
    BY <2>1
<1>6. \A n \in Nat : n \in T
  <2> HIDE DEF T
  <2>. QED
    BY <1>4, <1>5, CountingUp
<1>. QED
  BY <1>0, <1>6

\* A line is packed when no tile follows an empty cell.
Packed(line) == \A j, k \in Lane : j < k /\ line[j] = 0 => line[k] = 0

\* What Shifted makes of a line.
LEMMA ShiftedIs ==
    ASSUME NEW line \in Lines
    PROVE  /\ Shifted(line) \in Lines /\ Packed(Shifted(line))
           /\ (\A k \in Lane : line[k] # 0) => Shifted(line) = line
           /\ \A w, c : Measure(w, c) => Total(Weigh(w, Shifted(line)), Lane) = Total(Weigh(w, line), Lane)
<1>1. PICK front : IsFront(front, line) /\ Tiles(line) = front[GRID_SIZE]
  BY FrontExists
<1> DEFINE s == front[GRID_SIZE]
<1>2. GRID_SIZE \in 0..GRID_SIZE /\ Lane = 1..GRID_SIZE /\ Lane \in SUBSET Nat
  BY DEF Lane
<1>3. UpTo(front, line, GRID_SIZE)
  BY <1>1, <1>2, FrontGrows
<1>4. s \in Seq(Value) /\ Len(s) \in Nat
  BY <1>1, <1>2 DEF IsFront
<1>5. Shifted(line) = [k \in Lane |-> IF k <= Len(s) THEN s[k] ELSE 0]
  BY <1>1 DEF Shifted, Padded
<1>6. \A k \in Lane : k <= Len(s) => s[k] \in Value \ {0}
  <2>1. \A k \in Lane : k <= Len(s) => k \in 1..Len(s)
    BY <1>2, <1>4
  <2>. QED
    BY <1>3, <2>1 DEF UpTo
<1>7. Shifted(line) \in Lines
  <2>1. 0 \in Value
    BY DEF Value
  <2> HIDE DEF s
  <2>. QED
    BY <1>5, <1>6, <2>1 DEF Lines
<1>8. Packed(Shifted(line))
  <2> HIDE DEF s
  <2>1. ASSUME NEW j \in Lane, NEW k \in Lane, j < k, Shifted(line)[j] = 0
        PROVE  Shifted(line)[k] = 0
    <3>1. ~(j <= Len(s))
      BY <1>5, <1>6, <2>1
    <3>2. ~(k <= Len(s))
      BY <1>2, <1>4, <2>1, <3>1
    <3>. QED
      BY <1>5, <3>2
  <2>. QED
    BY <2>1 DEF Packed
<1>9. ASSUME \A k \in Lane : line[k] # 0 PROVE Shifted(line) = line
  <2>1. \A k \in Lane : k <= Len(s) /\ s[k] = line[k]
    BY <1>2, <1>3, <1>9 DEF UpTo
  <2> HIDE DEF s
  <2>. QED
    BY <1>5, <2>1 DEF Lines
<1>10. ASSUME NEW w, NEW c, Measure(w, c)
       PROVE  Total(Weigh(w, Shifted(line)), Lane) = Total(Weigh(w, line), Lane)
  <2>1. Shifted(line) = Padded(front[GRID_SIZE])
    BY <1>1 DEF Shifted
  <2>2. Total(Weigh(w, Padded(front[GRID_SIZE])), Lane) = Total(Weigh(w, line), 1..GRID_SIZE)
    BY <1>1, <1>2, <1>10, FrontWeighs
  <2>. QED
    BY <1>2, <2>1, <2>2
<1>. QED
  BY <1>7, <1>8, <1>9, <1>10

Joining == [temp : Lines, gained : Nat]

\* Two tiles that the loop finds equal.
Pair(line, k) == line[k] # 0 /\ line[k] = line[k + 1]

\* One turn of the loop.
JoinAt(before, k) ==
    IF Pair(before.temp, k)
    THEN [temp |-> Join(before.temp, k), gained |-> before.gained + Gain(before.temp[k])]
    ELSE before

\* The measure of a line after gain points were made on it.
Weighed(w, c, new, old, gain) ==
    Total(Weigh(w, new), Lane) = Total(Weigh(w, old), Lane) + (IF c = 1 THEN gain ELSE 0)

LEMMA WeighInt ==
    ASSUME NEW w, NEW c, Measure(w, c), NEW line \in Lines
    PROVE  /\ \A k \in Lane : Weigh(w, line)[k] = w[line[k]] /\ Weigh(w, line)[k] \in Nat
           /\ Total(Weigh(w, line), Lane) \in Int
<1>1. \A k \in Lane : Weigh(w, line)[k] = w[line[k]] /\ Weigh(w, line)[k] \in Nat
  BY DEF Weigh, Lines, Measure
<1>2. \A k \in Lane : Weigh(w, line)[k] \in Int
  BY <1>1
<1>3. Total(Weigh(w, line), Lane) \in Int
  <2> DEFINE u == Weigh(w, line)
  <2>1. \A k \in Lane : u[k] \in Int
    BY <1>2
  <2> HIDE DEF u
  <2>2. Total(u, Lane) \in Int
    BY <2>1, LaneFinite, TotalInt
  <2>. QED
    BY <2>2 DEF u
<1>. QED
  BY <1>1, <1>3

\* A tile put in the place of another changes the measure by theirs.
LEMMA TilePut ==
    ASSUME NEW w, NEW c, Measure(w, c), NEW line \in Lines, NEW k \in Lane, NEW v \in Value
    PROVE  /\ [line EXCEPT ![k] = v] \in Lines
           /\ Total(Weigh(w, [line EXCEPT ![k] = v]), Lane) =
                Total(Weigh(w, line), Lane) + w[v] - w[line[k]]
<1> DEFINE new == [line EXCEPT ![k] = v]
           p == Weigh(w, line)
           q == Weigh(w, new)
<1>1. new \in Lines /\ new[k] = v /\ \A j \in Lane \ {k} : new[j] = line[j]
  BY DEF Lines
<1> HIDE DEF new
<1>2. \A j \in Lane : p[j] = w[line[j]] /\ p[j] \in Nat /\ q[j] = w[new[j]] /\ q[j] \in Nat
  BY <1>1, WeighInt
<1>3. \A j \in Lane : p[j] \in Int /\ q[j] \in Int
  BY <1>2
<1>4. \A j \in Lane \ {k} : p[j] = q[j]
  BY <1>1, <1>2
<1> HIDE DEF p, q
<1>5. Total(q, Lane) = Total(p, Lane) + q[k] - p[k]
  BY <1>3, <1>4, LaneFinite, TotalPoint
<1>6. q[k] = w[v] /\ p[k] = w[line[k]]
  BY <1>1, <1>2
<1>. QED
  BY <1>1, <1>5, <1>6 DEF new, p, q

LEMMA JoinAtIs ==
    ASSUME NEW b \in Joining, NEW k \in 1..GRID_SIZE - 1
    PROVE  /\ JoinAt(b, k) \in Joining /\ JoinAt(b, k).gained >= b.gained
           /\ Pair(b.temp, k) => JoinAt(b, k).gained > b.gained
           /\ ~Pair(b.temp, k) => JoinAt(b, k) = b
           /\ \A w, c : Measure(w, c) =>
                Weighed(w, c, JoinAt(b, k).temp, b.temp, JoinAt(b, k).gained - b.gained)
<1> DEFINE line == b.temp
           v == line[k]
           new == [[line EXCEPT ![k] = 2 * v] EXCEPT ![k + 1] = 0]
<1>1. /\ line \in Lines /\ b.gained \in Nat /\ k \in Lane /\ k + 1 \in Lane /\ k \in Nat
      /\ v \in Value /\ v \in Nat /\ 2 * v \in Value /\ 0 \in Value
  BY DEF Joining, Lines, Lane, Value
<1>2. CASE ~Pair(line, k)
  <2>1. JoinAt(b, k) = b
    BY <1>2 DEF JoinAt
  <2>2. ASSUME NEW w, NEW c, Measure(w, c) PROVE Weighed(w, c, line, line, b.gained - b.gained)
    <3>1. Total(Weigh(w, line), Lane) \in Int
      BY <1>1, <2>2, WeighInt
    <3> HIDE DEF line
    <3>. QED
      BY <1>1, <3>1 DEF Weighed
  <2>. QED
    BY <1>1, <1>2, <2>1, <2>2
<1>3. CASE Pair(line, k)
  <2>1. Join(line, k) = new
    <3>0. line \in [Lane -> Value]
      BY <1>1 DEF Lines
    <3>1. line = [j \in Lane |-> line[j]] /\ k # k + 1
      <4> HIDE DEF line
      <4>. QED
        BY <1>1, <3>0
    <3> HIDE DEF line
    <3>. QED
      BY <1>1, <3>1 DEF Join
  <2>2. /\ JoinAt(b, k) = [temp |-> new, gained |-> b.gained + 2 * v]
        /\ v # 0 /\ line[k + 1] = v
    BY <1>3, <2>1 DEF JoinAt, Gain, Pair
  <2> HIDE DEF line, v
  <2> DEFINE mid == [line EXCEPT ![k] = 2 * v]
  <2>3. mid \in Lines /\ mid[k + 1] = v /\ new = [mid EXCEPT ![k + 1] = 0] /\ new \in Lines
    BY <1>1, <2>2 DEF Lines
  <2>4. JoinAt(b, k).temp = new /\ JoinAt(b, k).gained = b.gained + 2 * v
    BY <2>2
  <2> HIDE DEF new, mid
  <2>5. JoinAt(b, k) \in Joining /\ JoinAt(b, k).gained > b.gained
    <3>1. b.gained + 2 * v \in Nat /\ b.gained + 2 * v > b.gained
      BY <1>1, <2>2
    <3>. QED
      BY <2>2, <2>3, <2>4, <3>1 DEF Joining
  <2>6. ASSUME NEW w, NEW c, Measure(w, c) PROVE Weighed(w, c, new, line, 2 * v)
    <3>1. Total(Weigh(w, mid), Lane) = Total(Weigh(w, line), Lane) + w[2 * v] - w[v]
      BY <1>1, <2>6, TilePut DEF mid, v
    <3>2. Total(Weigh(w, new), Lane) = Total(Weigh(w, mid), Lane) + w[0] - w[v]
      <4>1. Total(Weigh(w, [mid EXCEPT ![k + 1] = 0]), Lane) =
              Total(Weigh(w, mid), Lane) + w[0] - w[mid[k + 1]]
        <5> DEFINE j == k + 1
                   z == 0
        <5>1. mid \in Lines /\ j \in Lane /\ z \in Value
          BY <1>1, <2>3
        <5> HIDE DEF j, z
        <5>2. Total(Weigh(w, [mid EXCEPT ![j] = z]), Lane) =
                Total(Weigh(w, mid), Lane) + w[z] - w[mid[j]]
          BY <2>6, <5>1, TilePut
        <5>. QED
          BY <5>2 DEF j, z
      <4>. QED
        BY <2>3, <4>1
    <3>3. w[2 * v] = w[v] + w[v] + (IF c = 1 THEN 2 * v ELSE 0) /\ w[0] = 0 /\ w[v] \in Int
      BY <1>1, <2>6 DEF Measure
    <3>4. Total(Weigh(w, line), Lane) \in Int
      BY <1>1, <2>6, WeighInt
    <3>. QED
      BY <1>1, <3>1, <3>2, <3>3, <3>4 DEF Weighed
  <2>7. JoinAt(b, k).gained - b.gained = 2 * v
    BY <1>1, <2>4
  <2>8. \A w, c : Measure(w, c) =>
                Weighed(w, c, JoinAt(b, k).temp, line, JoinAt(b, k).gained - b.gained)
    BY <2>4, <2>6, <2>7
  <2>9. JoinAt(b, k).gained >= b.gained
    BY <1>1, <2>4
  <2>. QED
    BY <1>3, <2>5, <2>8, <2>9 DEF line
<1>. QED
  BY <1>2, <1>3

IsAfter(after, line) ==
    /\ after \in [0..GRID_SIZE - 1 -> Joining] /\ after[0] = [temp |-> line, gained |-> 0]
    /\ \A k \in 1..GRID_SIZE - 1 : after[k] = JoinAt(after[k - 1], k)

LEMMA AfterExists ==
    ASSUME NEW line \in Lines
    PROVE  \E after : IsAfter(after, line) /\ Joined(line) = after[GRID_SIZE - 1]
<1> DEFINE N == GRID_SIZE - 1
           start == [temp |-> line, gained |-> 0]
           Rec(f) == f = [k \in 0..N |-> IF k = 0 THEN start ELSE JoinAt(f[k - 1], k)]
           step == [k \in 1..N |-> [b \in Joining |-> JoinAt(b, k)]]
           F == CHOOSE f : Rec(f)
<1>0. N \in Nat /\ start \in Joining
  BY DEF Joining
<1>1. Joined(line) = F[N]
  BY DEF Joined, JoinAt, Pair
<1>2. \A k \in 1..N, b \in Joining : JoinAt(b, k) \in Joining
  BY JoinAtIs
<1> HIDE DEF start, F
<1>3. PICK h : Recurses(h, N, Joining, start, step)
  <2>1. Steps(step, N, Joining)
    BY <1>2 DEF Steps
  <2> HIDE DEF step, N
  <2>. QED
    BY <1>0, <2>1, Recursion
<1>4. h \in [0..N -> Joining] /\ h[0] = start /\ \A k \in 1..N : h[k] = JoinAt(h[k - 1], k)
  <2>1. h \in [0..N -> Joining] /\ h[0] = start /\ \A k \in 1..N : h[k] = step[k][h[k - 1]]
    BY <1>3 DEF Recurses
  <2>2. \A k \in 1..N : k - 1 \in 0..N
    OBVIOUS
  <2>. QED
    BY <2>1, <2>2
<1>5. Rec(h)
  <2>1. \A k \in 0..N : k # 0 => k \in 1..N
    OBVIOUS
  <2>. QED
    BY <1>4, <2>1
<1>6. Rec(F)
  BY <1>5 DEF F
<1>7. F[0] = start /\ \A k \in 1..N : F[k] = JoinAt(F[k - 1], k)
  <2>1. 0 \in 0..N /\ \A k \in 1..N : k \in 0..N /\ k # 0
    BY <1>0
  <2>. QED
    BY <1>6, <2>1
<1> DEFINE T == {n \in Nat : n <= N => F[n] \in Joining}
<1>8. 0 \in T
  BY <1>0, <1>7
<1>9. ASSUME NEW n \in Nat, n \in T PROVE n + 1 \in T
  <2>1. ASSUME n + 1 <= N PROVE F[n + 1] \in Joining
    <3>1. n + 1 \in 1..N /\ (n + 1) - 1 = n /\ F[n] \in Joining
      BY <1>0, <1>9, <2>1
    <3>2. F[n + 1] = JoinAt(F[n], n + 1)
      BY <1>7, <3>1
    <3>. QED
      BY <1>2, <3>1, <3>2
  <2>. QED
    BY <2>1
<1>10. \A n \in Nat : n \in T
  <2> HIDE DEF T
  <2>. QED
    BY <1>8, <1>9, CountingUp
<1>11. F \in [0..N -> Joining]
  <2>1. \A n \in 0..N : F[n] \in Joining
    BY <1>0, <1>10
  <2>2. F = [n \in 0..N |-> F[n]]
    BY <1>6
  <2>. QED
    BY <2>1, <2>2
<1>12. IsAfter(F, line)
  BY <1>7, <1>11 DEF IsAfter, start
<1>. QED
  BY <1>1, <1>12

\* What the loop has done after k pairs were looked at.
JoinedUpTo(after, line, k) ==
    /\ after[k].gained = 0 <=> \A j \in 1..k : ~Pair(line, j)
    /\ after[k].gained = 0 => after[k].temp = line
    /\ \A w, c : Measure(w, c) => Weighed(w, c, after[k].temp, line, after[k].gained)

LEMMA JoinedGrows ==
    ASSUME NEW line \in Lines, NEW after, IsAfter(after, line)
    PROVE  \A k \in 0..GRID_SIZE - 1 : JoinedUpTo(after, line, k)
<1> DEFINE N == GRID_SIZE - 1
           T == {n \in Nat : n <= N => JoinedUpTo(after, line, n)}
<1>0. N \in Nat
  OBVIOUS
<1>1. 0 \in T
  <2>1. after[0].gained = 0 /\ after[0].temp = line
    BY DEF IsAfter
  <2>2. ASSUME NEW w, NEW c, Measure(w, c) PROVE Weighed(w, c, line, line, 0)
    <3>1. Total(Weigh(w, line), Lane) \in Int
      BY <2>2, WeighInt
    <3>. QED
      BY <3>1 DEF Weighed
  <2>. QED
    BY <2>1, <2>2 DEF JoinedUpTo
<1>2. ASSUME NEW n \in Nat, n \in T PROVE n + 1 \in T
  <2>1. ASSUME n + 1 <= N PROVE JoinedUpTo(after, line, n + 1)
    <3> DEFINE b == after[n]
               d == after[n + 1]
               k == n + 1
    <3>1. /\ k \in 1..GRID_SIZE - 1 /\ b \in Joining /\ JoinedUpTo(after, line, n)
          /\ d = JoinAt(b, k)
      <4>1. n \in 0..GRID_SIZE - 1 /\ n + 1 \in 1..GRID_SIZE - 1 /\ (n + 1) - 1 = n
        BY <2>1
      <4>. QED
        BY <1>2, <2>1, <4>1 DEF IsAfter
    <3>2. /\ b.gained = 0 <=> \A j \in 1..n : ~Pair(line, j)
          /\ b.gained = 0 => b.temp = line
          /\ \A w, c : Measure(w, c) => Weighed(w, c, b.temp, line, b.gained)
      BY <3>1 DEF JoinedUpTo
    <3>3. \A j \in 1..k : j \in 1..n \/ j = k
      OBVIOUS
    <3>4. \A j \in 1..n : j \in 1..k
      OBVIOUS
    <3>5. k \in 1..k
      OBVIOUS
    <3> HIDE DEF b, d, k
    <3>6. /\ d \in Joining /\ d.gained >= b.gained
          /\ Pair(b.temp, k) => d.gained > b.gained
          /\ ~Pair(b.temp, k) => d = b
          /\ \A w, c : Measure(w, c) => Weighed(w, c, d.temp, b.temp, d.gained - b.gained)
      BY <3>1, JoinAtIs
    <3>7. b.gained \in Nat /\ d.gained \in Nat /\ b.temp \in Lines /\ d.temp \in Lines
      BY <3>1, <3>6 DEF Joining
    <3>8. d.gained = 0 <=> b.gained = 0 /\ ~Pair(line, k)
      BY <3>2, <3>6, <3>7
    <3>9. d.gained = 0 <=> \A j \in 1..k : ~Pair(line, j)
      BY <3>2, <3>3, <3>4, <3>5, <3>8
    <3>10. d.gained = 0 => d.temp = line
      BY <3>2, <3>6, <3>8
    <3>11. ASSUME NEW w, NEW c, Measure(w, c) PROVE Weighed(w, c, d.temp, line, d.gained)
      <4>1. Weighed(w, c, b.temp, line, b.gained) /\ Weighed(w, c, d.temp, b.temp, d.gained - b.gained)
        BY <3>2, <3>6, <3>11
      <4>2. Total(Weigh(w, line), Lane) \in Int
        BY <3>11, WeighInt
      <4>. QED
        BY <3>7, <4>1, <4>2 DEF Weighed
    <3>. QED
      BY <3>9, <3>10, <3>11 DEF JoinedUpTo, b, d, k
  <2>. QED
    BY <2>1
<1>3. \A n \in Nat : n \in T
  <2> HIDE DEF T
  <2>. QED
    BY <1>1, <1>2, CountingUp
<1>. QED
  BY <1>0, <1>3

LEMMA JoinedIs ==
    ASSUME NEW line \in Lines
    PROVE  /\ Joined(line) \in Joining
           /\ Joined(line).gained = 0 <=> \A j \in 1..GRID_SIZE - 1 : ~Pair(line, j)
           /\ Joined(line).gained = 0 => Joined(line).temp = line
           /\ \A w, c : Measure(w, c) => Weighed(w, c, Joined(line).temp, line, Joined(line).gained)
<1>1. PICK after : IsAfter(after, line) /\ Joined(line) = after[GRID_SIZE - 1]
  BY AfterExists
<1>2. GRID_SIZE - 1 \in 0..GRID_SIZE - 1
  OBVIOUS
<1>3. JoinedUpTo(after, line, GRID_SIZE - 1)
  BY <1>1, <1>2, JoinedGrows
<1>4. after[GRID_SIZE - 1] \in Joining
  BY <1>1, <1>2 DEF IsAfter
<1>. QED
  BY <1>1, <1>3, <1>4 DEF JoinedUpTo

-----------------------------------------------------------------------------
(* What a tile is worth *)

WorthRule(f, n) == IF n <= 2 THEN 0 ELSE 2 * f[n \div 2] + n

IsWorth(f, v) == f \in [0..v -> Nat] /\ \A n \in 0..v : f[n] = WorthRule(f, n)

LEMMA Halves ==
    /\ \A n \in Nat : n > 2 => n \div 2 \in Nat /\ n \div 2 < n
    /\ \A n \in Nat : (2 * n) \div 2 = n
OBVIOUS

LEMMA WorthExists == ASSUME NEW v \in Nat PROVE \E f : IsWorth(f, v)
<1> DEFINE T == {m \in Nat : \E f : IsWorth(f, m)}
<1>1. 0 \in T
  <2> DEFINE f == [n \in 0..0 |-> 0]
  <2>1. f \in [0..0 -> Nat] /\ \A n \in 0..0 : f[n] = WorthRule(f, n)
    BY DEF WorthRule
  <2> HIDE DEF f
  <2>2. IsWorth(f, 0)
    BY <2>1 DEF IsWorth
  <2>. QED
    BY <2>2
<1>2. ASSUME NEW m \in Nat, m \in T PROVE m + 1 \in T
  <2>1. PICK f : IsWorth(f, m)
    BY <1>2
  <2>2. f \in [0..m -> Nat] /\ \A n \in 0..m : f[n] = WorthRule(f, n)
    BY <2>1 DEF IsWorth
  <2> DEFINE g == [n \in 0..m + 1 |-> IF n = m + 1 THEN WorthRule(f, n) ELSE f[n]]
  <2>3. \A n \in 0..m + 1 : n > 2 => n \div 2 \in 0..m /\ n \div 2 \in 0..m + 1 /\ n \div 2 # m + 1
    BY Halves
  <2>4. \A n \in 0..m + 1 : n # m + 1 => n \in 0..m
    OBVIOUS
  <2>5. \A n \in 0..m + 1 : g[n] = WorthRule(f, n)
    BY <2>2, <2>4
  <2>6. \A n \in 0..m : n \in 0..m + 1 /\ g[n] = f[n]
    OBVIOUS
  <2>7. \A n \in 0..m + 1 : WorthRule(f, n) = WorthRule(g, n) /\ WorthRule(f, n) \in Nat
    <3> HIDE DEF g
    <3>1. ASSUME NEW n \in 0..m + 1 PROVE WorthRule(f, n) = WorthRule(g, n) /\ WorthRule(f, n) \in Nat
      <4>1. CASE n <= 2
        BY <4>1 DEF WorthRule
      <4>2. CASE ~(n <= 2)
        <5>1. n > 2
          BY <4>2
        <5>2. g[n \div 2] = f[n \div 2] /\ f[n \div 2] \in Nat
          BY <2>2, <2>3, <2>6, <5>1
        <5>. QED
          BY <4>2, <5>2 DEF WorthRule
      <4>. QED
        BY <4>1, <4>2
    <3>. QED
      BY <3>1
  <2>8. g \in [0..m + 1 -> Nat]
    <3>1. g = [n \in 0..m + 1 |-> g[n]]
      OBVIOUS
    <3> HIDE DEF g
    <3>. QED
      BY <2>5, <2>7, <3>1
  <2> HIDE DEF g
  <2>9. IsWorth(g, m + 1)
    BY <2>5, <2>7, <2>8 DEF IsWorth
  <2>. QED
    BY <2>9
<1>3. v \in T
  <2> HIDE DEF T
  <2>. QED
    BY <1>1, <1>2, CountingUp
<1>. QED
  BY <1>3

LEMMA WorthAgrees ==
    ASSUME NEW a \in Nat, NEW b \in Nat, a <= b, NEW f, IsWorth(f, a), NEW g, IsWorth(g, b)
    PROVE  \A n \in 0..a : f[n] = g[n]
<1> DEFINE Bad == {n \in 0..a : f[n] # g[n]}
<1>1. SUFFICES ASSUME Bad # {} PROVE FALSE
  OBVIOUS
<1>2. Bad \in SUBSET Nat
  OBVIOUS
<1>3. PICK n \in Bad : \A m \in Bad : n <= m
  BY <1>1, <1>2, NatMin
<1>4. n \in Nat /\ n \in 0..a /\ n \in 0..b /\ f[n] # g[n]
  BY <1>3
<1>5. f[n] = WorthRule(f, n) /\ g[n] = WorthRule(g, n)
  BY <1>4 DEF IsWorth
<1>6. n > 2
  BY <1>4, <1>5 DEF WorthRule
<1>7. n \div 2 \in 0..a /\ n \div 2 < n
  BY <1>4, <1>6, Halves
<1>8. f[n \div 2] = g[n \div 2]
  <2>1. n \div 2 \notin Bad
    BY <1>3, <1>4, <1>7
  <2>. QED
    BY <1>7, <2>1
<1>. QED
  BY <1>4, <1>5, <1>6, <1>8 DEF WorthRule

LEMMA WorthOf == ASSUME NEW v \in Nat, NEW f, IsWorth(f, v) PROVE Worth(v) = f[v]
<1> DEFINE Rec(g) == g = [n \in 0..v |-> IF n <= 2 THEN 0 ELSE 2 * g[n \div 2] + n]
           F == CHOOSE g : Rec(g)
<1>1. Worth(v) = F[v]
  BY DEF Worth
<1>2. Rec(f)
  BY DEF IsWorth, WorthRule
<1>3. Rec(F)
  BY <1>2
<1> HIDE DEF F
<1>4. \A n \in 0..v : F[n] = WorthRule(F, n)
  BY <1>3 DEF WorthRule
<1> DEFINE Bad == {n \in 0..v : F[n] # f[n]}
<1>5. CASE Bad = {}
  <2>1. v \in 0..v /\ v \notin Bad
    BY <1>5
  <2>. QED
    BY <1>1, <2>1
<1>6. CASE Bad # {}
  <2>1. PICK n \in Bad : \A m \in Bad : n <= m
    <3>1. Bad \in SUBSET Nat
      OBVIOUS
    <3>. QED
      BY <1>6, <3>1, NatMin
  <2>2. n \in Nat /\ n \in 0..v /\ F[n] # f[n]
    BY <2>1
  <2>3. f[n] = WorthRule(f, n) /\ F[n] = WorthRule(F, n)
    BY <1>4, <2>2 DEF IsWorth
  <2>4. n > 2
    BY <2>2, <2>3 DEF WorthRule
  <2>5. n \div 2 \in 0..v /\ n \div 2 < n
    BY <2>2, <2>4, Halves
  <2>6. F[n \div 2] = f[n \div 2]
    <3>1. n \div 2 \notin Bad
      BY <2>1, <2>2, <2>5
    <3>. QED
      BY <2>5, <3>1
  <2>. QED
    BY <2>2, <2>3, <2>4, <2>6 DEF WorthRule
<1>. QED
  BY <1>5, <1>6

\* A tile of 2v takes the points of its join and those of two tiles of v.
LEMMA WorthDoubles ==
    /\ \A v \in Nat : Worth(v) \in Nat
    /\ Worth(0) = 0 /\ Worth(2) = 0 /\ Worth(4) = 4
    /\ \A v \in Value : Worth(2 * v) = Worth(v) + Worth(v) + 2 * v
<1>1. ASSUME NEW v \in Nat, NEW f, IsWorth(f, v), NEW u \in 0..v
      PROVE  Worth(u) = WorthRule(f, u) /\ Worth(u) = f[u] /\ Worth(u) \in Nat
  <2>1. u \in Nat /\ u <= v /\ u \in 0..u
    OBVIOUS
  <2>2. PICK g : IsWorth(g, u)
    BY <2>1, WorthExists
  <2>3. Worth(u) = g[u]
    BY <2>1, <2>2, WorthOf
  <2>4. g[u] = f[u]
    BY <1>1, <2>1, <2>2, WorthAgrees
  <2>5. f[u] = WorthRule(f, u) /\ f[u] \in Nat
    BY <1>1 DEF IsWorth
  <2>. QED
    BY <2>3, <2>4, <2>5
<1>2. ASSUME NEW v \in Nat PROVE Worth(v) \in Nat /\ (v <= 2 => Worth(v) = 0)
  <2>1. PICK f : IsWorth(f, v)
    BY WorthExists
  <2>2. v \in 0..v
    OBVIOUS
  <2>3. Worth(v) = WorthRule(f, v) /\ Worth(v) \in Nat
    BY <1>1, <2>1, <2>2
  <2>. QED
    BY <2>3 DEF WorthRule
<1>3. ASSUME NEW v \in Nat, v >= 2 PROVE Worth(2 * v) = Worth(v) + Worth(v) + 2 * v
  <2> DEFINE d == 2 * v
  <2>1. d \in Nat /\ v \in 0..d /\ d \in 0..d /\ ~(d <= 2) /\ d \div 2 = v
    BY <1>3, Halves
  <2> HIDE DEF d
  <2>2. PICK f : IsWorth(f, d)
    BY <2>1, WorthExists
  <2>3. Worth(d) = WorthRule(f, d) /\ Worth(v) = f[v] /\ Worth(v) \in Nat
    BY <1>1, <2>1, <2>2
  <2>4. Worth(d) = 2 * Worth(v) + d
    BY <2>1, <2>3 DEF WorthRule
  <2>. QED
    BY <2>3, <2>4 DEF d
<1>4. Worth(0) = 0 /\ Worth(2) = 0
  BY <1>2
<1>5. Worth(4) = 4
  <2>1. Worth(2 * 2) = Worth(2) + Worth(2) + 2 * 2
    BY <1>3
  <2>2. 2 * 2 = 4
    OBVIOUS
  <2>. QED
    BY <1>4, <2>1, <2>2
<1>6. ASSUME NEW v \in Value PROVE Worth(2 * v) = Worth(v) + Worth(v) + 2 * v
  <2>1. v = 0 \/ (v \in Nat /\ v >= 2)
    BY DEF Value
  <2>2. CASE v = 0
    <3>1. 2 * v = 0
      BY <2>2
    <3>. QED
      BY <1>4, <2>2, <3>1
  <2>. QED
    BY <1>3, <2>1, <2>2
<1>. QED
  BY <1>2, <1>4, <1>5, <1>6

\* The two measures of the model's properties.
Face == [v \in Value |-> v]
Points == [v \in Value |-> Worth(v)]

LEMMA Measures == Measure(Face, 0) /\ Measure(Points, 1)
<1>1. \A v \in Value : v \in Nat /\ 2 * v \in Value /\ 2 * v = v + v
  BY DEF Value
<1>2. 0 \in Value
  BY DEF Value
<1>3. Measure(Face, 0)
  BY <1>1, <1>2 DEF Measure, Face
<1>4. \A v \in Value : Points[v] = Worth(v) /\ Points[2 * v] = Worth(2 * v)
  BY <1>1 DEF Points
<1>5. Points \in [Value -> Nat]
  BY <1>1, WorthDoubles DEF Points
<1>6. Points[0] = 0
  BY <1>2, <1>4, WorthDoubles
<1>7. \A v \in Value : Points[2 * v] = Points[v] + Points[v] + 2 * v
  BY <1>4, WorthDoubles
<1>. QED
  BY <1>3, <1>5, <1>6, <1>7 DEF Measure

-----------------------------------------------------------------------------
(* A line moved *)

Full(line) == \A k \in Lane : line[k] # 0

LEMMA LineMoved ==
    ASSUME NEW line \in Lines, NEW m \in Memory
    PROVE  LET r == process_line(line, m) IN
           /\ r.line \in Lines /\ r.gained \in Nat /\ (r.changed <=> r.line # line)
           /\ m # "both" => r.line = line
           /\ m = "both" =>
                /\ Packed(r.line)
                /\ \A w, c : Measure(w, c) => Weighed(w, c, r.line, line, r.gained)
                /\ Full(line) => (r.changed <=> \E j \in 1..GRID_SIZE - 1 : Pair(line, j))
<1> DEFINE r == process_line(line, m)
           s == Shifted(line)
           joined == Joined(s)
           final == Shifted(joined.temp)
<1>1. /\ s \in Lines
      /\ Full(line) => s = line
      /\ \A w, c : Measure(w, c) => Total(Weigh(w, s), Lane) = Total(Weigh(w, line), Lane)
  BY ShiftedIs DEF Full
<1>2. /\ joined \in Joining /\ joined.temp \in Lines /\ joined.gained \in Nat
      /\ joined.gained = 0 <=> \A j \in 1..GRID_SIZE - 1 : ~Pair(s, j)
      /\ joined.gained = 0 => joined.temp = s
      /\ \A w, c : Measure(w, c) => Weighed(w, c, joined.temp, s, joined.gained)
  <2> HIDE DEF s
  <2>1. joined \in Joining
    BY <1>1, JoinedIs
  <2>. QED
    BY <1>1, <2>1, JoinedIs DEF Joining
<1>3. /\ final \in Lines /\ Packed(final)
      /\ Full(joined.temp) => final = joined.temp
      /\ \A w, c : Measure(w, c) => Total(Weigh(w, final), Lane) = Total(Weigh(w, joined.temp), Lane)
  <2> DEFINE t == joined.temp
  <2>1. t \in Lines
    BY <1>2
  <2> HIDE DEF t
  <2>2. /\ Shifted(t) \in Lines /\ Packed(Shifted(t))
        /\ Full(t) => Shifted(t) = t
        /\ \A w, c : Measure(w, c) => Total(Weigh(w, Shifted(t)), Lane) = Total(Weigh(w, t), Lane)
    BY <2>1, ShiftedIs DEF Full
  <2>. QED
    BY <2>2 DEF t
<1>4. r = CASE m = "none"  -> [line |-> line, gained |-> 0, changed |-> FALSE]
            [] m = "first" -> [line |-> line, gained |-> joined.gained, changed |-> FALSE]
            [] m = "both"  -> [line |-> final, gained |-> joined.gained, changed |-> line # final]
  BY DEF process_line
<1> HIDE DEF s, joined, final, r
<1>5. CASE m = "none"
  <2>1. r = [line |-> line, gained |-> 0, changed |-> FALSE]
    BY <1>4, <1>5
  <2>. QED
    BY <1>5, <2>1 DEF r
<1>6. CASE m = "first"
  <2>1. r = [line |-> line, gained |-> joined.gained, changed |-> FALSE]
    BY <1>4, <1>6
  <2>. QED
    BY <1>2, <1>6, <2>1 DEF r
<1>7. CASE m = "both"
  <2>1. r.line = final /\ r.gained = joined.gained /\ (r.changed <=> final # line)
    BY <1>4, <1>7
  <2>2. ASSUME NEW w, NEW c, Measure(w, c) PROVE Weighed(w, c, final, line, joined.gained)
    BY <1>1, <1>2, <1>3, <2>2 DEF Weighed
  <2>3. ASSUME Full(line) PROVE r.changed <=> \E j \in 1..GRID_SIZE - 1 : Pair(line, j)
    <3>1. s = line
      BY <1>1, <2>3
    <3>2. CASE joined.gained = 0
      <4>1. joined.temp = line /\ \A j \in 1..GRID_SIZE - 1 : ~Pair(line, j)
        BY <1>2, <3>1, <3>2
      <4>2. final = line
        BY <1>3, <2>3, <4>1
      <4>. QED
        BY <2>1, <4>1, <4>2
    <3>3. CASE joined.gained # 0
      <4>1. \E j \in 1..GRID_SIZE - 1 : Pair(line, j)
        BY <1>2, <3>1, <3>3
      <4>2. final # line
        <5>1. Weighed(Points, 1, final, line, joined.gained)
          BY <2>2, Measures
        <5>2. Total(Weigh(Points, line), Lane) \in Int
          BY Measures, WeighInt
        <5>. QED
          BY <1>2, <3>3, <5>1, <5>2 DEF Weighed
      <4>. QED
        BY <2>1, <4>1, <4>2
    <3>. QED
      BY <3>2, <3>3
  <2>. QED
    BY <1>2, <1>3, <1>7, <2>1, <2>2, <2>3 DEF r
<1>. QED
  BY <1>5, <1>6, <1>7 DEF Memory

-----------------------------------------------------------------------------
(* The board moved *)

Grid == [Cells -> Value]
LineOf(b, dir, n) == [k \in Lane |-> b[Cell(dir, n, k)]]
Places(dir) == [n \in Lane |-> [k \in Lane |-> Cell(dir, n, k)]]

WeighAll(w, b) == [cell \in Cells |-> w[b[cell]]]
Bulk(w, b) == Total(WeighAll(w, b), Cells)

LEMMA SummedIs == ASSUME NEW f, NEW S, DOMAIN f = S PROVE Summed(f) = Total(f, S)
BY DEF Summed, Total, MapThenSumSet, MapThenFoldSet

LEMMA CellsFinite == IsFiniteSet(Cells)
BY LaneFinite, FS_Product DEF Cells

\* Each direction visits every cell once.
LEMMA Visits ==
    ASSUME NEW dir \in Directions
    PROVE  /\ \A n, k \in Lane : Cell(dir, n, k) \in Cells
           /\ \A n, m, k, j \in Lane : Cell(dir, n, k) = Cell(dir, m, j) => n = m /\ k = j
           /\ \A cell \in Cells : \E n, k \in Lane : cell = Cell(dir, n, k)
<1>0. \A n \in Lane : n \in Nat /\ GRID_SIZE + 1 - n \in Lane /\ GRID_SIZE + 1 - (GRID_SIZE + 1 - n) = n
  BY DEF Lane
<1>1. \A cell \in Cells : cell = <<cell[1], cell[2]>> /\ cell[1] \in Lane /\ cell[2] \in Lane
  BY DEF Cells
<1>2. CASE dir = "up"
  <2>1. \A n, k : Cell(dir, n, k) = <<k, n>>
    BY <1>2 DEF Cell
  <2>. QED
    BY <1>1, <2>1 DEF Cells
<1>3. CASE dir = "down"
  <2>1. \A n, k : Cell(dir, n, k) = <<GRID_SIZE + 1 - k, n>>
    BY <1>3 DEF Cell
  <2>2. \A n, m, k, j \in Lane : Cell(dir, n, k) = Cell(dir, m, j) => n = m /\ k = j
    BY <1>0, <2>1
  <2>3. \A cell \in Cells : cell = Cell(dir, cell[2], GRID_SIZE + 1 - cell[1])
    BY <1>0, <1>1, <2>1
  <2>4. \A n, k \in Lane : Cell(dir, n, k) \in Cells
    BY <1>0, <2>1 DEF Cells
  <2>. QED
    BY <1>0, <1>1, <2>2, <2>3, <2>4
<1>4. CASE dir = "left"
  <2>1. \A n, k : Cell(dir, n, k) = <<n, k>>
    BY <1>4 DEF Cell
  <2>. QED
    BY <1>1, <2>1 DEF Cells
<1>5. CASE dir = "right"
  <2>1. \A n, k : Cell(dir, n, k) = <<n, GRID_SIZE + 1 - k>>
    BY <1>5 DEF Cell
  <2>2. \A n, m, k, j \in Lane : Cell(dir, n, k) = Cell(dir, m, j) => n = m /\ k = j
    BY <1>0, <2>1
  <2>3. \A cell \in Cells : cell = Cell(dir, cell[1], GRID_SIZE + 1 - cell[2])
    BY <1>0, <1>1, <2>1
  <2>4. \A n, k \in Lane : Cell(dir, n, k) \in Cells
    BY <1>0, <2>1 DEF Cells
  <2>. QED
    BY <1>0, <1>1, <2>2, <2>3, <2>4
<1>. QED
  BY <1>2, <1>3, <1>4, <1>5 DEF Directions

LEMMA LineOfGrid ==
    ASSUME NEW b \in Grid, NEW dir \in Directions, NEW n \in Lane
    PROVE  LineOf(b, dir, n) \in Lines
BY Visits DEF LineOf, Lines, Grid

LEMMA BulkByLines ==
    ASSUME NEW w, NEW c, Measure(w, c), NEW b \in Grid, NEW dir \in Directions,
           NEW row, \A n \in Lane : row[n] = Total(Weigh(w, LineOf(b, dir, n)), Lane)
    PROVE  Bulk(w, b) = Total(row, Lane)
<1> DEFINE phi == Places(dir)
           v == WeighAll(w, b)
<1>1. CutsUp(phi, Lane, Lane, Cells)
  <2>1. phi \in [Lane -> [Lane -> Cells]] /\ \A n, k \in Lane : phi[n][k] = Cell(dir, n, k)
    BY Visits DEF Places
  <2> HIDE DEF phi
  <2>2. \A n, m, k, j \in Lane : phi[n][k] = phi[m][j] => n = m /\ k = j
    BY <2>1, Visits
  <2>3. \A cell \in Cells : \E n, k \in Lane : cell = phi[n][k]
    BY <2>1, Visits
  <2>. QED
    BY <2>1, <2>2, <2>3 DEF CutsUp
<1>2. \A cell \in Cells : v[cell] \in Int
  BY DEF WeighAll, Grid, Measure
<1>3. \A n \in Lane : row[n] = Total([k \in Lane |-> v[phi[n][k]]], Lane)
  <2>1. ASSUME NEW n \in Lane
        PROVE  [k \in Lane |-> v[phi[n][k]]] = Weigh(w, LineOf(b, dir, n))
    <3>1. \A k \in Lane : phi[n][k] \in Cells /\ phi[n][k] = Cell(dir, n, k)
      BY Visits DEF Places
    <3>2. \A k \in Lane : v[phi[n][k]] = w[b[Cell(dir, n, k)]]
      BY <3>1 DEF WeighAll
    <3>. QED
      BY <3>2 DEF Weigh, LineOf
  <2>. QED
    BY <2>1
<1> HIDE DEF phi, v
<1>4. Total(v, Cells) = Total(row, Lane)
  BY <1>1, <1>2, <1>3, LaneFinite, CellsFinite, TotalLines
<1>. QED
  BY <1>4 DEF Bulk, v

LEMMA BulkInt ==
    ASSUME NEW w, NEW c, Measure(w, c), NEW b \in Grid
    PROVE  Bulk(w, b) \in Int
<1> DEFINE v == WeighAll(w, b)
<1>1. \A cell \in Cells : v[cell] \in Int
  BY DEF WeighAll, Grid, Measure
<1> HIDE DEF v
<1>2. Total(v, Cells) \in Int
  BY <1>1, CellsFinite, TotalInt
<1>. QED
  BY <1>2 DEF Bulk, v

\* What process_line returns for each line of a move.
Done(b, dir, memory) == [n \in Lane |-> process_line(LineOf(b, dir, n), memory[n])]

LEMMA DoneIs ==
    ASSUME NEW b \in Grid, NEW dir \in Directions, NEW memory \in [Lane -> Memory], NEW n \in Lane
    PROVE  LET r == Done(b, dir, memory)[n]
               line == LineOf(b, dir, n)
           IN /\ r.line \in Lines /\ r.gained \in Nat /\ (r.changed <=> r.line # line)
              /\ memory[n] # "both" => r.line = line
              /\ memory[n] = "both" =>
                   /\ Packed(r.line)
                   /\ \A w, c : Measure(w, c) => Weighed(w, c, r.line, line, r.gained)
                   /\ Full(line) => (r.changed <=> \E j \in 1..GRID_SIZE - 1 : Pair(line, j))
<1> DEFINE line == LineOf(b, dir, n)
           m == memory[n]
<1>1. line \in Lines /\ m \in Memory /\ Done(b, dir, memory)[n] = process_line(line, m)
  BY LineOfGrid DEF Done
<1> HIDE DEF line, m
<1>. QED
  BY <1>1, LineMoved DEF line, m

LEMMA MovedIs ==
    ASSUME NEW b \in Grid, NEW dir \in Directions, NEW memory \in [Lane -> Memory]
    PROVE  LET M == move(b, dir, memory)
               done == Done(b, dir, memory)
           IN /\ M.board \in Grid
              /\ \A n \in Lane : LineOf(M.board, dir, n) = done[n].line
              /\ M.gained = Total([n \in Lane |-> done[n].gained], Lane)
              /\ M.changed <=> M.board # b
              /\ M.changed <=> \E n \in Lane : done[n].changed
<1> DEFINE M == move(b, dir, memory)
           done == Done(b, dir, memory)
           at(cell) == CHOOSE p \in Cells : Cell(dir, p[1], p[2]) = cell
           gains == [n \in Lane |-> done[n].gained]
<1>1. M = [board   |-> [cell \in Cells |-> done[at(cell)[1]].line[at(cell)[2]]],
           gained  |-> Summed(gains),
           changed |-> \E n \in Lane : done[n].changed]
  BY DEF move, Done, LineOf
<1>2. /\ \A n, k \in Lane : Cell(dir, n, k) \in Cells
      /\ \A n, m, k, j \in Lane : Cell(dir, n, k) = Cell(dir, m, j) => n = m /\ k = j
      /\ \A cell \in Cells : \E n, k \in Lane : cell = Cell(dir, n, k)
  BY Visits
<1>3. ASSUME NEW n \in Lane, NEW k \in Lane
      PROVE  at(Cell(dir, n, k))[1] = n /\ at(Cell(dir, n, k))[2] = k
  <2> DEFINE cell == Cell(dir, n, k)
             p == at(cell)
  <2>1. <<n, k>> \in Cells /\ <<n, k>>[1] = n /\ <<n, k>>[2] = k
    BY DEF Cells
  <2>2. \E q \in Cells : Cell(dir, q[1], q[2]) = cell
    BY <2>1
  <2>3. p \in Cells /\ Cell(dir, p[1], p[2]) = cell
    BY <2>2
  <2> HIDE DEF p
  <2>4. p[1] \in Lane /\ p[2] \in Lane
    BY <2>3 DEF Cells
  <2>5. p[1] = n /\ p[2] = k
    <3> DEFINE m == p[1]
               j == p[2]
    <3>1. m \in Lane /\ j \in Lane /\ Cell(dir, m, j) = Cell(dir, n, k)
      BY <2>3, <2>4
    <3> HIDE DEF m, j
    <3>2. m = n /\ j = k
      BY <1>2, <3>1
    <3>. QED
      BY <3>2 DEF m, j
  <2>. QED
    BY <2>5 DEF p
<1>4. \A n \in Lane : done[n].line \in Lines /\ (done[n].changed <=> done[n].line # LineOf(b, dir, n))
  BY DoneIs
<1> HIDE DEF at, done, M, gains
<1>5. ASSUME NEW n \in Lane, NEW k \in Lane PROVE M.board[Cell(dir, n, k)] = done[n].line[k]
  BY <1>1, <1>2, <1>3
<1>6. M.board \in Grid
  <2>1. M.board = [cell \in Cells |-> M.board[cell]]
    BY <1>1
  <2>2. \A cell \in Cells : M.board[cell] \in Value
    BY <1>2, <1>4, <1>5 DEF Lines
  <2>. QED
    BY <2>1, <2>2 DEF Grid
<1>7. ASSUME NEW n \in Lane PROVE LineOf(M.board, dir, n) = done[n].line
  <2>1. done[n].line = [k \in Lane |-> done[n].line[k]]
    BY <1>4 DEF Lines
  <2>2. \A k \in Lane : M.board[Cell(dir, n, k)] = done[n].line[k]
    BY <1>5
  <2>. QED
    BY <2>1, <2>2 DEF LineOf
<1>8. M.gained = Total(gains, Lane)
  <2>1. DOMAIN gains = Lane
    BY DEF gains
  <2>. QED
    BY <1>1, <2>1, SummedIs
<1>9. M.changed <=> \E n \in Lane : done[n].changed
  BY <1>1
<1>10. ASSUME M.board = b PROVE ~M.changed
  BY <1>4, <1>7, <1>9, <1>10
<1>11. ASSUME ~M.changed PROVE M.board = b
  <2>1. \A n \in Lane : LineOf(M.board, dir, n) = LineOf(b, dir, n)
    BY <1>4, <1>7, <1>9, <1>11
  <2>2. ASSUME NEW n \in Lane, NEW k \in Lane PROVE M.board[Cell(dir, n, k)] = b[Cell(dir, n, k)]
    <3>1. LineOf(M.board, dir, n)[k] = LineOf(b, dir, n)[k]
      BY <2>1
    <3>. QED
      BY <3>1 DEF LineOf
  <2>3. \A cell \in Cells : M.board[cell] = b[cell]
    BY <1>2, <2>2
  <2>. QED
    BY <1>6, <2>3 DEF Grid
<1>. QED
  BY <1>6, <1>7, <1>8, <1>9, <1>10, <1>11 DEF M, done, gains

\* What a move does to a measure of the board.
LEMMA BulkMoved ==
    ASSUME NEW b \in Grid, NEW dir \in Directions, NEW memory \in [Lane -> Memory],
           NEW w, NEW c, Measure(w, c)
    PROVE  LET M == move(b, dir, memory) IN
           /\ M.gained \in Nat /\ Bulk(w, b) \in Int /\ Bulk(w, M.board) \in Int
           /\ c = 0 => Bulk(w, M.board) = Bulk(w, b)
           /\ c = 1 => Bulk(w, M.board) <= Bulk(w, b) + M.gained
           /\ c = 1 /\ (\A n \in Lane : memory[n] = "both") => Bulk(w, M.board) = Bulk(w, b) + M.gained
<1> DEFINE M == move(b, dir, memory)
           done == Done(b, dir, memory)
           gains == [n \in Lane |-> done[n].gained]
           was == [n \in Lane |-> Total(Weigh(w, LineOf(b, dir, n)), Lane)]
           is == [n \in Lane |-> Total(Weigh(w, done[n].line), Lane)]
           more == [n \in Lane |-> IF c = 1 /\ memory[n] = "both" THEN done[n].gained ELSE 0]
<1>1. /\ M.board \in Grid /\ M.gained = Total(gains, Lane)
      /\ \A n \in Lane : LineOf(M.board, dir, n) = done[n].line
  BY MovedIs
<1>2. ASSUME NEW n \in Lane
      PROVE  /\ done[n].gained \in Nat /\ was[n] \in Int /\ is[n] \in Int
             /\ is[n] = was[n] + more[n]
  <2> DEFINE line == LineOf(b, dir, n)
             r == done[n]
  <2>1. /\ r.line \in Lines /\ r.gained \in Nat
        /\ memory[n] # "both" => r.line = line
        /\ memory[n] = "both" => \A u, d : Measure(u, d) => Weighed(u, d, r.line, line, r.gained)
    BY DoneIs
  <2>2. line \in Lines
    BY LineOfGrid
  <2> HIDE DEF line, done
  <2>3. Total(Weigh(w, line), Lane) \in Int /\ Total(Weigh(w, r.line), Lane) \in Int
    BY <2>1, <2>2, WeighInt
  <2>4. was[n] = Total(Weigh(w, line), Lane) /\ is[n] = Total(Weigh(w, r.line), Lane)
    BY DEF line
  <2>5. more[n] = IF c = 1 /\ memory[n] = "both" THEN r.gained ELSE 0
    OBVIOUS
  <2> HIDE DEF was, is, more, r
  <2>6. CASE memory[n] = "both"
    <3>1. Weighed(w, c, r.line, line, r.gained)
      BY <2>1, <2>6
    <3>. QED
      BY <2>1, <2>3, <2>4, <2>5, <2>6, <3>1 DEF Weighed, r
  <2>7. CASE memory[n] # "both"
    BY <2>1, <2>3, <2>4, <2>5, <2>7 DEF r
  <2>. QED
    BY <2>6, <2>7
<1>3. \A n \in Lane : gains[n] = done[n].gained /\ gains[n] \in Nat
  BY <1>2
<1>4. \A n \in Lane : more[n] = (IF c = 1 /\ memory[n] = "both" THEN gains[n] ELSE 0) /\ more[n] \in Nat
  BY <1>3
<1>5. Bulk(w, b) = Total(was, Lane)
  <2>1. \A n \in Lane : was[n] = Total(Weigh(w, LineOf(b, dir, n)), Lane)
    OBVIOUS
  <2> HIDE DEF was
  <2>. QED
    BY <2>1, BulkByLines
<1>6. Bulk(w, M.board) = Total(is, Lane)
  <2> DEFINE B == M.board
  <2>1. B \in Grid /\ \A n \in Lane : is[n] = Total(Weigh(w, LineOf(B, dir, n)), Lane)
    BY <1>1
  <2> HIDE DEF is, B
  <2>2. Bulk(w, B) = Total(is, Lane)
    BY <2>1, BulkByLines
  <2>. QED
    BY <2>2 DEF B
<1>7. \A n \in Lane : was[n] \in Int /\ more[n] \in Int /\ is[n] = was[n] + more[n] /\ gains[n] \in Int
  BY <1>2, <1>3, <1>4
<1> HIDE DEF was, is, more, gains, M, done
<1>8. Total(is, Lane) = Total(was, Lane) + Total(more, Lane)
  BY <1>7, LaneFinite, TotalPlus
<1>9. Total(was, Lane) \in Int /\ Total(more, Lane) \in Int /\ Total(gains, Lane) \in Nat
  BY <1>3, <1>7, LaneFinite, TotalInt, TotalNat
<1>10. Total(more, Lane) <= Total(gains, Lane)
  <2>1. \A n \in Lane : more[n] \in Int /\ gains[n] \in Int /\ more[n] <= gains[n]
    BY <1>3, <1>4
  <2>. QED
    BY <2>1, LaneFinite, TotalAtMost
<1>11. ASSUME c = 0 PROVE Total(more, Lane) = 0
  <2>1. \A n \in Lane : more[n] = 0
    BY <1>4, <1>11
  <2>. QED
    BY <2>1, LaneFinite, TotalZero
<1>12. ASSUME c = 1, \A n \in Lane : memory[n] = "both" PROVE Total(more, Lane) = Total(gains, Lane)
  <2>1. \A n \in Lane : more[n] \in Int /\ more[n] = gains[n]
    BY <1>4, <1>12
  <2>. QED
    BY <2>1, LaneFinite, TotalEqual
<1>. QED
  BY <1>1, <1>5, <1>6, <1>8, <1>9, <1>10, <1>11, <1>12 DEF M

-----------------------------------------------------------------------------
(* A board with and without a move *)

AllBoth == [n \in Lane |-> "both"]

LEMMA AliveLines ==
    ASSUME NEW b \in Grid
    PROVE  /\ ~Alive(b) <=> \A dir \in Directions, n \in Lane : ~Done(b, dir, AllBoth)[n].changed
           /\ \A dir \in Directions, n \in Lane :
                LET r == Done(b, dir, AllBoth)[n]
                    line == LineOf(b, dir, n)
                IN /\ line \in Lines
                   /\ ~r.changed => Packed(line)
                   /\ Full(line) => (r.changed <=> \E j \in 1..GRID_SIZE - 1 : Pair(line, j))
<1>1. AllBoth \in [Lane -> Memory] /\ \A n \in Lane : AllBoth[n] = "both"
  BY DEF AllBoth, Memory
<1>2. ASSUME NEW dir \in Directions
      PROVE  move(b, dir, AllBoth).changed <=> \E n \in Lane : Done(b, dir, AllBoth)[n].changed
  BY <1>1, MovedIs
<1>3. ASSUME NEW dir \in Directions, NEW n \in Lane
      PROVE  LET r == Done(b, dir, AllBoth)[n]
                 line == LineOf(b, dir, n)
             IN /\ line \in Lines
                /\ ~r.changed => Packed(line)
                /\ Full(line) => (r.changed <=> \E j \in 1..GRID_SIZE - 1 : Pair(line, j))
  <2> DEFINE r == Done(b, dir, AllBoth)[n]
             line == LineOf(b, dir, n)
  <2>1. /\ r.changed <=> r.line # line
        /\ Packed(r.line)
        /\ Full(line) => (r.changed <=> \E j \in 1..GRID_SIZE - 1 : Pair(line, j))
    BY <1>1, DoneIs
  <2>2. line \in Lines
    BY LineOfGrid
  <2> HIDE DEF r, line
  <2>3. ~r.changed => Packed(line)
    BY <2>1
  <2>. QED
    BY <2>1, <2>2, <2>3 DEF r, line
<1>4. Alive(b) <=> \E dir \in Directions : move(b, dir, AllBoth).changed
  BY DEF Alive, AllBoth
<1>. QED
  BY <1>2, <1>3, <1>4

\* Where the places of a line are.
LEMMA Rowwise ==
    ASSUME NEW b
    PROVE  \A n, k \in Lane :
             /\ LineOf(b, "left", n)[k] = b[<<n, k>>]
             /\ LineOf(b, "right", n)[k] = b[<<n, GRID_SIZE + 1 - k>>]
             /\ LineOf(b, "up", n)[k] = b[<<k, n>>]
             /\ LineOf(b, "down", n)[k] = b[<<GRID_SIZE + 1 - k, n>>]
BY DEF LineOf, Cell

LEMMA StuckIsDead == ASSUME NEW b \in Grid, ~can_move(b) PROVE ~Alive(b)
<1>0. \A n, k \in Lane :
        /\ LineOf(b, "left", n)[k] = b[<<n, k>>]
        /\ LineOf(b, "right", n)[k] = b[<<n, GRID_SIZE + 1 - k>>]
        /\ LineOf(b, "up", n)[k] = b[<<k, n>>]
        /\ LineOf(b, "down", n)[k] = b[<<GRID_SIZE + 1 - k, n>>]
  BY Rowwise
<1>1. /\ \A r, c \in Lane : b[<<r, c>>] # 0
      /\ \A r, c \in Lane : c < GRID_SIZE => b[<<r, c>>] # b[<<r, c + 1>>]
      /\ \A r, c \in Lane : r < GRID_SIZE => b[<<r, c>>] # b[<<r + 1, c>>]
  BY DEF can_move
<1>2. \A r, c \in Lane : b[<<r, c>>] # 0
  BY <1>1
<1>3. ASSUME NEW dir \in Directions, NEW n \in Lane
      PROVE  Full(LineOf(b, dir, n)) /\ \A j \in 1..GRID_SIZE - 1 : ~Pair(LineOf(b, dir, n), j)
  <2>0. \A k \in Lane : GRID_SIZE + 1 - k \in Lane
    BY DEF Lane
  <2>1. CASE dir = "left"
    <3> DEFINE line == LineOf(b, dir, n)
    <3>1. \A k \in Lane : line[k] = b[<<n, k>>]
      BY <1>0, <2>1
    <3> HIDE DEF line
    <3>2. Full(line)
      <4>. SUFFICES ASSUME NEW k \in Lane PROVE line[k] # 0
        BY DEF Full
      <4>. QED
        BY <1>2, <2>0, <3>1
    <3>3. ASSUME NEW j \in 1..GRID_SIZE - 1 PROVE line[j] # line[j + 1]
      <4>1. j \in Lane /\ j + 1 \in Lane /\ j < GRID_SIZE
        BY DEF Lane
      <4>2. line[j] = b[<<n, j>>] /\ line[j + 1] = b[<<n, j + 1>>]
        BY <3>1, <4>1
      <4>. QED
        BY <1>1, <4>1, <4>2
    <3>. QED
      BY <3>2, <3>3 DEF Pair, line
  <2>2. CASE dir = "right"
    <3> DEFINE line == LineOf(b, dir, n)
    <3>1. \A k \in Lane : line[k] = b[<<n, GRID_SIZE + 1 - k>>]
      BY <1>0, <2>2
    <3> HIDE DEF line
    <3>2. Full(line)
      <4>. SUFFICES ASSUME NEW k \in Lane PROVE line[k] # 0
        BY DEF Full
      <4>. QED
        BY <1>2, <2>0, <3>1
    <3>3. ASSUME NEW j \in 1..GRID_SIZE - 1 PROVE line[j] # line[j + 1]
      <4> DEFINE i == GRID_SIZE + 1 - (j + 1)
      <4>1. /\ j \in Lane /\ j + 1 \in Lane /\ i \in Lane /\ i + 1 \in Lane
            /\ i < GRID_SIZE /\ GRID_SIZE + 1 - j = i + 1
        BY DEF Lane
      <4>2. line[j] = b[<<n, GRID_SIZE + 1 - j>>] /\ line[j + 1] = b[<<n, i>>]
        BY <3>1, <4>1
      <4> HIDE DEF i
      <4>. QED
        BY <1>1, <4>1, <4>2
    <3>. QED
      BY <3>2, <3>3 DEF Pair, line
  <2>3. CASE dir = "up"
    <3> DEFINE line == LineOf(b, dir, n)
    <3>1. \A k \in Lane : line[k] = b[<<k, n>>]
      BY <1>0, <2>3
    <3> HIDE DEF line
    <3>2. Full(line)
      <4>. SUFFICES ASSUME NEW k \in Lane PROVE line[k] # 0
        BY DEF Full
      <4>. QED
        BY <1>2, <2>0, <3>1
    <3>3. ASSUME NEW j \in 1..GRID_SIZE - 1 PROVE line[j] # line[j + 1]
      <4>1. j \in Lane /\ j + 1 \in Lane /\ j < GRID_SIZE
        BY DEF Lane
      <4>2. line[j] = b[<<j, n>>] /\ line[j + 1] = b[<<j + 1, n>>]
        BY <3>1, <4>1
      <4>. QED
        BY <1>1, <4>1, <4>2
    <3>. QED
      BY <3>2, <3>3 DEF Pair, line
  <2>4. CASE dir = "down"
    <3> DEFINE line == LineOf(b, dir, n)
    <3>1. \A k \in Lane : line[k] = b[<<GRID_SIZE + 1 - k, n>>]
      BY <1>0, <2>4
    <3> HIDE DEF line
    <3>2. Full(line)
      <4>. SUFFICES ASSUME NEW k \in Lane PROVE line[k] # 0
        BY DEF Full
      <4>. QED
        BY <1>2, <2>0, <3>1
    <3>3. ASSUME NEW j \in 1..GRID_SIZE - 1 PROVE line[j] # line[j + 1]
      <4> DEFINE i == GRID_SIZE + 1 - (j + 1)
      <4>1. /\ j \in Lane /\ j + 1 \in Lane /\ i \in Lane /\ i + 1 \in Lane
            /\ i < GRID_SIZE /\ GRID_SIZE + 1 - j = i + 1
        BY DEF Lane
      <4>2. line[j] = b[<<GRID_SIZE + 1 - j, n>>] /\ line[j + 1] = b[<<i, n>>]
        BY <3>1, <4>1
      <4> HIDE DEF i
      <4>. QED
        BY <1>1, <4>1, <4>2
    <3>. QED
      BY <3>2, <3>3 DEF Pair, line
  <2>. QED
    BY <2>1, <2>2, <2>3, <2>4 DEF Directions
<1>4. \A dir \in Directions, n \in Lane : ~Done(b, dir, AllBoth)[n].changed
  BY <1>3, AliveLines
<1>. QED
  BY <1>4, AliveLines

LEMMA MovableIsAlive ==
    ASSUME NEW b \in Grid, can_move(b), NEW x \in Cells, b[x] # 0
    PROVE  Alive(b)
<1>0. \A n, k \in Lane :
        /\ LineOf(b, "left", n)[k] = b[<<n, k>>]
        /\ LineOf(b, "right", n)[k] = b[<<n, GRID_SIZE + 1 - k>>]
        /\ LineOf(b, "up", n)[k] = b[<<k, n>>]
        /\ LineOf(b, "down", n)[k] = b[<<GRID_SIZE + 1 - k, n>>]
  BY Rowwise
<1>1. SUFFICES ASSUME ~Alive(b) PROVE FALSE
  OBVIOUS
<1>2. \A dir \in Directions, n \in Lane : ~Done(b, dir, AllBoth)[n].changed
  BY <1>1, AliveLines
<1>3. \A dir \in Directions, n \in Lane :
        /\ Packed(LineOf(b, dir, n))
        /\ Full(LineOf(b, dir, n)) => \A j \in 1..GRID_SIZE - 1 : ~Pair(LineOf(b, dir, n), j)
  BY <1>2, AliveLines
<1>4. "left" \in Directions /\ "right" \in Directions /\ "up" \in Directions /\ "down" \in Directions
  BY DEF Directions
<1>5. \A k \in Lane : /\ k \in Nat /\ GRID_SIZE + 1 - k \in Lane
                      /\ GRID_SIZE + 1 - (GRID_SIZE + 1 - k) = k
  BY DEF Lane
\* An empty cell has an empty row and an empty column.
<1>6. ASSUME NEW n \in Lane, NEW i \in Lane, NEW k \in Lane, b[<<n, i>>] = 0 PROVE b[<<n, k>>] = 0
  <2>1. CASE i < k
    <3> DEFINE line == LineOf(b, "left", n)
    <3>1. line[i] = b[<<n, i>>] /\ line[k] = b[<<n, k>>]
      BY <1>0
    <3>2. Packed(line)
      BY <1>3, <1>4
    <3> HIDE DEF line
    <3>. QED
      BY <1>6, <2>1, <3>1, <3>2 DEF Packed
  <2>2. CASE k < i
    <3> DEFINE p == GRID_SIZE + 1 - i
               q == GRID_SIZE + 1 - k
               line == LineOf(b, "right", n)
    <3>1. p \in Lane /\ q \in Lane /\ p < q
      BY <1>5, <2>2
    <3>2. line[p] = b[<<n, GRID_SIZE + 1 - p>>] /\ line[q] = b[<<n, GRID_SIZE + 1 - q>>]
      BY <1>0, <3>1
    <3>3. line[p] = b[<<n, i>>] /\ line[q] = b[<<n, k>>]
      BY <1>5, <3>2
    <3>4. Packed(line)
      BY <1>3, <1>4
    <3> HIDE DEF p, q, line
    <3>. QED
      BY <1>6, <3>1, <3>3, <3>4 DEF Packed
  <2>3. CASE i = k
    BY <1>6, <2>3
  <2>. QED
    BY <1>5, <2>1, <2>2, <2>3
<1>7. ASSUME NEW n \in Lane, NEW i \in Lane, NEW k \in Lane, b[<<i, n>>] = 0 PROVE b[<<k, n>>] = 0
  <2>1. CASE i < k
    <3> DEFINE line == LineOf(b, "up", n)
    <3>1. line[i] = b[<<i, n>>] /\ line[k] = b[<<k, n>>]
      BY <1>0
    <3>2. Packed(line)
      BY <1>3, <1>4
    <3> HIDE DEF line
    <3>. QED
      BY <1>7, <2>1, <3>1, <3>2 DEF Packed
  <2>2. CASE k < i
    <3> DEFINE p == GRID_SIZE + 1 - i
               q == GRID_SIZE + 1 - k
               line == LineOf(b, "down", n)
    <3>1. p \in Lane /\ q \in Lane /\ p < q
      BY <1>5, <2>2
    <3>2. line[p] = b[<<GRID_SIZE + 1 - p, n>>] /\ line[q] = b[<<GRID_SIZE + 1 - q, n>>]
      BY <1>0, <3>1
    <3>3. line[p] = b[<<i, n>>] /\ line[q] = b[<<k, n>>]
      BY <1>5, <3>2
    <3>4. Packed(line)
      BY <1>3, <1>4
    <3> HIDE DEF p, q, line
    <3>. QED
      BY <1>7, <3>1, <3>3, <3>4 DEF Packed
  <2>3. CASE i = k
    BY <1>7, <2>3
  <2>. QED
    BY <1>5, <2>1, <2>2, <2>3
<1>8. ASSUME NEW r \in Lane, NEW c \in Lane PROVE b[<<r, c>>] # 0
  <2>1. SUFFICES ASSUME b[<<r, c>>] = 0 PROVE FALSE
    OBVIOUS
  <2>2. PICK m \in Lane, j \in Lane : x = <<m, j>>
    BY DEF Cells
  <2>3. b[<<r, j>>] = 0
    BY <1>6, <2>1
  <2>4. b[<<m, j>>] = 0
    BY <1>7, <2>3
  <2>. QED
    BY <2>2, <2>4
<1>9. PICK r \in Lane, c \in Lane :
        \/ c < GRID_SIZE /\ b[<<r, c>>] = b[<<r, c + 1>>]
        \/ r < GRID_SIZE /\ b[<<r, c>>] = b[<<r + 1, c>>]
  BY <1>8 DEF can_move
<1>10. CASE c < GRID_SIZE /\ b[<<r, c>>] = b[<<r, c + 1>>]
  <2> DEFINE line == LineOf(b, "left", r)
  <2>1. c + 1 \in Lane /\ c \in 1..GRID_SIZE - 1
    BY <1>10 DEF Lane
  <2>0. \A k \in Lane : line[k] = b[<<r, k>>]
    BY <1>0
  <2>2. Full(line) /\ Pair(line, c)
    <3> HIDE DEF line
    <3>. QED
      BY <1>8, <1>10, <2>0, <2>1 DEF Full, Pair
  <2>. QED
    BY <1>3, <1>4, <2>1, <2>2
<1>11. CASE r < GRID_SIZE /\ b[<<r, c>>] = b[<<r + 1, c>>]
  <2> DEFINE line == LineOf(b, "up", c)
  <2>1. r + 1 \in Lane /\ r \in 1..GRID_SIZE - 1
    BY <1>11 DEF Lane
  <2>0. \A k \in Lane : line[k] = b[<<k, c>>]
    BY <1>0
  <2>2. Full(line) /\ Pair(line, r)
    <3> HIDE DEF line
    <3>. QED
      BY <1>8, <1>11, <2>0, <2>1 DEF Full, Pair
  <2>. QED
    BY <1>3, <1>4, <2>1, <2>2
<1>. QED
  BY <1>9, <1>10, <1>11

-----------------------------------------------------------------------------
(* Boards with one tile more *)

LEMMA TilePlaced ==
    ASSUME NEW w, NEW c, Measure(w, c), NEW b \in Grid, NEW cell \in Cells, NEW v \in Value
    PROVE  /\ [b EXCEPT ![cell] = v] \in Grid /\ Bulk(w, b) \in Int
           /\ Bulk(w, [b EXCEPT ![cell] = v]) = Bulk(w, b) + w[v] - w[b[cell]]
<1> DEFINE new == [b EXCEPT ![cell] = v]
           p == WeighAll(w, b)
           q == WeighAll(w, new)
<1>1. new \in Grid /\ new[cell] = v /\ \A x \in Cells \ {cell} : new[x] = b[x]
  BY DEF Grid
<1> HIDE DEF new
<1>2. \A x \in Cells : p[x] = w[b[x]] /\ p[x] \in Int /\ q[x] = w[new[x]] /\ q[x] \in Int
  BY <1>1 DEF WeighAll, Grid, Measure
<1>3. \A x \in Cells : p[x] \in Int /\ q[x] \in Int
  BY <1>2
<1>4. \A x \in Cells \ {cell} : p[x] = q[x]
  BY <1>1, <1>2
<1> HIDE DEF p, q
<1>5. Total(q, Cells) = Total(p, Cells) + q[cell] - p[cell] /\ Total(p, Cells) \in Int
  BY <1>3, <1>4, CellsFinite, TotalPoint, TotalInt
<1>6. q[cell] = w[v] /\ p[cell] = w[b[cell]]
  BY <1>1, <1>2
<1>. QED
  BY <1>1, <1>5, <1>6 DEF new, p, q, Bulk

\* The sums the model's properties are about are these measures.
LEMMA PropertySums ==
    ASSUME NEW b \in Grid
    PROVE  /\ Summed(b) = Bulk(Face, b)
           /\ Summed([cell \in Cells |-> Worth(b[cell])]) = Bulk(Points, b)
<1>1. DOMAIN b = Cells /\ DOMAIN [cell \in Cells |-> Worth(b[cell])] = Cells
  BY DEF Grid
<1>2. WeighAll(Face, b) = b
  BY DEF WeighAll, Face, Grid
<1>3. WeighAll(Points, b) = [cell \in Cells |-> Worth(b[cell])]
  BY DEF WeighAll, Points, Grid
<1>4. Summed(b) = Total(b, Cells)
  BY <1>1, SummedIs
<1>5. Summed([cell \in Cells |-> Worth(b[cell])]) = Total([cell \in Cells |-> Worth(b[cell])], Cells)
  BY <1>1, SummedIs
<1>. QED
  BY <1>2, <1>3, <1>4, <1>5 DEF Bulk

-----------------------------------------------------------------------------
(* The file of the records *)

LEMMA StoredIs ==
    ASSUME NEW list, Table(list), NEW n \in 0..MAX_RECORDS
    PROVE  Stored(SubSeq(list, 1, n)) /\ Stored(list)
<1>0. MAX_RECORDS \in Nat /\ n \in Nat /\ n <= MAX_RECORDS
  OBVIOUS
<1>1. /\ list = [k \in 1..MAX_RECORDS |-> list[k]]
      /\ \A k \in 1..MAX_RECORDS : list[k].score \in Nat
      /\ \A j, k \in 1..MAX_RECORDS : j < k => list[j].score >= list[k].score
  BY DEF Table, Rows
<1>2. ASSUME NEW m \in 0..MAX_RECORDS, NEW s, s = [k \in 1..m |-> list[k]] PROVE Stored(s)
  <2> DEFINE S == {s[k] : k \in DOMAIN s}
  <2>1. DOMAIN s = 1..m /\ \A k \in 1..m : s[k] = list[k] /\ k \in 1..MAX_RECORDS
    BY <1>2
  <2>2. \A k \in 1..m : s[k] \in S
    BY <2>1
  <2> HIDE DEF S
  <2>3. s \in [1..m -> S]
    BY <1>2, <2>2
  <2>4. s \in Seq(S)
    <3>1. m \in Nat
      OBVIOUS
    <3>. QED
      BY <2>3, <3>1, SeqDef
  <2>5. Len(s) = m
    BY <2>1, <2>4, LenProperties
  <2>6. Len(s) <= MAX_RECORDS
    BY <1>0, <2>5
  <2>7. s \in Seq({s[k] : k \in DOMAIN s})
    BY <2>4 DEF S
  <2>8. \A k \in 1..Len(s) : s[k].score \in Nat
    BY <1>1, <2>1, <2>5
  <2>9. \A j, k \in 1..Len(s) : j < k => s[j].score >= s[k].score
    BY <1>1, <2>1, <2>5
  <2>. QED
    BY <2>6, <2>7, <2>8, <2>9 DEF Stored
<1>3. Stored(list)
  BY <1>0, <1>1, <1>2
<1>4. SubSeq(list, 1, n) = [k \in 1..n |-> list[k]]
  <2> DEFINE S == {list[k] : k \in 1..n}
             s == SubSeq(list, 1, n)
  <2>1. \A k \in 1..n : list[k] \in S
    OBVIOUS
  <2> HIDE DEF S
  <2>2. /\ s \in Seq(S)
        /\ Len(s) = IF 1 <= n THEN n - 1 + 1 ELSE 0
        /\ \A i \in 1..n - 1 + 1 : s[i] = list[1 + i - 1]
    <3>1. 1 \in Int /\ n \in Int
      OBVIOUS
    <3>. QED
      BY <2>1, <3>1, SubSeqProperties
  <2>3. Len(s) = n /\ n - 1 + 1 = n /\ \A i \in 1..n : 1 + i - 1 = i
    BY <1>0, <2>2
  <2>4. s \in [1..n -> S]
    BY <2>2, <2>3, LenProperties
  <2>5. \A i \in 1..n : s[i] = list[i]
    BY <2>2, <2>3
  <2>. QED
    BY <2>4, <2>5
<1>5. Stored(SubSeq(list, 1, n))
  BY <1>2, <1>4
<1>. QED
  BY <1>3, <1>5

LEMMA LoadedIs ==
    ASSUME NEW content, content = NoFile \/ Stored(content)
    PROVE  Table(load_records(content))
<1> DEFINE list == load_records(content)
<1>1. \A k \in Rows : k \in Nat /\ k >= 1
  BY DEF Rows
<1>2. CASE content = NoFile
  <2>1. list = [k \in Rows |-> Dashes]
    BY <1>2 DEF load_records
  <2>2. \A k \in Rows : list[k].score = 0
    BY <2>1 DEF Dashes
  <2> HIDE DEF list
  <2>. QED
    BY <2>1, <2>2 DEF Table, list
<1>3. CASE content # NoFile
  <2>0. Stored(content)
    BY <1>3
  <2>1. Len(content) \in Nat
    BY <2>0, LenProperties DEF Stored
  <2>2. list = [k \in Rows |-> IF k <= Len(content) THEN content[k] ELSE Zeroed]
    BY <1>3 DEF load_records
  <2>3. \A k \in Rows : list[k].score = IF k <= Len(content) THEN content[k].score ELSE 0
    BY <2>2 DEF Zeroed
  <2>4. \A k \in Rows : k <= Len(content) => k \in 1..Len(content) /\ content[k].score \in Nat
    BY <1>1, <2>0, <2>1 DEF Stored
  <2> HIDE DEF list
  <2>5. \A k \in Rows : list[k].score \in Nat
    BY <2>3, <2>4
  <2>6. ASSUME NEW j \in Rows, NEW k \in Rows, j < k PROVE list[j].score >= list[k].score
    <3>1. CASE k <= Len(content)
      <4>1. j <= Len(content)
        BY <1>1, <2>1, <2>6, <3>1
      <4>2. content[j].score >= content[k].score
        BY <2>0, <2>4, <2>6, <3>1, <4>1 DEF Stored
      <4>. QED
        BY <2>3, <3>1, <4>1, <4>2
    <3>2. CASE ~(k <= Len(content))
      BY <2>3, <2>5, <3>2
    <3>. QED
      BY <3>1, <3>2
  <2>7. list = [k \in Rows |-> list[k]]
    BY <2>2
  <2>. QED
    BY <2>5, <2>6, <2>7 DEF Table, list
<1>. QED
  BY <1>2, <1>3

LEMMA NoRecordsTable == Table(NoRecords)
<1>1. NoRecords = [k \in Rows |-> NoRecords[k]] /\ \A k \in Rows : NoRecords[k].score = 0
  BY DEF NoRecords, Zeroed
<1>. QED
  BY <1>1 DEF Table

-----------------------------------------------------------------------------
(* What the actions do to the board *)

LEMMA NewGame ==
    ASSUME init_game
    PROVE  /\ board' \in Grid /\ fours' \in Nat /\ spawned' \in Nat /\ score' = 0 /\ ~starved'
           /\ Bulk(Face, board') = spawned' /\ Bulk(Points, board') = 4 * fours'
           /\ can_move(board') /\ \E x \in Cells : board'[x] # 0
<1>0. PICK one \in WithTile(NoTiles) : \E two \in WithTile(one) :
         /\ board' = two /\ score' = 0 /\ starved' = FALSE
         /\ fours' = Cardinality({cell \in Cells : two[cell] = 4})
         /\ spawned' = Summed(two)
  BY DEF init_game
<1>1. PICK two \in WithTile(one) :
         /\ board' = two /\ score' = 0 /\ starved' = FALSE
         /\ fours' = Cardinality({cell \in Cells : two[cell] = 4})
         /\ spawned' = Summed(two)
  BY <1>0
<1>2. /\ <<1, 1>> \in Cells /\ <<1, 2>> \in Cells /\ <<2, 1>> \in Cells
      /\ <<1, 1>> # <<1, 2>> /\ <<1, 1>> # <<2, 1>> /\ <<1, 2>> # <<2, 1>>
  BY DEF Cells, Lane
<1>3. PICK c \in Cells, v \in {2, 4} : one = [NoTiles EXCEPT ![c] = v]
  <2>1. Empty(NoTiles) = Cells
    BY DEF Empty, NoTiles
  <2>. QED
    BY <1>2, <2>1 DEF WithTile
<1>4. one = [cell \in Cells |-> IF cell = c THEN v ELSE 0]
  BY <1>3 DEF NoTiles
<1>5. PICK d \in Cells, u \in {2, 4} : two = [one EXCEPT ![d] = u] /\ one[d] = 0
  <2>1. Empty(one) # {}
    BY <1>2, <1>4 DEF Empty
  <2>2. \A cell \in Empty(one) : cell \in Cells /\ one[cell] = 0
    BY DEF Empty
  <2>. QED
    BY <2>1, <2>2 DEF WithTile
<1>6. two = [cell \in Cells |-> IF cell = d THEN u ELSE IF cell = c THEN v ELSE 0]
  BY <1>4, <1>5
<1>7. two \in Grid
  BY <1>6 DEF Grid, Value
<1>8. \E x \in Cells : two[x] # 0
  BY <1>6
<1>9. can_move(two)
  <2>1. \A r, s \in Lane : <<r, s>> \in Cells
    BY DEF Cells
  <2>2. PICK x \in Cells : two[x] = 0
    BY <1>2, <1>6
  <2>3. PICK r \in Lane, s \in Lane : x = <<r, s>>
    BY DEF Cells
  <2>. QED
    BY <2>2, <2>3 DEF can_move
<1>10. Bulk(Face, two) = Summed(two)
  BY <1>7, PropertySums
<1>11. Summed(two) \in Nat
  <2>1. Summed(two) = Total(two, Cells)
    BY <1>6, SummedIs
  <2>2. \A x \in Cells : two[x] \in Nat
    BY <1>6
  <2>3. Total(two, Cells) \in Nat
    BY <2>2, CellsFinite, TotalNat
  <2>. QED
    BY <2>1, <2>3
<1>12. /\ Cardinality({cell \in Cells : two[cell] = 4}) \in Nat
       /\ Bulk(Points, two) = 4 * Cardinality({cell \in Cells : two[cell] = 4})
  <2> DEFINE T == {cell \in Cells : two[cell] = 4}
             p == WeighAll(Points, two)
  <2>1. \A x \in Cells : two[x] \in Value /\ p[x] = Worth(two[x])
    BY <1>7 DEF WeighAll, Points, Grid
  <2>2. \A x \in Cells : p[x] = IF x \in T THEN 4 ELSE 0
    <3>1. ASSUME NEW x \in Cells PROVE p[x] = IF x \in T THEN 4 ELSE 0
      <4>1. two[x] = 0 \/ two[x] = 2 \/ two[x] = 4
        BY <1>6
      <4> HIDE DEF p
      <4>. QED
        BY <2>1, <4>1, WorthDoubles
    <3>. QED
      BY <3>1
  <2>3. T \in SUBSET Cells /\ 4 \in Nat
    OBVIOUS
  <2> HIDE DEF T, p
  <2>4. Total(p, Cells) = 4 * Cardinality(T)
    BY <2>2, <2>3, CellsFinite, TotalCount
  <2>5. Cardinality(T) \in Nat
    BY <2>3, CellsFinite, FS_Subset, FS_CardinalityType
  <2>. QED
    BY <2>4, <2>5 DEF Bulk, p, T
<1>. QED
  BY <1>1, <1>7, <1>8, <1>9, <1>10, <1>11, <1>12

LEMMA TileAdded ==
    ASSUME NEW moved \in Grid, NewTile(moved), spawned \in Nat, fours \in Nat
    PROVE  /\ board' \in Grid /\ spawned' \in Nat /\ fours' \in Nat
           /\ Bulk(Face, moved) \in Int /\ Bulk(Points, moved) \in Int
           /\ Bulk(Face, board') = Bulk(Face, moved) + spawned' - spawned
           /\ Bulk(Points, board') = Bulk(Points, moved) + 4 * fours' - 4 * fours
           /\ \E x \in Cells : board'[x] # 0
<1>1. PICK cell \in Empty(moved), v \in {2, 4} :
         /\ board' = [moved EXCEPT ![cell] = v]
         /\ spawned' = spawned + v /\ fours' = IF v = 4 THEN fours + 1 ELSE fours
  BY DEF NewTile
<1>2. cell \in Cells /\ moved[cell] = 0 /\ v \in Value /\ v \in Nat /\ v # 0 /\ 0 \in Value
  BY DEF Empty, Value
<1>3. Measure(Face, 0) /\ Measure(Points, 1)
  BY Measures
<1>4. Face[v] = v /\ Face[0] = 0 /\ Points[v] = (IF v = 4 THEN 4 ELSE 0) /\ Points[0] = 0
  <2>1. Points[v] = Worth(v) /\ Face[v] = v
    BY <1>2 DEF Points, Face
  <2>2. Worth(v) = IF v = 4 THEN 4 ELSE 0
    BY WorthDoubles
  <2>. QED
    BY <1>3, <2>1, <2>2 DEF Measure
<1>5. /\ board' \in Grid /\ Bulk(Face, moved) \in Int
      /\ Bulk(Face, board') = Bulk(Face, moved) + Face[v] - Face[moved[cell]]
  <2>1. /\ [moved EXCEPT ![cell] = v] \in Grid /\ Bulk(Face, moved) \in Int
        /\ Bulk(Face, [moved EXCEPT ![cell] = v]) = Bulk(Face, moved) + Face[v] - Face[moved[cell]]
    BY <1>2, <1>3, TilePlaced
  <2>. QED
    BY <1>1, <2>1
<1>6. /\ Bulk(Points, moved) \in Int
      /\ Bulk(Points, board') = Bulk(Points, moved) + Points[v] - Points[moved[cell]]
  <2>1. /\ Bulk(Points, moved) \in Int
        /\ Bulk(Points, [moved EXCEPT ![cell] = v]) =
             Bulk(Points, moved) + Points[v] - Points[moved[cell]]
    BY <1>2, <1>3, TilePlaced
  <2>. QED
    BY <1>1, <2>1
<1>7. board'[cell] = v
  BY <1>1, <1>2 DEF Grid
<1>. QED
  BY <1>1, <1>2, <1>4, <1>5, <1>6, <1>7

LEMMA ArrowEffect ==
    ASSUME NEW dir \in Directions, Arrow(dir), board \in Grid, score \in Nat,
           spawned \in Nat, fours \in Nat
    PROVE  /\ board' \in Grid /\ score' \in Nat /\ spawned' \in Nat /\ fours' \in Nat
           /\ Bulk(Face, board) \in Int /\ Bulk(Points, board) \in Int
           /\ Bulk(Face, board') = Bulk(Face, board) + spawned' - spawned
           /\ Bulk(Points, board') - 4 * fours' - score' <= Bulk(Points, board) - 4 * fours - score
           /\ ~starved' => /\ ~starved
                           /\ Bulk(Points, board') - 4 * fours' - score' =
                                Bulk(Points, board) - 4 * fours - score
           /\ \/ /\ board' = board /\ state' = state /\ UNCHANGED dialogue
              \/ /\ \E x \in Cells : board'[x] # 0
                 /\ \/ can_move(board') /\ UNCHANGED <<state, dialogue>>
                    \/ /\ ~can_move(board') /\ state' = "name" /\ final_score' = score'
                       /\ name_buf' = NoName /\ name_pos' = 0
<1>1. PICK memory \in [Lane -> Memory] :
        LET moved == move(board, dir, memory) IN
        /\ score' = score + moved.gained /\ score' <= MaxScore
        /\ starved' = (starved \/ \E n \in Lane : memory[n] # "both")
        /\ \/ moved.changed /\ NewTile(moved.board)
           \/ ~moved.changed /\ UNCHANGED <<state, board, fours, spawned, dialogue>>
  BY DEF Arrow
<1> DEFINE moved == move(board, dir, memory)
           new == moved.board
<1>2. new \in Grid /\ (moved.changed <=> new # board)
  BY MovedIs
<1>3. /\ moved.gained \in Nat /\ Bulk(Face, board) \in Int /\ Bulk(Face, new) \in Int
      /\ Bulk(Face, new) = Bulk(Face, board)
  BY Measures, BulkMoved
<1>4. /\ Bulk(Points, board) \in Int /\ Bulk(Points, new) \in Int
      /\ Bulk(Points, new) <= Bulk(Points, board) + moved.gained
      /\ (\A n \in Lane : memory[n] = "both") => Bulk(Points, new) = Bulk(Points, board) + moved.gained
  BY Measures, BulkMoved
<1>5. /\ score' = score + moved.gained
      /\ ~starved' => ~starved /\ \A n \in Lane : memory[n] = "both"
  BY <1>1
<1>6. \/ moved.changed /\ NewTile(new)
      \/ ~moved.changed /\ UNCHANGED <<state, board, fours, spawned, dialogue>>
  BY <1>1
<1> HIDE DEF moved, new
<1>7. CASE moved.changed /\ NewTile(new)
  <2>1. /\ board' \in Grid /\ spawned' \in Nat /\ fours' \in Nat
        /\ Bulk(Face, board') = Bulk(Face, new) + spawned' - spawned
        /\ Bulk(Points, board') = Bulk(Points, new) + 4 * fours' - 4 * fours
        /\ \E x \in Cells : board'[x] # 0
    BY <1>2, <1>7, TileAdded
  <2>2. \/ can_move(board') /\ UNCHANGED <<state, dialogue>>
        \/ /\ ~can_move(board') /\ state' = "name" /\ final_score' = score'
           /\ name_buf' = NoName /\ name_pos' = 0
    BY <1>7 DEF NewTile
  <2>3. score' \in Nat
    BY <1>3, <1>5
  <2>4. Bulk(Points, board') - 4 * fours' - score' <= Bulk(Points, board) - 4 * fours - score
    BY <1>3, <1>4, <1>5, <2>1
  <2>5. ~starved' => Bulk(Points, board') - 4 * fours' - score' = Bulk(Points, board) - 4 * fours - score
    BY <1>3, <1>4, <1>5, <2>1
  <2>. QED
    BY <1>3, <1>4, <1>5, <2>1, <2>2, <2>3, <2>4, <2>5
<1>8. CASE ~moved.changed /\ UNCHANGED <<state, board, fours, spawned, dialogue>>
  <2>1. new = board /\ board' = board /\ fours' = fours /\ spawned' = spawned /\ state' = state
    BY <1>2, <1>8
  <2>2. UNCHANGED dialogue
    BY <1>8
  <2>3. score' \in Nat
    BY <1>3, <1>5
  <2>4. Bulk(Points, board') - 4 * fours' - score' <= Bulk(Points, board) - 4 * fours - score
    BY <1>3, <1>4, <1>5, <2>1
  <2>5. ~starved' => Bulk(Points, board') - 4 * fours' - score' = Bulk(Points, board) - 4 * fours - score
    BY <1>3, <1>4, <1>5, <2>1
  <2>. QED
    BY <1>3, <1>4, <1>5, <2>1, <2>2, <2>3, <2>4, <2>5
<1>. QED
  BY <1>6, <1>7, <1>8

-----------------------------------------------------------------------------
(* Types *)

TypeInv ==
    /\ TypeOK
    /\ board \in Grid /\ fours \in Nat /\ spawned \in Nat
    /\ Table(leaders) /\ Table(loaded) /\ given \in Seq(Nat)
    /\ file = NoFile \/ Stored(file)
    /\ state = "off" => given = <<>>

LEMMA EmptyBoards ==
    /\ NoTiles \in Grid /\ NoTiles \in [Cells -> Nat]
    /\ DOMAIN NoName = NameBytes /\ NoName[MAX_NAME_LEN - 1] = NUL /\ 0 \in NameBytes
<1>1. NoTiles \in Grid /\ NoTiles \in [Cells -> Nat]
  BY DEF NoTiles, Grid, Value
<1>2. MAX_NAME_LEN - 1 \in NameBytes /\ 0 \in NameBytes
  BY DEF NameBytes
<1>. QED
  BY <1>1, <1>2 DEF NoName

LEMMA TypeInit == Init => TypeInv
<1>. SUFFICES ASSUME Init PROVE TypeInv
  OBVIOUS
<1>1. TypeOK
  <2>1. \A k \in Rows : leaders[k].score \in Nat
    BY NoRecordsTable DEF Init, Table
  <2>. QED
    BY <2>1, EmptyBoards DEF Init, TypeOK
<1>2. board \in Grid /\ fours \in Nat /\ spawned \in Nat /\ given \in Seq(Nat) /\ given = <<>>
  BY EmptyBoards DEF Init
<1>3. Table(leaders) /\ Table(loaded)
  BY NoRecordsTable DEF Init
<1>4. file = NoFile \/ Stored(file)
  BY FilesAssumption DEF Init
<1>. QED
  BY <1>1, <1>2, <1>3, <1>4 DEF TypeInv

\* The values after the program has ended.
LEMMA EndedTypes ==
    ASSUME TypeInv, Ended, file' = NoFile \/ Stored(file')
    PROVE  TypeInv'
<1>1. TypeOK'
  <2>1. \A k \in Rows : leaders'[k].score \in Nat
    BY NoRecordsTable DEF Ended, Table
  <2>. QED
    BY <2>1, EmptyBoards DEF Ended, TypeOK
<1>2. board' \in Grid /\ fours' \in Nat /\ spawned' \in Nat /\ given' \in Seq(Nat) /\ given' = <<>>
  BY EmptyBoards DEF Ended
<1>3. Table(leaders)' /\ Table(loaded)'
  BY NoRecordsTable DEF Ended, Table
<1>. QED
  BY <1>1, <1>2, <1>3 DEF TypeInv

\* A name that is entered is added to the table, and the file holds one.
LEMMA NameEntered ==
    ASSUME TypeInv, NameEnter
    PROVE  /\ file' = NoFile \/ Stored(file')
           /\ state = "name"
           /\ \/ /\ \E name : leaders' = add_record(leaders, name, final_score)
                 /\ Table(leaders') /\ state' = "tops"
                 /\ given' = Append(given, final_score)
                 /\ UNCHANGED <<menu_sel, game, dialogue, loaded>>
              \/ Ended
<1> DEFINE name == IF name_buf[0] = NUL THEN <<"P", "l", "a", "y", "e", "r">> ELSE Text(name_buf)
           list == add_record(leaders, name, final_score)
<1>1. /\ state = "name" /\ file' \in Saved(list)
      /\ \/ /\ state' = "tops" /\ leaders' = list
            /\ given' = Append(given, final_score)
            /\ UNCHANGED <<menu_sel, game, dialogue, loaded>>
         \/ Ended
  BY DEF NameEnter
<1> HIDE DEF name
<1>2. Table(list)
  <2>1. Table(leaders) /\ final_score \in Nat
    BY DEF TypeInv, TypeOK
  <2>. QED
    BY <2>1, Added
<1>3. file' = file \/ file' = list \/ \E n \in 0..MAX_RECORDS : file' = SubSeq(list, 1, n)
  <2> HIDE DEF list
  <2>. QED
    BY <1>1 DEF Saved
<1>4. file' = NoFile \/ Stored(file')
  <2> HIDE DEF list
  <2>1. Stored(list)
    <3>1. 0 \in 0..MAX_RECORDS
      OBVIOUS
    <3>. QED
      BY <1>2, <3>1, StoredIs
  <2>2. \A n \in 0..MAX_RECORDS : Stored(SubSeq(list, 1, n))
    BY <1>2, StoredIs
  <2>3. file = NoFile \/ Stored(file)
    BY DEF TypeInv
  <2>. QED
    BY <1>3, <2>1, <2>2, <2>3
<1>. QED
  BY <1>1, <1>2, <1>4

LEMMA TypeStep == TypeInv /\ [Next]_vars => TypeInv'
<1>. SUFFICES ASSUME TypeInv, [Next]_vars PROVE TypeInv'
  OBVIOUS
<1>. USE DEF TypeInv
<1>1. CASE UNCHANGED vars
  BY <1>1 DEF vars, game, dialogue, records, TypeOK, Table
<1>2. CASE Launch
  <2>1. Table(leaders') /\ Table(loaded')
    BY <1>2, LoadedIs DEF Launch
  <2>2. \A k \in Rows : leaders'[k].score \in Nat
    BY <2>1 DEF Table
  <2>3. TypeOK'
    BY <1>2, <2>2 DEF Launch, TypeOK, game, dialogue
  <2>4. Table(leaders)' /\ Table(loaded)'
    BY <2>1 DEF Table
  <2>. QED
    BY <1>2, <2>3, <2>4 DEF Launch, game, dialogue
<1>3. CASE Quit
  BY <1>3, EndedTypes DEF Quit
<1>4. CASE Escape
  BY <1>4 DEF Escape, game, dialogue, records, TypeOK, Table
<1>5. CASE MenuMove
  BY <1>5 DEF MenuMove, game, dialogue, records, TypeOK, Table
<1>6. CASE MenuEnter
  <2>1. CASE /\ menu_sel = 0 /\ state' = "game" /\ init_game
             /\ starts < MaxStarts /\ starts' = starts + 1
             /\ UNCHANGED <<menu_sel, dialogue, records>>
    <3>1. board' \in Grid /\ fours' \in Nat /\ spawned' \in Nat /\ score' = 0
      BY <2>1, NewGame
    <3>2. board' \in [Cells -> Nat]
      BY <3>1 DEF Grid, Value
    <3>. QED
      BY <2>1, <3>1, <3>2 DEF dialogue, records, TypeOK, Table
  <2>2. CASE /\ menu_sel = 1 /\ state' = "tops"
             /\ UNCHANGED <<menu_sel, game, dialogue, records, starts>>
    BY <2>2 DEF game, dialogue, records, TypeOK, Table
  <2>3. CASE menu_sel = 2 /\ Quit
    BY <2>3, EndedTypes DEF Quit
  <2>. QED
    BY <1>6, <2>1, <2>2, <2>3 DEF MenuEnter
<1>7. ASSUME NEW dir \in Directions, Arrow(dir) PROVE TypeInv'
  <2>1. /\ board \in Grid /\ score \in Nat /\ spawned \in Nat /\ fours \in Nat
        /\ state = "game" /\ UNCHANGED <<menu_sel, records, starts>>
    BY <1>7 DEF Arrow, TypeOK
  <2>2. /\ board' \in Grid /\ score' \in Nat /\ spawned' \in Nat /\ fours' \in Nat
        /\ \/ state' = state /\ UNCHANGED dialogue
           \/ state' = "name" /\ final_score' = score' /\ name_buf' = NoName /\ name_pos' = 0
    BY <1>7, <2>1, ArrowEffect
  <2>3. board' \in [Cells -> Nat]
    BY <2>2 DEF Grid, Value
  <2>4. TypeOK'
    BY <2>1, <2>2, <2>3, EmptyBoards DEF dialogue, records, TypeOK
  <2>. QED
    BY <2>1, <2>2, <2>4 DEF records, Table
<1>8. CASE NameEnter
  <2>1. CASE Ended
    BY <1>8, <2>1, NameEntered, EndedTypes
  <2>2. CASE /\ Table(leaders') /\ state' = "tops" /\ given' = Append(given, final_score)
             /\ UNCHANGED <<menu_sel, game, dialogue, loaded>>
    <3>1. file' = NoFile \/ Stored(file')
      BY <1>8, NameEntered
    <3>2. given' \in Seq(Nat)
      BY <2>2 DEF TypeOK
    <3>3. \A k \in Rows : leaders'[k].score \in Nat
      BY <2>2 DEF Table
    <3>4. TypeOK'
      BY <2>2, <3>3 DEF TypeOK, game, dialogue
    <3>5. Table(leaders)' /\ Table(loaded)'
      BY <2>2 DEF Table
    <3>. QED
      BY <2>2, <3>1, <3>2, <3>4, <3>5 DEF game
  <2>. QED
    BY <1>8, <2>1, <2>2, NameEntered
<1>9. CASE CursorLeft
  <2>1. name_pos' \in NameBytes
    BY <1>9 DEF CursorLeft, TypeOK, NameBytes
  <2>. QED
    BY <1>9, <2>1 DEF CursorLeft, game, records, TypeOK, Table
<1>10. CASE CursorRight
  <2>1. name_pos' \in NameBytes
    BY <1>10 DEF CursorRight, NameRoom, TypeOK, NameBytes
  <2>. QED
    BY <1>10, <2>1 DEF CursorRight, game, records, TypeOK, Table
<1>11. CASE Backspace
  <2>1. name_pos' \in NameBytes
    BY <1>11 DEF Backspace, TypeOK, NameBytes
  <2>2. DOMAIN name_buf' = NameBytes /\ name_buf'[MAX_NAME_LEN - 1] = NUL
    <3>1. MAX_NAME_LEN - 1 \in NameBytes
      BY DEF NameBytes
    <3>. QED
      BY <1>11, <2>1, <3>1 DEF Backspace, TypeOK
  <2>. QED
    BY <1>11, <2>1, <2>2 DEF Backspace, game, records, TypeOK, Table
<1>12. CASE TypeLetter
  <2>1. name_pos' \in NameBytes /\ name_pos # MAX_NAME_LEN - 1
    BY <1>12 DEF TypeLetter, NameRoom, TypeOK, NameBytes
  <2>2. DOMAIN name_buf' = NameBytes /\ name_buf'[MAX_NAME_LEN - 1] = NUL
    BY <1>12, <2>1 DEF TypeLetter, TypeOK
  <2>. QED
    BY <1>12, <2>1, <2>2 DEF TypeLetter, game, records, TypeOK, Table
<1>. QED
  BY <1>1, <1>2, <1>3, <1>4, <1>5, <1>6, <1>7, <1>8, <1>9, <1>10, <1>11, <1>12 DEF Next

\* The buffer of the name stays a string that ends inside it, the table of the
\* records has a score in each row, and no other variable leaves its type.
THEOREM TypeCorrect == Spec => []TypeOK
<1>1. TypeInv => TypeOK
  BY DEF TypeInv
<1>. QED
  BY <1>1, TypeInit, TypeStep, PTL DEF Spec

-----------------------------------------------------------------------------
(* The best results *)

GoodAsPromised(v) ==
    AsGood(ScoresOf(leaders), v) =
      Min({MAX_RECORDS, AsGood(ScoresOf(loaded), v) + AsGood(given, v)})

RecordsInv == \A v \in Nat : GoodAsPromised(v)

LEMMA GoodInTable ==
    ASSUME NEW list, Table(list), NEW v \in Nat
    PROVE  AsGood(ScoresOf(list), v) \in 0..MAX_RECORDS
<1>1. PICK c \in 0..MAX_RECORDS : \A k \in Rows : list[k].score >= v <=> k <= c
  BY CountExists
<1>2. AsGood(ScoresOf(list), v) = c
  BY <1>1, Counted
<1>. QED
  BY <1>2

LEMMA GoodAppended ==
    ASSUME NEW s \in Seq(Nat), NEW points \in Nat, NEW v \in Nat
    PROVE  /\ AsGood(s, v) \in Nat
           /\ AsGood(Append(s, points), v) = AsGood(s, v) + (IF points >= v THEN 1 ELSE 0)
<1> DEFINE n == Len(s)
           t == Append(s, points)
           S == {k \in 1..n : s[k] >= v}
           T == {k \in 1..n + 1 : t[k] >= v}
<1>1. /\ n \in Nat /\ DOMAIN s = 1..n /\ DOMAIN t = 1..n + 1
      /\ t[n + 1] = points /\ \A k \in 1..n : t[k] = s[k]
  BY AppendProperties, LenProperties
<1>2. AsGood(s, v) = Cardinality(S) /\ AsGood(t, v) = Cardinality(T)
  BY <1>1 DEF AsGood
<1>3. IsFiniteSet(S) /\ Cardinality(S) \in Nat
  <2>1. IsFiniteSet(1..n)
    BY <1>1, FS_Interval
  <2>2. S \in SUBSET (1..n)
    OBVIOUS
  <2> HIDE DEF S
  <2>. QED
    BY <2>1, <2>2, FS_Subset, FS_CardinalityType
<1>4. n + 1 \notin S /\ (\A k \in 1..n + 1 : k \in 1..n \/ k = n + 1) /\ n + 1 \in 1..n + 1
  BY <1>1
<1> HIDE DEF n, t
<1>5. CASE points >= v
  <2>1. T = S \cup {n + 1}
    BY <1>1, <1>4, <1>5
  <2> HIDE DEF S, T
  <2>2. Cardinality(S \cup {n + 1}) = Cardinality(S) + 1
    BY <1>3, <1>4, FS_AddElement
  <2>. QED
    BY <1>2, <1>3, <1>5, <2>1, <2>2 DEF t
<1>6. CASE ~(points >= v)
  <2>1. T = S
    BY <1>1, <1>4, <1>6
  <2> HIDE DEF S, T
  <2>2. (IF points >= v THEN 1 ELSE 0) = 0
    BY <1>6
  <2>. QED
    BY <1>2, <1>3, <2>1, <2>2 DEF t
<1>. QED
  BY <1>5, <1>6

\* With nothing entered the table is what was loaded.
LEMMA NothingGiven ==
    ASSUME NEW list, Table(list), NEW v \in Nat
    PROVE  AsGood(ScoresOf(list), v) = Min({MAX_RECORDS, AsGood(ScoresOf(list), v) + AsGood(<<>>, v)})
<1>1. AsGood(<<>>, v) = 0
  <2>1. {k \in DOMAIN <<>> : <<>>[k] >= v} = {}
    OBVIOUS
  <2>. QED
    BY <2>1, FS_EmptySet DEF AsGood
<1>2. AsGood(ScoresOf(list), v) \in 0..MAX_RECORDS
  BY GoodInTable
<1>3. Min({MAX_RECORDS, AsGood(ScoresOf(list), v)}) = AsGood(ScoresOf(list), v)
  BY <1>2, MinOfTwo
<1>4. AsGood(ScoresOf(list), v) + 0 = AsGood(ScoresOf(list), v)
  BY <1>2
<1>. QED
  BY <1>1, <1>3, <1>4, Zenon

LEMMA RecordsInit == Init => RecordsInv
<1>. SUFFICES ASSUME Init, NEW v \in Nat PROVE GoodAsPromised(v)
  BY DEF RecordsInv
<1>1. leaders = NoRecords /\ loaded = NoRecords /\ given = <<>>
  BY DEF Init
<1>2. AsGood(ScoresOf(NoRecords), v) =
        Min({MAX_RECORDS, AsGood(ScoresOf(NoRecords), v) + AsGood(<<>>, v)})
  BY NoRecordsTable, NothingGiven
<1>. QED
  BY <1>1, <1>2 DEF GoodAsPromised

LEMMA RecordsStep == TypeInv /\ TypeInv' /\ RecordsInv /\ [Next]_vars => RecordsInv'
<1>. SUFFICES ASSUME TypeInv, TypeInv', RecordsInv, [Next]_vars, NEW v \in Nat
              PROVE  GoodAsPromised(v)'
  BY DEF RecordsInv
<1>0. Table(leaders) /\ Table(loaded) /\ given \in Seq(Nat) /\ final_score \in Nat
      /\ (state = "off" => given = <<>>)
  BY DEF TypeInv, TypeOK
<1>1. GoodAsPromised(v)
  BY DEF RecordsInv
<1>2. ASSUME leaders' = leaders, loaded' = loaded, given' = given PROVE GoodAsPromised(v)'
  BY <1>1, <1>2 DEF GoodAsPromised
<1>3. ASSUME leaders' = loaded', given' = <<>>, Table(leaders') PROVE GoodAsPromised(v)'
  <2>1. AsGood(ScoresOf(leaders'), v) =
          Min({MAX_RECORDS, AsGood(ScoresOf(leaders'), v) + AsGood(<<>>, v)})
    BY <1>3, NothingGiven
  <2>. QED
    BY <1>3, <2>1 DEF GoodAsPromised
<1>4. ASSUME Ended PROVE GoodAsPromised(v)'
  BY <1>3, <1>4, NoRecordsTable DEF Ended
<1>5. CASE Launch
  <2>1. Table(leaders')
    BY <1>5, LoadedIs DEF Launch, TypeInv
  <2>. QED
    BY <1>0, <1>3, <1>5, <2>1 DEF Launch
<1>6. CASE NameEnter
  <2>1. CASE Ended
    BY <1>4, <2>1
  <2>2. CASE /\ \E name : leaders' = add_record(leaders, name, final_score)
             /\ given' = Append(given, final_score) /\ loaded' = loaded
    <3>1. PICK name : leaders' = add_record(leaders, name, final_score)
      BY <2>2
    <3> DEFINE e == IF final_score >= v THEN 1 ELSE 0
               was == AsGood(ScoresOf(leaders), v)
               old == AsGood(ScoresOf(loaded), v)
               new == AsGood(given, v)
    <3>2. AsGood(ScoresOf(leaders'), v) = Min({MAX_RECORDS, was + e})
      BY <1>0, <3>1, Added
    <3>3. AsGood(given', v) = new + e /\ new \in Nat
      BY <1>0, <2>2, GoodAppended
    <3>4. was \in 0..MAX_RECORDS /\ old \in 0..MAX_RECORDS /\ e \in {0, 1}
      BY <1>0, GoodInTable
    <3>5. was = Min({MAX_RECORDS, old + new})
      BY <1>1 DEF GoodAsPromised
    <3> HIDE DEF e, was, old, new
    <3>6. Min({MAX_RECORDS, was + e}) = Min({MAX_RECORDS, old + (new + e)})
      <4>1. was = IF MAX_RECORDS <= old + new THEN MAX_RECORDS ELSE old + new
        BY <3>3, <3>4, <3>5, MinOfTwo
      <4>2. Min({MAX_RECORDS, was + e}) = IF MAX_RECORDS <= was + e THEN MAX_RECORDS ELSE was + e
        BY <3>4, MinOfTwo
      <4>3. Min({MAX_RECORDS, old + (new + e)}) =
              IF MAX_RECORDS <= old + (new + e) THEN MAX_RECORDS ELSE old + (new + e)
        BY <3>3, <3>4, MinOfTwo
      <4>. QED
        BY <3>3, <3>4, <4>1, <4>2, <4>3
    <3>. QED
      BY <2>2, <3>2, <3>3, <3>6 DEF GoodAsPromised, old
  <2>. QED
    BY <1>6, <2>1, <2>2, NameEntered
<1>7. CASE MenuEnter
  BY <1>2, <1>4, <1>7 DEF MenuEnter, Quit, records
<1>8. CASE \E dir \in Directions : Arrow(dir)
  BY <1>2, <1>8 DEF Arrow, records
<1>. QED
  BY <1>2, <1>4, <1>5, <1>6, <1>7, <1>8
     DEF Next, vars, records, Quit, Escape, MenuMove, CursorLeft, CursorRight, Backspace, TypeLetter

\* The table is in descending order and holds the best of what was loaded and
\* of what was entered since, for every number of rows and every score.
THEOREM TableHoldsTheBest == Spec => []BestInOrder
<1>1. TypeInv /\ RecordsInv => BestInOrder
  <2>. SUFFICES ASSUME TypeInv, RecordsInv PROVE BestInOrder
    OBVIOUS
  <2>1. \A j, k \in Rows : j < k => leaders[j].score >= leaders[k].score
    BY DEF TypeInv, Table
  <2>2. \A v \in 1..MaxScore : GoodAsPromised(v)
    BY DEF RecordsInv
  <2>. QED
    BY <2>1, <2>2 DEF BestInOrder, GoodAsPromised, ScoresOf
<1>. QED
  BY <1>1, TypeInit, TypeStep, RecordsInit, RecordsStep, PTL DEF Spec

-----------------------------------------------------------------------------
(* The game *)

Due == Bulk(Points, board) - 4 * fours

LEMMA Cancel ==
    ASSUME NEW m \in Nat, NEW n \in Nat
    PROVE  m + n - m = n
  OBVIOUS

\* The score covers what is due, exactly so unless an allocation has failed.
Covers(paid, due, failed) == due <= paid /\ (~failed => paid = due)

\* A step that pays for what it makes due, unless an allocation fails.
Pays(due, paid, failed, dueNow, paidNow, failedNow) ==
    /\ dueNow - paidNow <= due - paid
    /\ ~failedNow => ~failed /\ dueNow - paidNow = due - paid

LEMMA StaysCovered ==
    ASSUME NEW due \in Int, NEW dueNow \in Int, NEW paid \in Int, NEW paidNow \in Int,
           NEW failed, NEW failedNow,
           Covers(paid, due, failed), Pays(due, paid, failed, dueNow, paidNow, failedNow)
    PROVE  Covers(paidNow, dueNow, failedNow)
  BY DEF Covers, Pays

\* What is known of the board while a game is shown.
GameInv ==
    state \in {"game", "name"} =>
       /\ Bulk(Face, board) = spawned
       /\ Covers(score, Due, starved)
       /\ \E x \in Cells : board[x] # 0
       /\ state = "game" => can_move(board)
       /\ state = "name" => ~can_move(board)

LEMMA GameStep == TypeInv /\ GameInv /\ [Next]_vars => GameInv'
<1>. SUFFICES ASSUME TypeInv, GameInv, [Next]_vars PROVE GameInv'
  OBVIOUS
<1>1. ASSUME UNCHANGED <<state, game>> PROVE GameInv'
  BY <1>1 DEF GameInv, Due, game
<1>2. ASSUME state' \notin {"game", "name"} PROVE GameInv'
  BY <1>2 DEF GameInv
<1>3. CASE MenuEnter
  <2>1. CASE state' = "game" /\ init_game
    <3>1. /\ Bulk(Face, board') = spawned' /\ Bulk(Points, board') = 4 * fours'
          /\ fours' \in Nat /\ score' = 0 /\ ~starved'
          /\ can_move(board') /\ \E x \in Cells : board'[x] # 0
      BY <2>1, NewGame
    <3>2. 4 * fours' \in Int
      BY <3>1
    <3>3. Due' = 0
      <4>1. Due' = 4 * fours' - 4 * fours'
        BY <3>1 DEF Due
      <4>. QED
        BY <3>2, <4>1
    <3>4. Covers(score', Due', starved')
      BY <3>1, <3>3 DEF Covers
    <3>. QED
      BY <2>1, <3>1, <3>4 DEF GameInv
  <2>2. CASE state' = "tops"
    BY <1>2, <2>2
  <2>3. CASE Quit
    BY <1>2, <2>3 DEF Quit, Ended
  <2>. QED
    BY <1>3, <2>1, <2>2, <2>3 DEF MenuEnter
<1>4. ASSUME NEW dir \in Directions, Arrow(dir) PROVE GameInv'
  <2>1. /\ state = "game" /\ board \in Grid /\ score \in Nat /\ spawned \in Nat /\ fours \in Nat
    BY <1>4 DEF Arrow, TypeInv, TypeOK
  <2>2. /\ Bulk(Face, board) = spawned /\ Covers(score, Due, starved)
        /\ can_move(board) /\ \E x \in Cells : board[x] # 0
    BY <2>1 DEF GameInv
  <2>3. /\ board' \in Grid /\ score' \in Nat /\ spawned' \in Nat /\ fours' \in Nat
        /\ Bulk(Face, board) \in Int /\ Bulk(Points, board) \in Int
        /\ Bulk(Face, board') = Bulk(Face, board) + spawned' - spawned
        /\ Bulk(Points, board') - 4 * fours' - score' <= Bulk(Points, board) - 4 * fours - score
        /\ ~starved' => /\ ~starved
                        /\ Bulk(Points, board') - 4 * fours' - score' =
                             Bulk(Points, board) - 4 * fours - score
    BY <1>4, <2>1, ArrowEffect
  <2>4. \/ board' = board /\ state' = state
        \/ /\ \E x \in Cells : board'[x] # 0
           /\ \/ can_move(board') /\ state' = state
              \/ ~can_move(board') /\ state' = "name"
    BY <1>4, <2>1, ArrowEffect
  <2>5. Bulk(Points, board') \in Int
    BY <2>3, Measures, BulkInt
  <2>6. Bulk(Face, board') = spawned'
    <3>1. Bulk(Face, board') = spawned + spawned' - spawned
      BY <2>2, <2>3
    <3>2. spawned + spawned' - spawned = spawned'
      BY <2>1, <2>3, Cancel, Zenon
    <3>. QED
      BY <3>1, <3>2, Zenon
  <2>7. /\ Due \in Int /\ Due' \in Int /\ score \in Int /\ score' \in Int
    <3>1. Due \in Int /\ Due' \in Int
      BY <2>1, <2>3, <2>5 DEF Due
    <3>. QED
      BY <2>1, <2>3, <3>1
  <2>8. Covers(score', Due', starved')
    <3>1. Pays(Due, score, starved, Due', score', starved')
      BY <2>3, Zenon DEF Pays, Due
    <3>. QED
      BY <2>2, <2>7, <3>1, StaysCovered
  <2>9. /\ \E x \in Cells : board'[x] # 0
        /\ state' = "game" => can_move(board')
        /\ state' = "name" => ~can_move(board')
    BY <2>1, <2>2, <2>4
  <2>. QED
    BY <2>6, <2>8, <2>9 DEF GameInv
<1>5. CASE NameEnter
  BY <1>2, <1>5, NameEntered DEF Ended
<1>. QED
  BY <1>1, <1>2, <1>3, <1>4, <1>5
     DEF Next, vars, Launch, Quit, Ended, Escape, MenuMove, CursorLeft, CursorRight, Backspace, TypeLetter

LEMMA GameAlways == Spec => [](TypeInv /\ GameInv)
<1>1. Init => GameInv
  BY DEF Init, GameInv
<1>. QED
  BY <1>1, TypeInit, TypeStep, GameStep, PTL DEF Spec

\* Moves neither lose nor make tiles, on a board of any size, with any of
\* their allocations failing.
THEOREM TilesStay == Spec => []TilesConserved
<1>1. TypeInv /\ GameInv => TilesConserved
  BY PropertySums DEF TypeInv, GameInv, TilesConserved
<1>. QED
  BY <1>1, GameAlways, PTL

\* The score is what the tiles on the board took to be joined.
THEOREM ScoreIsEarned == Spec => []ScoreBalanced
<1>1. TypeInv /\ GameInv => ScoreBalanced
  <2>. SUFFICES ASSUME TypeInv, GameInv, state \in {"game", "name"}
                PROVE  LET due == Summed([c \in Cells |-> Worth(board[c])]) - 4 * fours IN
                       IF starved THEN score >= due ELSE score = due
    BY DEF ScoreBalanced
  <2>1. Summed([c \in Cells |-> Worth(board[c])]) = Bulk(Points, board)
    BY PropertySums DEF TypeInv
  <2>2. Due <= score /\ (~starved => score = Due)
    BY DEF GameInv, Covers
  <2>. QED
    BY <2>1, <2>2 DEF Due
<1>. QED
  BY <1>1, GameAlways, PTL

\* can_move tells whether a key changes the board, so that the game is called
\* over when and only when it is.
THEOREM OverInTime == Spec => []OverWhenStuck
<1>1. TypeInv /\ GameInv => OverWhenStuck
  BY StuckIsDead, MovableIsAlive DEF TypeInv, GameInv, OverWhenStuck
<1>. QED
  BY <1>1, GameAlways, PTL
-----------------------------------------------------------------------------
(* A line and the rule *)

\* What Rule computes from the back.
IsRule(rule, s) ==
    /\ rule \in [0..Len(s) -> Seq(Value)] /\ rule[0] = <<>>
    /\ \A n \in 1..Len(s) :
         rule[n] = IF n > 1 /\ s[Len(s) - n + 1] = s[Len(s) - n + 2]
                   THEN <<2 * s[Len(s) - n + 1]>> \o rule[n - 2]
                   ELSE <<s[Len(s) - n + 1]>> \o rule[n - 1]

\* One step of it, from what the last n - 1 and the last n - 2 tiles give.
RuleStep(s, n, one, two) ==
    IF n > 1 /\ s[Len(s) - n + 1] = s[Len(s) - n + 2]
    THEN <<2 * s[Len(s) - n + 1]>> \o two
    ELSE <<s[Len(s) - n + 1]>> \o one

LEMMA RuleStepType ==
    ASSUME NEW s \in Seq(Value), NEW n \in 1..Len(s),
           NEW one \in Seq(Value), NEW two \in Seq(Value)
    PROVE  RuleStep(s, n, one, two) \in Seq(Value)
<1> DEFINE v == s[Len(s) - n + 1]
<1>1. Len(s) \in Nat
  BY LenProperties
<1>2. Len(s) - n + 1 \in 1..Len(s)
  BY <1>1
<1>3. v \in Value
  BY <1>2, ElementOfSeq
<1>4. 2 * v \in Value
  BY <1>3 DEF Value
<1> HIDE DEF v
<1>5. <<v>> \in Seq(Value) /\ <<2 * v>> \in Seq(Value)
  BY <1>3, <1>4
<1>6. <<v>> \o one \in Seq(Value) /\ <<2 * v>> \o two \in Seq(Value)
  BY <1>5, ConcatProperties
<1>. QED
  BY <1>6 DEF RuleStep, v

LEMMA RuleExists ==
    ASSUME NEW s \in Seq(Value)
    PROVE  \E rule : IsRule(rule, s) /\ Rule(s) = rule[Len(s)]
<1> DEFINE N == Len(s)
           Both == Seq(Value) \X Seq(Value)
           start == <<<<>>, <<>>>>
           Rec(f) == f = [n \in 0..N |-> IF n = 0 THEN <<>> ELSE RuleStep(s, n, f[n - 1], f[n - 2])]
           step == [n \in 1..N |-> [p \in Both |-> <<RuleStep(s, n, p[1], p[2]), p[1]>>]]
           F == CHOOSE f : Rec(f)
<1>0. N \in Nat /\ start \in Both
  <2>1. N \in Nat
    BY LenProperties
  <2>2. <<>> \in Seq(Value)
    OBVIOUS
  <2>. QED
    BY <2>1, <2>2
<1>1. Rule(s) = F[N]
  <2>1. \A n \in 0..N : N - n + 1 + 1 = N - n + 2
    BY <1>0
  <2> DEFINE R(f) == f = [n \in 0..N |->
                 IF n = 0 THEN <<>>
                 ELSE IF n > 1 /\ s[N - n + 1] = s[N - n + 1 + 1]
                      THEN <<2 * s[N - n + 1]>> \o f[n - 2]
                      ELSE <<s[N - n + 1]>> \o f[n - 1]]
  <2>2. Rule(s) = (CHOOSE f : R(f))[N]
    BY DEF Rule
  <2>3. \A f : R(f) <=> Rec(f)
    BY <2>1 DEF RuleStep
  <2> HIDE DEF R, Rec
  <2>4. (CHOOSE f : R(f)) = (CHOOSE f : Rec(f))
    BY <2>3
  <2>. QED
    BY <2>2, <2>4 DEF F
<1> HIDE DEF F, start
<1>2. \A n \in 1..N, p \in Both : <<RuleStep(s, n, p[1], p[2]), p[1]>> \in Both
  BY RuleStepType
<1>3. PICK h : Recurses(h, N, Both, start, step)
  <2>1. Steps(step, N, Both)
    BY <1>2 DEF Steps
  <2> HIDE DEF step, N, Both
  <2>. QED
    BY <1>0, <2>1, Recursion
<1>4. /\ h \in [0..N -> Both] /\ h[0] = start
      /\ \A n \in 1..N : h[n] = <<RuleStep(s, n, h[n - 1][1], h[n - 1][2]), h[n - 1][1]>>
  <2>1. h \in [0..N -> Both] /\ h[0] = start /\ \A n \in 1..N : h[n] = step[n][h[n - 1]]
    BY <1>3 DEF Recurses
  <2>2. \A n \in 1..N : n - 1 \in 0..N
    BY <1>0
  <2>. QED
    BY <2>1, <2>2
<1> HIDE DEF step
<1> DEFINE g == [n \in 0..N |-> h[n][1]]
<1>5. \A n \in 1..N : g[n] = RuleStep(s, n, g[n - 1], g[n - 2])
  <2> SUFFICES ASSUME NEW n \in 1..N PROVE g[n] = RuleStep(s, n, g[n - 1], g[n - 2])
    OBVIOUS
  <2>1. n \in 0..N /\ n - 1 \in 0..N
    BY <1>0
  <2>2. g[n] = RuleStep(s, n, h[n - 1][1], h[n - 1][2]) /\ g[n - 1] = h[n - 1][1]
    BY <1>4, <2>1
  <2>3. CASE n > 1
    <3>1. n - 1 \in 1..N /\ n - 2 \in 0..N /\ (n - 1) - 1 = n - 2
      BY <1>0, <2>3
    <3>2. h[n - 1][2] = h[n - 2][1]
      BY <1>4, <3>1
    <3>. QED
      BY <2>2, <3>1, <3>2
  <2>4. CASE ~(n > 1)
    BY <2>2, <2>4 DEF RuleStep
  <2>. QED
    BY <2>3, <2>4
<1>6. g[0] = <<>>
  BY <1>0, <1>4 DEF start
<1>7. Rec(g)
  <2>1. \A n \in 0..N : n # 0 => n \in 1..N
    BY <1>0
  <2>2. \A n \in 0..N : g[n] = IF n = 0 THEN <<>> ELSE RuleStep(s, n, g[n - 1], g[n - 2])
    BY <1>5, <1>6, <2>1
  <2>. QED
    BY <2>2
<1> HIDE DEF g
<1>8. Rec(F)
  BY <1>7 DEF F
<1>9. F[0] = <<>> /\ \A n \in 1..N : F[n] = RuleStep(s, n, F[n - 1], F[n - 2])
  <2>1. 0 \in 0..N /\ \A n \in 1..N : n \in 0..N /\ n # 0
    BY <1>0
  <2>. QED
    BY <1>8, <2>1
<1> DEFINE T == {n \in Nat : n <= N => F[n] \in Seq(Value) /\ (n > 0 => F[n - 1] \in Seq(Value))}
<1>10. 0 \in T
  <2>1. <<>> \in Seq(Value)
    OBVIOUS
  <2>2. ~(0 > 0)
    OBVIOUS
  <2> HIDE DEF N
  <2>. QED
    BY <1>9, <2>1, <2>2
<1>11. ASSUME NEW n \in Nat, n \in T PROVE n + 1 \in T
  <2>1. ASSUME n + 1 <= N PROVE F[n + 1] \in Seq(Value)
    <3>1. n + 1 \in 1..N /\ (n + 1) - 1 = n /\ (n + 1) - 2 = n - 1 /\ F[n] \in Seq(Value)
      BY <1>0, <1>11, <2>1
    <3>2. F[n + 1] = RuleStep(s, n + 1, F[n], F[n - 1])
      BY <1>9, <3>1
    <3>3. CASE n > 0
      <4>1. F[n - 1] \in Seq(Value)
        BY <1>0, <1>11, <2>1, <3>3
      <4>. QED
        BY <3>1, <3>2, <4>1, RuleStepType
    <3>4. CASE n = 0
      <4>1. RuleStep(s, n + 1, F[n], F[n - 1]) = RuleStep(s, n + 1, F[n], <<>>)
        BY <3>4 DEF RuleStep
      <4>2. <<>> \in Seq(Value)
        OBVIOUS
      <4>. QED
        BY <3>1, <3>2, <4>1, <4>2, RuleStepType
    <3>. QED
      BY <3>3, <3>4
  <2>2. n + 1 <= N => n <= N /\ (n + 1) - 1 = n
    BY <1>0
  <2>. QED
    BY <1>11, <2>1, <2>2
<1>12. \A n \in Nat : n \in T
  <2> HIDE DEF T
  <2>. QED
    BY <1>10, <1>11, CountingUp
<1>13. F \in [0..N -> Seq(Value)]
  <2>1. \A n \in 0..N : F[n] \in Seq(Value)
    BY <1>0, <1>12
  <2>2. F = [n \in 0..N |-> F[n]]
    BY <1>8
  <2>. QED
    BY <2>1, <2>2
<1>14. IsRule(F, s)
  BY <1>9, <1>13 DEF IsRule, RuleStep
<1>. QED
  BY <1>1, <1>14

\* Of two lines that begin alike the loop that skips takes the same tiles.
LEMMA FrontSame ==
    ASSUME NEW a \in Lines, NEW b \in Lines, NEW f, NEW g, IsFront(f, a), IsFront(g, b),
           NEW m \in 0..GRID_SIZE, \A k \in 1..m : a[k] = b[k]
    PROVE  f[m] = g[m]
<1> DEFINE T == {n \in Nat : n <= m => f[n] = g[n]}
<1>1. 0 \in T
  BY DEF IsFront
<1>2. ASSUME NEW n \in Nat, n \in T PROVE n + 1 \in T
  <2>1. ASSUME n + 1 <= m PROVE f[n + 1] = g[n + 1]
    <3>1. n + 1 \in 1..m /\ n + 1 \in 1..GRID_SIZE /\ (n + 1) - 1 = n /\ f[n] = g[n]
      BY <1>2, <2>1, GridAssumption
    <3>2. a[n + 1] = b[n + 1]
      BY <3>1
    <3>. QED
      BY <3>1, <3>2 DEF IsFront
  <2>. QED
    BY <2>1
<1>3. \A n \in Nat : n \in T
  <2> HIDE DEF T
  <2>. QED
    BY <1>1, <1>2, CountingUp
<1>. QED
  BY <1>3

\* One tile more in front of what follows.
LEMMA Handed ==
    ASSUME NEW a \in Seq(Value), NEW b \in Seq(Value), NEW v \in Value
    PROVE  Append(a, v) \o b = a \o (<<v>> \o b)
<1>1. Append(a, v) = a \o <<v>> /\ <<v>> \in Seq(Value)
  BY AppendIsConcat
<1>. QED
  BY <1>1, ConcatAssociative

\* What is left for the rule after the loop that joins has looked at k pairs:
\* a tile that was joined with the one in front of it is not looked at again.
Rest(rule, m, temp, k) ==
    IF k >= m THEN <<>> ELSE IF temp[k + 1] # 0 THEN rule[m - k] ELSE rule[m - k - 1]
Behind(s, temp, k) ==
    /\ \A j \in k + 2..GRID_SIZE : temp[j] = Padded(s)[j]
    /\ temp[k + 1] \in {Padded(s)[k + 1], 0}
AsRuled(rule, s, temp, k) ==
    /\ Behind(s, temp, k)
    /\ \A f : IsFront(f, temp) => f[k] \o Rest(rule, Len(s), temp, k) = rule[Len(s)]

\* The tiles of a line.
AreTiles(s) ==
    /\ s \in Seq(Value) /\ Len(s) <= GRID_SIZE
    /\ \A k \in 1..Len(s) : s[k] # 0

LEMMA PaddedIs ==
    ASSUME NEW s, AreTiles(s)
    PROVE  /\ Len(s) \in Nat /\ Padded(s) \in Lines
           /\ \A k \in Lane : Padded(s)[k] = IF k <= Len(s) THEN s[k] ELSE 0
           /\ \A k \in Lane : Padded(s)[k] # 0 <=> k <= Len(s)
<1>1. Len(s) \in Nat /\ \A k \in 1..Len(s) : s[k] \in Value /\ s[k] # 0
  BY LenProperties, ElementOfSeq DEF AreTiles
<1>2. \A k \in Lane : k <= Len(s) => k \in 1..Len(s)
  BY <1>1 DEF Lane
<1>3. \A k \in Lane : Padded(s)[k] = IF k <= Len(s) THEN s[k] ELSE 0
  BY DEF Padded
<1>4. Padded(s) \in Lines
  <2>1. 0 \in Value
    BY DEF Value
  <2>2. Padded(s) = [k \in Lane |-> Padded(s)[k]]
    BY DEF Padded
  <2>3. \A k \in Lane : Padded(s)[k] \in Value
    BY <1>1, <1>2, <1>3, <2>1
  <2>. QED
    BY <2>2, <2>3 DEF Lines
<1>. QED
  BY <1>1, <1>2, <1>3, <1>4

\* What joining does to the cells.
LEMMA JoinCells ==
    ASSUME NEW b \in Joining, NEW k \in 1..GRID_SIZE - 1
    PROVE  /\ JoinAt(b, k) \in Joining /\ b.temp \in Lines /\ JoinAt(b, k).temp \in Lines
           /\ \A j \in Lane : j # k /\ j # k + 1 => JoinAt(b, k).temp[j] = b.temp[j]
           /\ Pair(b.temp, k) => JoinAt(b, k).temp[k] = 2 * b.temp[k] /\ JoinAt(b, k).temp[k + 1] = 0
           /\ ~Pair(b.temp, k) => JoinAt(b, k) = b
<1>1. k \in Lane /\ k + 1 \in Lane /\ k # k + 1
  BY GridAssumption DEF Lane
<1>2. JoinAt(b, k) \in Joining /\ (~Pair(b.temp, k) => JoinAt(b, k) = b)
  BY JoinAtIs
<1>3. Pair(b.temp, k) => JoinAt(b, k).temp = Join(b.temp, k)
  BY DEF JoinAt
<1>4. /\ \A j \in Lane : j # k /\ j # k + 1 => Join(b.temp, k)[j] = b.temp[j]
      /\ Join(b.temp, k)[k] = 2 * b.temp[k] /\ Join(b.temp, k)[k + 1] = 0
  BY <1>1 DEF Join
<1>5. b.temp \in Lines /\ JoinAt(b, k).temp \in Lines
  BY <1>2 DEF Joining
<1>. QED
  BY <1>2, <1>3, <1>4, <1>5

LEMMA RuledOn ==
    ASSUME NEW s, AreTiles(s), NEW rule, IsRule(rule, s),
           NEW b \in Joining, NEW k \in 1..GRID_SIZE - 1, AsRuled(rule, s, b.temp, k - 1)
    PROVE  AsRuled(rule, s, JoinAt(b, k).temp, k)
<1> DEFINE N == GRID_SIZE
           m == Len(s)
           p == Padded(s)
           t == b.temp
           d == JoinAt(b, k)
           u == d.temp
<1>1. /\ m \in Nat /\ m <= N /\ s \in Seq(Value)
      /\ \A j \in 1..m : s[j] \in Value /\ s[j] # 0
      /\ \A j \in Lane : p[j] = IF j <= m THEN s[j] ELSE 0
  BY PaddedIs, ElementOfSeq DEF AreTiles
<1>2. /\ Lane = 1..N /\ N \in Nat /\ k \in Nat /\ k \in Lane /\ k + 1 \in Lane /\ k >= 1
      /\ (k - 1) + 1 = k /\ (k - 1) + 2 = k + 1
  BY GridAssumption DEF Lane
<1>3. /\ t \in Lines /\ u \in Lines
      /\ \A j \in Lane : j # k /\ j # k + 1 => u[j] = t[j]
      /\ Pair(t, k) => u[k] = 2 * t[k] /\ u[k + 1] = 0
      /\ ~Pair(t, k) => u = t
  <2>1. /\ d \in Joining /\ t \in Lines /\ u \in Lines
        /\ \A j \in Lane : j # k /\ j # k + 1 => u[j] = t[j]
        /\ Pair(t, k) => u[k] = 2 * t[k] /\ u[k + 1] = 0
        /\ ~Pair(t, k) => d = b
    BY JoinCells
  <2>. QED
    BY <2>1
<1>4. /\ \A j \in k + 1..N : t[j] = p[j]
      /\ t[k] \in {p[k], 0}
      /\ \A f : IsFront(f, t) => f[k - 1] \o Rest(rule, m, t, k - 1) = rule[m]
  BY <1>2 DEF AsRuled, Behind
<1>5. /\ rule \in [0..m -> Seq(Value)] /\ rule[0] = <<>>
      /\ \A n \in 1..m : rule[n] = IF n > 1 /\ s[m - n + 1] = s[m - n + 2]
                                   THEN <<2 * s[m - n + 1]>> \o rule[n - 2]
                                   ELSE <<s[m - n + 1]>> \o rule[n - 1]
  BY DEF IsRule
<1> HIDE DEF m, p, t, d, u, N
<1>6. Behind(s, u, k)
  <2>1. \A j \in k + 2..N : u[j] = p[j]
    BY <1>2, <1>3, <1>4
  <2>2. u[k + 1] \in {p[k + 1], 0}
    BY <1>2, <1>3, <1>4
  <2>. QED
    BY <2>1, <2>2 DEF Behind, p, N
<1>7. t[k + 1] = p[k + 1]
  BY <1>2, <1>4
<1>8. ASSUME NEW g, IsFront(g, u) PROVE g[k] \o Rest(rule, m, u, k) = rule[m]
  <2>1. PICK f : IsFront(f, t)
    BY <1>3, FrontExists
  <2>2. f[k - 1] = g[k - 1]
    <3>1. k - 1 \in 0..GRID_SIZE /\ \A j \in 1..k - 1 : t[j] = u[j]
      BY <1>2, <1>3 DEF N
    <3>. QED
      BY <1>3, <1>8, <2>1, <3>1, FrontSame
  <2> DEFINE a == g[k - 1]
  <2>3. /\ a \in Seq(Value) /\ g[k] = IF u[k] = 0 THEN a ELSE Append(a, u[k])
        /\ a \o Rest(rule, m, t, k - 1) = rule[m]
    <3>1. k - 1 \in 0..GRID_SIZE /\ k \in 1..GRID_SIZE
      BY <1>2 DEF N
    <3>. QED
      BY <1>4, <1>8, <2>1, <2>2, <3>1 DEF IsFront
  <2>4. Rest(rule, m, t, k - 1) =
          IF k > m THEN <<>> ELSE IF t[k] # 0 THEN rule[m - k + 1] ELSE rule[m - k]
    <3>1. m - (k - 1) = m - k + 1 /\ m - (k - 1) - 1 = m - k /\ (k - 1 >= m <=> k > m)
      BY <1>1, <1>2
    <3>. QED
      BY <1>2, <3>1 DEF Rest
  <2>5. Rest(rule, m, u, k) =
          IF k >= m THEN <<>> ELSE IF u[k + 1] # 0 THEN rule[m - k] ELSE rule[m - k - 1]
    BY DEF Rest
  <2> HIDE DEF a
  <2>6. CASE k > m
    <3>1. t[k] = 0 /\ k >= m
      BY <1>1, <1>2, <1>4, <2>6
    <3>2. u = t
      BY <1>3, <3>1 DEF Pair
    <3>. QED
      BY <2>3, <2>4, <2>5, <2>6, <3>1, <3>2
  <2>7. CASE k <= m /\ t[k] = 0
    <3>1. u = t /\ g[k] = a
      BY <1>3, <2>3, <2>7 DEF Pair
    <3>2. a \o rule[m - k] = rule[m]
      <4>1. ~(k > m)
        BY <1>1, <1>2, <2>7
      <4>. QED
        BY <2>3, <2>4, <2>7, <4>1
    <3>3. CASE k = m
      <4>1. m - k = 0 /\ k >= m
        BY <1>1, <3>3
      <4>2. rule[m - k] = <<>>
        BY <1>5, <4>1
      <4>3. Rest(rule, m, u, k) = <<>>
        BY <2>5, <4>1
      <4>. QED
        BY <3>1, <3>2, <4>2, <4>3
    <3>4. CASE k < m
      <4>1. u[k + 1] # 0 /\ ~(k >= m)
        BY <1>1, <1>2, <1>7, <3>1, <3>4
      <4>. QED
        BY <2>5, <3>1, <3>2, <4>1
    <3>. QED
      BY <1>1, <1>2, <2>7, <3>3, <3>4
  <2>8. CASE k <= m /\ t[k] # 0
    <3> DEFINE n == m - k + 1
               v == s[k]
    <3>1. /\ n \in 1..m /\ m - n + 1 = k /\ m - n + 2 = k + 1 /\ n - 1 = m - k /\ n - 2 = m - k - 1
          /\ k \in 1..m
      BY <1>1, <1>2, <2>8
    <3>2. v \in Value /\ v # 0 /\ t[k] = v /\ 2 * v \in Value /\ 2 * v # 0
      <4>1. v \in Value /\ v # 0 /\ t[k] = v
        BY <1>1, <1>2, <1>4, <2>8, <3>1
      <4>. QED
        BY <4>1 DEF Value
    <3>3. a \o rule[n] = rule[m]
      <4>1. ~(k > m)
        BY <1>1, <1>2, <2>8
      <4>. QED
        BY <2>3, <2>4, <2>8, <4>1
    <3>4. rule[n] = IF n > 1 /\ v = s[k + 1] THEN <<2 * v>> \o rule[m - k - 1]
                    ELSE <<v>> \o rule[m - k]
      BY <1>5, <3>1
    <3>5. rule[m - k] \in Seq(Value) /\ (n > 1 => rule[m - k - 1] \in Seq(Value))
      <4>1. m - k \in 0..m /\ (n > 1 => m - k - 1 \in 0..m)
        BY <1>1, <1>2, <3>1
      <4>. QED
        BY <1>5, <4>1
    <3>6. n > 1 <=> k < m
      BY <1>1, <1>2, <3>1
    <3> HIDE DEF n, v
    <3>7. CASE Pair(t, k)
      <4>1. t[k + 1] = v /\ u[k] = 2 * v /\ u[k + 1] = 0
        BY <1>3, <3>2, <3>7 DEF Pair
      <4>2. k < m /\ s[k + 1] = v
        <5>1. p[k + 1] = v /\ v # 0
          BY <1>7, <3>2, <4>1
        <5>. QED
          BY <1>1, <1>2, <5>1
      <4>3. rule[n] = <<2 * v>> \o rule[m - k - 1]
        BY <3>4, <3>6, <4>2
      <4>4. Rest(rule, m, u, k) = rule[m - k - 1]
        <5>1. ~(k >= m)
          BY <1>1, <1>2, <4>2
        <5>. QED
          BY <2>5, <4>1, <5>1
      <4>5. g[k] = Append(a, 2 * v)
        BY <2>3, <3>2, <4>1
      <4>6. g[k] \o rule[m - k - 1] = a \o (<<2 * v>> \o rule[m - k - 1])
        <5> DEFINE x == rule[m - k - 1]
                   y == 2 * v
        <5>1. x \in Seq(Value) /\ y \in Value /\ a \in Seq(Value) /\ g[k] = Append(a, y)
          BY <2>3, <3>2, <3>5, <3>6, <4>2, <4>5
        <5> HIDE DEF x, y
        <5>2. g[k] \o x = a \o (<<y>> \o x)
          BY <5>1, Handed
        <5>. QED
          BY <5>2 DEF x, y
      <4>. QED
        BY <3>3, <4>3, <4>4, <4>6
    <3>8. CASE ~Pair(t, k)
      <4>1. u = t /\ t[k + 1] # v
        BY <1>3, <3>2, <3>8 DEF Pair
      <4>2. ~(n > 1 /\ v = s[k + 1])
        <5>1. k < m => p[k + 1] = s[k + 1]
          BY <1>1, <1>2
        <5>. QED
          BY <1>7, <3>6, <4>1, <5>1
      <4>3. rule[n] = <<v>> \o rule[m - k]
        BY <3>4, <4>2
      <4>4. Rest(rule, m, u, k) = rule[m - k]
        <5>1. CASE k < m
          <6>1. u[k + 1] # 0 /\ ~(k >= m)
            BY <1>1, <1>2, <1>7, <4>1, <5>1
          <6>. QED
            BY <2>5, <6>1
        <5>2. CASE k = m
          <6>1. m - k = 0 /\ k >= m
            BY <1>1, <5>2
          <6>. QED
            BY <1>5, <2>5, <6>1
        <5>. QED
          BY <1>1, <1>2, <2>8, <5>1, <5>2
      <4>5. g[k] = Append(a, v)
        BY <2>3, <3>2, <4>1
      <4>6. g[k] \o rule[m - k] = a \o (<<v>> \o rule[m - k])
        <5> DEFINE x == rule[m - k]
        <5>1. x \in Seq(Value) /\ v \in Value /\ a \in Seq(Value) /\ g[k] = Append(a, v)
          BY <2>3, <3>2, <3>5, <4>5
        <5> HIDE DEF x
        <5>2. g[k] \o x = a \o (<<v>> \o x)
          BY <5>1, Handed
        <5>. QED
          BY <5>2 DEF x
      <4>. QED
        BY <3>3, <4>3, <4>4, <4>6
    <3>. QED
      BY <3>7, <3>8
  <2>. QED
    BY <1>1, <1>2, <2>6, <2>7, <2>8
<1>. QED
  BY <1>6, <1>8 DEF AsRuled, m, u, d

\* The line that the loop leaves has the tiles of the rule.
LEMMA JoinedAsRuled ==
    ASSUME NEW s, AreTiles(s)
    PROVE  Tiles(Joined(Padded(s)).temp) = Rule(s)
<1> DEFINE N == GRID_SIZE
           m == Len(s)
           p == Padded(s)
<1>1. m \in Nat /\ m <= N /\ p \in Lines /\ s \in Seq(Value) /\ N \in Nat /\ N >= 2 /\ Lane = 1..N
  BY PaddedIs, GridAssumption DEF AreTiles, Lane
<1>2. PICK rule : IsRule(rule, s) /\ Rule(s) = rule[m]
  BY <1>1, RuleExists
<1>3. PICK after : IsAfter(after, p) /\ Joined(p) = after[N - 1]
  BY <1>1, AfterExists
<1>4. rule \in [0..m -> Seq(Value)] /\ rule[0] = <<>>
  BY <1>2 DEF IsRule
<1> HIDE DEF m, p, N
<1> DEFINE T == {n \in Nat : n <= N - 1 => AsRuled(rule, s, after[n].temp, n)}
<1>5. 0 \in T
  <2>1. after[0].temp = p
    BY <1>3 DEF IsAfter
  <2>2. Behind(s, p, 0)
    BY DEF Behind, p
  <2>3. ASSUME NEW f, IsFront(f, p) PROVE f[0] \o Rest(rule, m, p, 0) = rule[m]
    <3>1. f[0] = <<>>
      BY <2>3 DEF IsFront
    <3>2. Rest(rule, m, p, 0) = rule[m]
      <4>1. CASE m = 0
        BY <1>4, <4>1 DEF Rest
      <4>2. CASE m > 0
        <5>1. 1 \in Lane /\ 1 <= m
          BY <1>1, <4>2
        <5>2. p[1] # 0
          BY <5>1, PaddedIs DEF p, m
        <5>3. 0 + 1 = 1 /\ m - 0 = m /\ ~(0 >= m)
          BY <1>1, <4>2
        <5>. QED
          BY <5>2, <5>3 DEF Rest
      <4>. QED
        BY <1>1, <4>1, <4>2
    <3>3. rule[m] \in Seq(Value)
      BY <1>1, <1>4
    <3>. QED
      BY <3>1, <3>2, <3>3, ConcatEmptySeq
  <2>. QED
    BY <2>1, <2>2, <2>3 DEF AsRuled, m
<1>6. ASSUME NEW n \in Nat, n \in T PROVE n + 1 \in T
  <2>1. ASSUME n + 1 <= N - 1 PROVE AsRuled(rule, s, after[n + 1].temp, n + 1)
    <3>1. n + 1 \in 1..GRID_SIZE - 1 /\ (n + 1) - 1 = n /\ n \in 0..GRID_SIZE - 1 /\ n <= N - 1
      BY <1>1, <2>1 DEF N
    <3>2. after[n] \in Joining /\ after[n + 1] = JoinAt(after[n], n + 1)
      BY <1>3, <3>1 DEF IsAfter
    <3>3. AsRuled(rule, s, after[n].temp, (n + 1) - 1)
      BY <1>6, <3>1
    <3>. QED
      BY <1>2, <3>1, <3>2, <3>3, RuledOn
  <2>. QED
    BY <2>1
<1>7. \A n \in Nat : n \in T
  <2> HIDE DEF T
  <2>. QED
    BY <1>5, <1>6, CountingUp
<1> DEFINE t == after[N - 1].temp
<1>8. AsRuled(rule, s, t, N - 1)
  <2>1. N - 1 \in Nat /\ N - 1 <= N - 1
    BY <1>1
  <2>. QED
    BY <1>7, <2>1
<1>9. t \in Lines
  <2>1. N - 1 \in 0..GRID_SIZE - 1
    BY <1>1 DEF N
  <2>. QED
    BY <1>3, <2>1 DEF IsAfter, Joining
<1> HIDE DEF T, t
<1>10. PICK f : IsFront(f, t) /\ Tiles(t) = f[N]
  BY <1>9, FrontExists DEF N
<1>11. f[N - 1] \o Rest(rule, m, t, N - 1) = rule[m]
  BY <1>8, <1>10 DEF AsRuled, m
<1>12. f[N - 1] \in Seq(Value) /\ f[N] = IF t[N] = 0 THEN f[N - 1] ELSE Append(f[N - 1], t[N])
  <2>1. N - 1 \in 0..GRID_SIZE /\ N \in 1..GRID_SIZE
    BY <1>1 DEF N
  <2>. QED
    BY <1>10, <2>1 DEF IsFront
<1>13. t[N] \in {p[N], 0} /\ (m < N => t[N] = 0) /\ (t[N] # 0 => t[N] = s[N])
  <2>1. (N - 1) + 1 = N /\ N \in Lane
    BY <1>1
  <2>2. t[N] \in {p[N], 0}
    BY <1>8, <2>1 DEF AsRuled, Behind, p
  <2>3. p[N] = IF N <= m THEN s[N] ELSE 0
    BY <2>1, PaddedIs DEF p, m
  <2>. QED
    BY <1>1, <2>2, <2>3
<1>14. f[N] = rule[m]
  <2>1. CASE m < N
    <3>1. N - 1 >= m
      BY <1>1, <2>1
    <3>2. Rest(rule, m, t, N - 1) = <<>>
      BY <3>1 DEF Rest
    <3>. QED
      BY <1>11, <1>12, <1>13, <2>1, <3>2, ConcatEmptySeq
  <2>2. CASE m = N
    <3>1. ~(N - 1 >= m) /\ (N - 1) + 1 = N /\ m - (N - 1) = 1 /\ m - (N - 1) - 1 = 0
      BY <1>1, <2>2
    <3>2. Rest(rule, m, t, N - 1) = IF t[N] # 0 THEN rule[1] ELSE rule[0]
      BY <3>1 DEF Rest
    <3>3. CASE t[N] = 0
      BY <1>4, <1>11, <1>12, <3>2, <3>3, ConcatEmptySeq
    <3>4. CASE t[N] # 0
      <4>1. rule[1] = <<s[N]>>
        <5>1. 1 \in 1..m /\ m - 1 + 1 = N /\ ~(1 > 1)
          BY <1>1, <2>2
        <5>2. rule[1] = <<s[N]>> \o rule[0]
          <6>1. rule[1] = IF 1 > 1 /\ s[m - 1 + 1] = s[m - 1 + 2]
                          THEN <<2 * s[m - 1 + 1]>> \o rule[1 - 2]
                          ELSE <<s[m - 1 + 1]>> \o rule[1 - 1]
            BY <1>2, <5>1 DEF IsRule, m
          <6>2. 1 - 1 = 0
            OBVIOUS
          <6>. QED
            BY <5>1, <6>1, <6>2
        <5>3. s[N] \in Value
          <6>1. N \in 1..Len(s)
            BY <1>1, <2>2 DEF m
          <6>. QED
            BY <1>1, <6>1, ElementOfSeq
        <5>4. <<s[N]>> \in Seq(Value)
          BY <5>3
        <5>. QED
          BY <1>4, <5>2, <5>4, ConcatEmptySeq
      <4>2. t[N] \in Value
        BY <1>1, <1>9 DEF Lines
      <4>3. Append(f[N - 1], t[N]) = f[N - 1] \o <<t[N]>>
        BY <1>12, <4>2, AppendIsConcat
      <4>. QED
        BY <1>11, <1>12, <1>13, <3>2, <3>4, <4>1, <4>3
    <3>. QED
      BY <3>3, <3>4
  <2>. QED
    BY <1>1, <2>1, <2>2
<1>. QED
  BY <1>2, <1>3, <1>10, <1>14 DEF p, t

(* A line of any length with any tiles becomes what the rule of the game   *)
(* says: its tiles from the front, each joined once at most, and then the  *)
(* empty cells.  The move counts as one exactly if something changed.      *)
THEOREM LinesAreRuled ==
    ASSUME NEW line \in Lines
    PROVE  /\ process_line(line, "both").line = Padded(Rule(Tiles(line)))
           /\ process_line(line, "both").changed <=> process_line(line, "both").line # line
<1> DEFINE s == Tiles(line)
           r == process_line(line, "both")
           t == Joined(Padded(s)).temp
<1>1. AreTiles(s)
  <2>1. PICK front : IsFront(front, line) /\ s = front[GRID_SIZE]
    BY FrontExists
  <2>2. GRID_SIZE \in 0..GRID_SIZE
    BY GridAssumption
  <2>3. UpTo(front, line, GRID_SIZE) /\ s \in Seq(Value)
    BY <2>1, <2>2, FrontGrows DEF IsFront
  <2>. QED
    BY <2>1, <2>3 DEF UpTo, AreTiles
<1>2. Tiles(t) = Rule(s)
  BY <1>1, JoinedAsRuled
<1>3. r.line = Shifted(t) /\ (r.changed <=> line # Shifted(t))
  BY DEF process_line, Shifted
<1>4. Shifted(t) = Padded(Rule(s))
  BY <1>2 DEF Shifted
<1>. QED
  BY <1>3, <1>4
=============================================================================
