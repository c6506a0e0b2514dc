------------------------- MODULE RsdkFormat_proofs -------------------------
(***************************************************************************)
(* Lemmas about RsdkFormat, for both modules about the recorder: a frame   *)
(* that is appended goes on with the tiling of a segment, and the player   *)
(* returns the frames of a segment whose records tile its extent.          *)
(***************************************************************************)
EXTENDS RsdkFormat, SequenceTheorems, NaturalsInduction, WellFoundedInduction, TLAPS

(***************************************************************************)
(* A frame written behind the records of a segment goes on with its tiling *)
(* of the chunk; records further on do not matter to it.                   *)
(***************************************************************************)
LEMMA TiledSame ==
  ASSUME NEW e \in IndexSlot, NEW m \in Nat, e.bytes <= m, e.endOff < e.bytes,
         NEW p \in [Unit -> Cell], NEW q \in [Unit -> Cell],
         \A u \in Unit : u < m => q[u] = p[u], Tiled(p, e)
  PROVE  Tiled(q, e)
<1>1. e.bytes \in 0 .. ChunkUnits /\ e.endOff \in Nat /\ ChunkUnits \in Nat
  BY FormatAssumption DEF IndexSlot
<1>2. 0 \in Unit /\ q[0] = p[0]
  BY <1>1, FormatAssumption DEF Unit
<1>3. ASSUME NEW u \in Unit, u < e.bytes
      PROVE  /\ q[u].seg = e.seg
             /\ q[u].hdr = "yes" =>
                  LET v == u + q[u].len IN
                  /\ u < v /\ v <= e.bytes /\ u <= e.endOff /\ q[u].seq < e.count
                  /\ IF v < e.bytes THEN q[v].hdr = "yes" /\ q[v].seq = q[u].seq + 1
                     ELSE u = e.endOff /\ q[u].seq = e.count - 1
  <2>1. q[u] = p[u] /\ u \in Nat /\ p[u].len \in Nat
    BY <1>1, <1>3 DEF Unit, Cell
  <2>2. p[u].seg = e.seg
    BY <1>3 DEF Tiled
  <2>3. ASSUME p[u].hdr = "yes"
        PROVE  /\ u < u + p[u].len /\ u + p[u].len <= e.bytes /\ u <= e.endOff /\ p[u].seq < e.count
               /\ IF u + p[u].len < e.bytes
                  THEN q[u + p[u].len].hdr = "yes" /\ q[u + p[u].len].seq = p[u].seq + 1
                  ELSE u = e.endOff /\ p[u].seq = e.count - 1
    <3>1. /\ u < u + p[u].len /\ u + p[u].len <= e.bytes /\ u <= e.endOff /\ p[u].seq < e.count
          /\ IF u + p[u].len < e.bytes
             THEN p[u + p[u].len].hdr = "yes" /\ p[u + p[u].len].seq = p[u].seq + 1
             ELSE u = e.endOff /\ p[u].seq = e.count - 1
      BY <1>3, <2>3 DEF Tiled
    <3>2. u + p[u].len < e.bytes => u + p[u].len \in Unit /\ u + p[u].len < m
      BY <1>1, <2>1 DEF Unit
    <3>3. QED
      BY <3>1, <3>2
  <2>4. QED
    BY <2>1, <2>2, <2>3
<1>4. QED
  BY <1>2, <1>3 DEF Tiled

\* The segment e, on the cells p, grows by a record of n units to f, on q.
Prolongs(e, f, n) ==
  f.seg = e.seg /\ f.bytes = e.bytes + n /\ f.endOff = e.bytes /\ f.count = e.count + 1
Record(e, n, u) == [seg |-> e.seg, seq |-> e.count, len |-> n,
                    hdr |-> IF u = e.bytes THEN "yes" ELSE "no"]
Lengthened(e, n, p, q) ==
  \A u \in Unit : q[u] = IF u \in e.bytes .. e.bytes + n - 1 THEN Record(e, n, u) ELSE p[u]

LEMMA TilesOn ==
  ASSUME NEW e, e.bytes \in Nat, e.endOff \in Nat, e.count \in Nat,
         NEW f, NEW n \in Nat \ {0}, e.bytes + n <= ChunkUnits, Prolongs(e, f, n),
         NEW p \in [Unit -> Cell], NEW q \in [Unit -> Cell], Lengthened(e, n, p, q),
         (e.count = 0 /\ e.bytes = 0) \/ Tiled(p, e)
  PROVE  Tiled(q, f)
<1> DEFINE o == e.bytes
           k == e.count
<1>1. n \in Nat \ {0} /\ o \in Nat /\ k \in Nat /\ ChunkUnits \in Nat
  BY FormatAssumption
<1>2. f.seg = e.seg /\ f.bytes = o + n /\ f.endOff = o /\ f.count = k + 1
  BY DEF Prolongs
<1>3. e.seg = e.seg /\ e.bytes = o /\ e.endOff \in Nat /\ e.count = k /\ o + n <= ChunkUnits
  OBVIOUS
<1>4. \A u \in Unit : u \in o .. o + n - 1 =>
        /\ q[u].seg = e.seg /\ q[u].seq = k /\ q[u].len = n
        /\ q[u].hdr = "yes" <=> u = o
  BY DEF Lengthened, Record
<1>4a. \A u \in Unit : u \notin o .. o + n - 1 => q[u] = p[u]
  BY Zenon DEF Lengthened
<1>4b. (k = 0 /\ o = 0) \/ Tiled(p, e)
  OBVIOUS
<1> HIDE DEF o, k
<1>5. \A u \in Unit : u < o => q[u] = p[u]
  BY <1>1, <1>4a DEF Unit
<1>6. o \in Unit /\ 0 \in Unit /\ o \in o .. o + n - 1
  BY <1>1, <1>3 DEF Unit
<1>7. q[0].hdr = "yes" /\ q[0].seq = 0
  <2>1. CASE k = 0 /\ o = 0
    BY <1>4, <1>6, <2>1
  <2>2. CASE Tiled(p, e)
    <3>1. p[0].hdr = "yes" /\ p[0].seq = 0 /\ e.endOff < e.bytes
      BY <2>2 DEF Tiled
    <3>2. 0 < o
      BY <1>1, <1>3, <3>1
    <3>3. QED
      BY <1>5, <1>6, <3>1, <3>2
  <2>3. QED
    BY <1>4b, <2>1, <2>2
<1>8. ASSUME NEW u \in Unit, u < f.bytes
      PROVE  /\ q[u].seg = f.seg
             /\ q[u].hdr = "yes" =>
                  LET v == u + q[u].len IN
                  /\ u < v /\ v <= f.bytes /\ u <= f.endOff /\ q[u].seq < f.count
                  /\ IF v < f.bytes THEN q[v].hdr = "yes" /\ q[v].seq = q[u].seq + 1
                     ELSE u = f.endOff /\ q[u].seq = f.count - 1
  <2>1. u \in Nat /\ (u < o \/ u \in o .. o + n - 1)
    BY <1>1, <1>2, <1>8 DEF Unit
  <2>2. CASE u \in o .. o + n - 1
    <3>1. q[u].seg = e.seg /\ q[u].seq = k /\ q[u].len = n /\ (q[u].hdr = "yes" <=> u = o)
      BY <1>4, <2>2
    <3>2. k = f.count - 1
      BY <1>1, <1>2
    <3>3. u = o => /\ u < u + q[u].len /\ u + q[u].len = f.bytes
                   /\ u <= f.endOff /\ q[u].seq < f.count
                   /\ u = f.endOff /\ ~(u + q[u].len < f.bytes)
      BY <1>1, <1>2, <3>1
    <3>4. QED
      BY <1>1, <1>2, <3>1, <3>2, <3>3
  <2>3. CASE u < o
    <3>1. Tiled(p, e) /\ q[u] = p[u] /\ p[u].len \in Nat
      <4>1. ~(o = 0)
        BY <2>1, <2>3
      <4>2. Tiled(p, e)
        BY <1>4b, <4>1
      <4>3. q[u] = p[u] /\ p[u].len \in Nat
        BY <1>1, <1>5, <2>1, <2>3 DEF Cell
      <4>4. QED
        BY <4>2, <4>3
    <3>2. p[u].seg = e.seg
      BY <1>3, <2>3, <3>1 DEF Tiled
    <3>3. ASSUME p[u].hdr = "yes"
          PROVE  /\ u < u + p[u].len /\ u + p[u].len <= f.bytes /\ u + p[u].len < f.bytes
                 /\ u <= f.endOff /\ p[u].seq < f.count
                 /\ q[u + p[u].len].hdr = "yes" /\ q[u + p[u].len].seq = p[u].seq + 1
      <4> DEFINE v == u + p[u].len
      <4>1. /\ u < v /\ v <= o
            /\ IF v < o THEN p[v].hdr = "yes" /\ p[v].seq = p[u].seq + 1
               ELSE p[u].seq = k - 1
        BY <1>3, <2>3, <3>1, <3>3 DEF Tiled
      <4>2. v \in Nat /\ v <= f.bytes /\ v < f.bytes /\ p[u].seq \in Nat
        <5>1. p[u].seq \in Nat
          BY DEF Cell
        <5>2. v <= f.bytes /\ v < f.bytes
          BY <1>1, <1>2, <2>1, <3>1, <4>1
        <5>3. QED
          BY <2>1, <3>1, <5>1, <5>2
      <4>6. u <= f.endOff /\ p[u].seq < f.count
        <5>1. p[u].seq < e.count
          BY <1>3, <2>3, <3>1, <3>3 DEF Tiled
        <5>2. QED
          BY <1>1, <1>2, <1>3, <2>1, <2>3, <4>2, <5>1
      <4>3. CASE v < o
        BY <1>1, <1>5, <1>6, <4>1, <4>2, <4>3, <4>6 DEF Unit
      <4>4. CASE v = o
        <5>1. q[v].hdr = "yes" /\ q[v].seq = k
          BY <1>4, <1>6, <4>4
        <5>2. p[u].seq = k - 1
          BY <1>1, <4>1, <4>4
        <5>3. k = p[u].seq + 1
          BY <1>1, <4>2, <5>2
        <5>4. QED
          BY <4>1, <4>2, <4>6, <5>1, <5>3
      <4>5. QED
        BY <1>1, <4>1, <4>2, <4>3, <4>4, <4>6
    <3>4. QED
      BY <1>2, <3>1, <3>2, <3>3
  <2>4. QED
    BY <2>1, <2>2, <2>3
<1>9. f.endOff < f.bytes /\ 0 < f.count
  BY <1>1, <1>2
<1>10. QED
  BY <1>7, <1>8, <1>9 DEF Tiled

LEMMA TiledLike ==
  ASSUME NEW p, NEW e, NEW f, Tiled(p, e),
         f.seg = e.seg, f.bytes = e.bytes, f.endOff = e.endOff, f.count = e.count
  PROVE  Tiled(p, f)
BY DEF Tiled

-----------------------------------------------------------------------------
(* The player. *)

(***************************************************************************)
(* On records that tile the extent of a segment, the player's walk from    *)
(* the header of frame j returns the frames from j on.  The walk goes      *)
(* forward, so the function of the closed form below is the only one that  *)
(* satisfies its recursion.                                                *)
(***************************************************************************)
FromFrame(e, j) == [i \in 1 .. e.count - j |-> <<e.seg, j + i - 1>>]
Walked(cells, e) ==
  [off \in 0 .. ChunkUnits |->
     IF off > e.endOff \/ off >= ChunkUnits THEN <<>>
     ELSE IF cells[off].hdr = "no" THEN <<>>
     ELSE FromFrame(e, cells[off].seq)]

LEMMA FrameAhead ==
  ASSUME NEW s, NEW n \in Nat, NEW j \in Nat, j < n,
         NEW e, e.seg = s, e.count = n
  PROVE  FromFrame(e, j) = <<<<s, j>>>> \o FromFrame(e, j + 1)
<1> DEFINE T == {s} \X Nat
           a == FromFrame(e, j)
           b == FromFrame(e, j + 1)
           x == <<<<s, j>>>>
           m == n - (j + 1)
<1>1. m \in Nat /\ n - j \in Nat /\ n - j = 1 + m
  OBVIOUS
<1>2. a = [i \in 1 .. n - j |-> <<s, j + i - 1>>]
  BY DEF FromFrame
<1>3. b = [i \in 1 .. m |-> <<s, j + 1 + i - 1>>]
  BY DEF FromFrame
<1>4. \A i \in 1 .. n - j : <<s, j + i - 1>> \in T
  <2>1. \A i \in 1 .. n - j : j + i - 1 \in Nat
    OBVIOUS
  <2>2. QED
    BY <2>1
<1>5. \A i \in 1 .. m : <<s, j + 1 + i - 1>> \in T
  <2>1. \A i \in 1 .. m : j + 1 + i - 1 \in Nat
    OBVIOUS
  <2>2. QED
    BY <2>1
<1>6. <<s, j>> \in T
  OBVIOUS
<1> HIDE DEF T
<1>7. a \in Seq(T) /\ Len(a) = n - j
  <2>1. a \in [1 .. n - j -> T]
    BY <1>2, <1>4, Zenon
  <2> HIDE DEF a
  <2>2. QED
    BY <1>1, <2>1
<1>8. b \in Seq(T) /\ Len(b) = m
  <2>1. b \in [1 .. m -> T]
    BY <1>3, <1>5, Zenon
  <2> HIDE DEF b, m
  <2>2. QED
    BY <1>1, <2>1
<1>9. x \in Seq(T) /\ Len(x) = 1 /\ x[1] = <<s, j>>
  BY <1>6
<1>10. \A i \in 1 .. n - j : a[i] = <<s, j + i - 1>>
  BY <1>2
<1>11. \A i \in 1 .. m : b[i] = <<s, j + 1 + i - 1>>
  BY <1>3
<1> HIDE DEF a, b, x, m
<1>12. /\ x \o b \in Seq(T)
       /\ Len(x \o b) = 1 + m
       /\ \A i \in 1 .. 1 + m : (x \o b)[i] = IF i <= 1 THEN x[i] ELSE b[i - 1]
  <2>1. /\ x \o b \in Seq(T)
        /\ Len(x \o b) = Len(x) + Len(b)
        /\ \A i \in 1 .. Len(x) + Len(b) :
             (x \o b)[i] = IF i <= Len(x) THEN x[i] ELSE b[i - Len(x)]
    BY <1>8, <1>9, ConcatProperties, Zenon
  <2>2. QED
    BY <1>8, <1>9, <2>1, Zenon
<1>13. ASSUME NEW i \in 1 .. n - j PROVE a[i] = (x \o b)[i]
  <2>1. CASE i = 1
    <3>1. (x \o b)[i] = <<s, j>>
      BY <1>1, <1>9, <1>12, <2>1
    <3>2. j + i - 1 = j
      BY <2>1
    <3>3. QED
      BY <1>10, <3>1, <3>2
  <2>2. CASE i # 1
    <3>1. i - 1 \in 1 .. m
      BY <1>1, <2>2
    <3>2. (x \o b)[i] = b[i - 1]
      BY <1>1, <1>12, <2>2
    <3>3. j + 1 + (i - 1) - 1 = j + i - 1
      OBVIOUS
    <3>4. QED
      BY <1>10, <1>11, <3>1, <3>2, <3>3
  <2>3. QED
    BY <2>1, <2>2
<1>14. a = x \o b
  BY <1>1, <1>7, <1>12, <1>13, SeqEqual
<1>15. QED
  BY <1>14 DEF a, b, x

(***************************************************************************)
(* One step of the walk: what it returns at offset off, if it returns      *)
(* f[v] at a later offset v.                                               *)
(***************************************************************************)
StepFrom(cells, e, f, off) ==
  IF off > e.endOff \/ off >= ChunkUnits THEN <<>>
  ELSE IF cells[off].hdr = "no" THEN <<>>
  ELSE <<<<cells[off].seg, cells[off].seq>>>> \o f[off + cells[off].len]
IsWalk(cells, e, f) == f = [off \in 0 .. ChunkUnits |-> StepFrom(cells, e, f, off)]

\* Where the walk goes on: a frame header is followed by the next one, or by the end.
LEMMA HeaderAt ==
  ASSUME NEW cells \in [Unit -> Cell], NEW e \in IndexSlot, Tiled(cells, e),
         NEW off \in 0 .. ChunkUnits, ~(off > e.endOff \/ off >= ChunkUnits),
         cells[off].hdr # "no"
  PROVE  LET v == off + cells[off].len  j == cells[off].seq IN
         /\ cells[off].seg = e.seg /\ j \in Nat /\ j < e.count /\ e.count \in Nat
         /\ v \in 0 .. ChunkUnits /\ off < v
         /\ \/ /\ ~(v > e.endOff \/ v >= ChunkUnits)
               /\ cells[v].hdr = "yes" /\ cells[v].seq = j + 1
            \/ v > e.endOff /\ e.count = j + 1
<1> DEFINE v == off + cells[off].len
           j == cells[off].seq
<1>1. off \in Unit /\ off < e.bytes /\ e.bytes \in 0 .. ChunkUnits /\ e.endOff \in Nat
      /\ e.count \in Nat /\ e.endOff < e.bytes /\ ChunkUnits \in Nat
  BY FormatAssumption DEF Tiled, IndexSlot, Unit
<1>2. /\ \A u \in Unit : cells[u].hdr \in {"yes", "no"} /\ cells[u].len \in Nat /\ cells[u].seq \in Nat
  BY DEF Cell
<1>3. cells[off].hdr = "yes"
  BY <1>1, <1>2
<1>4. ASSUME NEW u \in Unit, u < e.bytes, cells[u].hdr = "yes"
      PROVE  /\ cells[u].seg = e.seg
             /\ u < u + cells[u].len /\ u + cells[u].len <= e.bytes
             /\ u <= e.endOff /\ cells[u].seq < e.count
             /\ IF u + cells[u].len < e.bytes
                THEN cells[u + cells[u].len].hdr = "yes"
                     /\ cells[u + cells[u].len].seq = cells[u].seq + 1
                ELSE u = e.endOff /\ cells[u].seq = e.count - 1
  BY <1>4 DEF Tiled
<1>5. /\ cells[off].seg = e.seg
      /\ off < v /\ v <= e.bytes /\ j < e.count
      /\ IF v < e.bytes THEN cells[v].hdr = "yes" /\ cells[v].seq = j + 1
         ELSE off = e.endOff /\ j = e.count - 1
  BY <1>1, <1>3, <1>4
<1>6. j \in Nat /\ cells[off].len \in Nat
  BY <1>1, <1>2
<1>7. CASE v < e.bytes
  <2>1. v \in Unit
    BY <1>1, <1>6, <1>7 DEF Unit
  <2>2. v <= e.endOff
    BY <1>4, <1>5, <1>7, <2>1
  <2>3. v \in 0 .. ChunkUnits /\ ~(v > e.endOff \/ v >= ChunkUnits)
    <3> HIDE DEF v
    <3>1. QED
      BY <1>1, <2>1, <2>2 DEF Unit
  <2>4. cells[v].hdr = "yes" /\ cells[v].seq = j + 1
    BY <1>5, <1>7
  <2>5. QED
    BY <1>1, <1>5, <1>6, <2>3, <2>4, Zenon
<1>8. CASE ~(v < e.bytes)
  <2>1. off = e.endOff /\ j = e.count - 1
    BY <1>5, <1>8
  <2>2. v \in 0 .. ChunkUnits
    BY <1>1, <1>5, <1>6
  <2>3. v > e.endOff
    BY <1>1, <1>5, <1>6, <2>1
  <2>4. e.count = j + 1
    BY <1>1, <1>6, <2>1
  <2> HIDE DEF v, j
  <2>5. QED
    BY <1>1, <1>5, <1>6, <2>2, <2>3, <2>4 DEF v, j
<1>9. QED
  BY <1>7, <1>8

\* The closed form satisfies the recursion of the walk.
LEMMA WalkedSteps ==
  ASSUME NEW cells \in [Unit -> Cell], NEW e \in IndexSlot, Tiled(cells, e)
  PROVE  IsWalk(cells, e, Walked(cells, e))
<1> DEFINE W == Walked(cells, e)
<1>1. ASSUME NEW off \in 0 .. ChunkUnits PROVE W[off] = StepFrom(cells, e, W, off)
  <2> DEFINE v == off + cells[off].len
             j == cells[off].seq
  <2>1. CASE off > e.endOff \/ off >= ChunkUnits
    BY <2>1 DEF Walked, StepFrom
  <2>2. CASE ~(off > e.endOff \/ off >= ChunkUnits) /\ cells[off].hdr = "no"
    BY <2>2 DEF Walked, StepFrom
  <2>3. CASE ~(off > e.endOff \/ off >= ChunkUnits) /\ cells[off].hdr # "no"
    <3>1. /\ cells[off].seg = e.seg /\ j \in Nat /\ j < e.count /\ e.count \in Nat
          /\ v \in 0 .. ChunkUnits /\ off < v
          /\ \/ /\ ~(v > e.endOff \/ v >= ChunkUnits)
                /\ cells[v].hdr = "yes" /\ cells[v].seq = j + 1
             \/ v > e.endOff /\ e.count = j + 1
      BY <2>3, HeaderAt
    <3>2. W[off] = FromFrame(e, j)
      BY <2>3 DEF Walked
    <3>3. StepFrom(cells, e, W, off) = <<<<e.seg, j>>>> \o W[v]
      BY <2>3, <3>1 DEF StepFrom
    <3>4. FromFrame(e, j) = <<<<e.seg, j>>>> \o FromFrame(e, j + 1)
      BY <3>1, FrameAhead
    <3>5. W[v] = FromFrame(e, j + 1)
      <4>1. CASE ~(v > e.endOff \/ v >= ChunkUnits) /\ cells[v].hdr = "yes" /\ cells[v].seq = j + 1
        <5> HIDE DEF v, j
        <5>1. QED
          BY <3>1, <4>1 DEF Walked
      <4>2. CASE v > e.endOff /\ e.count = j + 1
        <5>1. FromFrame(e, j + 1) = <<>>
          <6>1. 1 .. e.count - (j + 1) = {}
            BY <3>1, <4>2
          <6>2. QED
            BY <6>1 DEF FromFrame
        <5>2. W[v] = <<>>
          <6> HIDE DEF v, j
          <6>1. QED
            BY <3>1, <4>2 DEF Walked
        <5>3. QED
          BY <5>1, <5>2
      <4>3. QED
        BY <3>1, <4>1, <4>2
    <3>6. QED
      BY <3>2, <3>3, <3>4, <3>5
  <2>4. QED
    BY <2>1, <2>2, <2>3
<1>2. W = [off \in 0 .. ChunkUnits |-> W[off]]
  BY DEF Walked
<1> HIDE DEF W
<1>3. W = [off \in 0 .. ChunkUnits |-> StepFrom(cells, e, W, off)]
  BY <1>1, <1>2
<1>4. QED
  BY <1>3 DEF W, IsWalk

\* It is the only one: where two of them differ, they differ further on.
LEMMA WalkOnly ==
  ASSUME NEW cells \in [Unit -> Cell], NEW e \in IndexSlot, Tiled(cells, e),
         NEW f, IsWalk(cells, e, f), NEW g, IsWalk(cells, e, g)
  PROVE  \A off \in 0 .. ChunkUnits : f[off] = g[off]
<1> DEFINE Left == {n \in Nat : n <= ChunkUnits /\ f[ChunkUnits - n] # g[ChunkUnits - n]}
<1>1. \A off \in 0 .. ChunkUnits : f[off] = StepFrom(cells, e, f, off)
  BY DEF IsWalk
<1>2. \A off \in 0 .. ChunkUnits : g[off] = StepFrom(cells, e, g, off)
  BY DEF IsWalk
<1>3. ChunkUnits \in Nat
  BY FormatAssumption
<1>4. Left = {}
  <2>1. SUFFICES ASSUME Left # {} PROVE FALSE
    OBVIOUS
  <2>2. PICK n \in Left : \A m \in Left : ~(m < n)
    <3>1. Left \subseteq Nat
      OBVIOUS
    <3>2. PICK n \in Left : \A m \in Left : <<m, n>> \notin OpToRel(<, Nat)
      BY <2>1, <3>1, NatLessThanWellFounded, WFMin, Zenon
    <3>3. \A m \in Left : ~(m < n)
      BY <3>1, <3>2 DEF OpToRel
    <3>4. QED
      BY <3>3
  <2>3. n \in Nat /\ n <= ChunkUnits /\ f[ChunkUnits - n] # g[ChunkUnits - n]
    BY <2>2
  <2> DEFINE off == ChunkUnits - n
  <2>4. off \in 0 .. ChunkUnits
    BY <1>3, <2>3
  <2>5. CASE ~(off > e.endOff \/ off >= ChunkUnits) /\ cells[off].hdr # "no"
    <3> DEFINE v == off + cells[off].len
    <3>1. v \in 0 .. ChunkUnits /\ off < v
      <4> HIDE DEF off
      <4>1. QED
        BY <2>4, <2>5, HeaderAt
    <3>2. ChunkUnits - v \in Nat /\ ChunkUnits - v < n /\ ChunkUnits - v <= ChunkUnits
      <4> HIDE DEF v
      <4>1. QED
        BY <1>3, <2>3, <3>1
    <3>3. f[v] = g[v]
      <4>1. ChunkUnits - (ChunkUnits - v) = v
        <5> HIDE DEF v
        <5>1. QED
          BY <1>3, <3>1
      <4> HIDE DEF v
      <4>2. ChunkUnits - v \notin Left
        BY <2>2, <3>2
      <4>3. QED
        BY <3>2, <4>1, <4>2
    <3>4. f[off] = StepFrom(cells, e, f, off) /\ g[off] = StepFrom(cells, e, g, off)
      BY <1>1, <1>2, <2>4
    <3>5. StepFrom(cells, e, f, off) = StepFrom(cells, e, g, off)
      BY <3>3, Zenon DEF StepFrom
    <3>6. QED
      BY <2>3, <3>4, <3>5
  <2>6. CASE ~(~(off > e.endOff \/ off >= ChunkUnits) /\ cells[off].hdr # "no")
    <3>1. f[off] = StepFrom(cells, e, f, off) /\ g[off] = StepFrom(cells, e, g, off)
      BY <1>1, <1>2, <2>4
    <3>2. StepFrom(cells, e, f, off) = StepFrom(cells, e, g, off)
      <4> HIDE DEF off
      <4>1. QED
        BY <2>6, Zenon DEF StepFrom
    <3>3. QED
      BY <2>3, <3>1, <3>2
  <2>7. QED
    BY <2>5, <2>6
<1>5. ASSUME NEW off \in 0 .. ChunkUnits PROVE f[off] = g[off]
  <2>1. ChunkUnits - off \in Nat /\ ChunkUnits - off <= ChunkUnits
        /\ ChunkUnits - (ChunkUnits - off) = off
    BY <1>3
  <2>2. ChunkUnits - off \notin Left
    BY <1>4
  <2>3. QED
    BY <2>1, <2>2
<1>6. QED
  BY <1>5

(***************************************************************************)
(* The player returns the frames of a segment whose records tile its       *)
(* extent.                                                                 *)
(***************************************************************************)
LEMMA TiledReplays ==
  ASSUME NEW cells \in [Unit -> Cell], NEW e \in IndexSlot, Tiled(cells, e)
  PROVE  Replay(cells, e) = Frames(e)
<1> DEFINE W == Walked(cells, e)
           f == Walk(cells, e)
<1>1. IsWalk(cells, e, W)
  BY WalkedSteps
<1>2. f = CHOOSE g : IsWalk(cells, e, g)
  BY DEF Walk, StepFrom, IsWalk
<1>3. IsWalk(cells, e, f)
  BY <1>1, <1>2, Zenon
<1>4. \A off \in 0 .. ChunkUnits : f[off] = W[off]
  <2> HIDE DEF W, f
  <2>1. QED
    BY <1>1, <1>3, WalkOnly
<1>5. 0 \in 0 .. ChunkUnits /\ ~(0 > e.endOff \/ 0 >= ChunkUnits)
  BY FormatAssumption DEF IndexSlot
<1>6. cells[0].hdr = "yes" /\ cells[0].seq = 0
  BY DEF Tiled
<1>7. W[0] = FromFrame(e, 0)
  BY <1>5, <1>6 DEF Walked
<1>8. FromFrame(e, 0) = Frames(e)
  <2>1. e.count - 0 = e.count /\ \A i \in 1 .. e.count : 0 + i - 1 = i - 1
    BY DEF IndexSlot
  <2>2. QED
    BY <2>1, Zenon DEF FromFrame, Frames
<1>9. QED
  BY <1>4, <1>5, <1>7, <1>8 DEF Replay
=============================================================================
