-------------------------- MODULE RsdkCrash_proofs --------------------------
(***************************************************************************)
(* Proofs about RsdkCrash: no nonce comes twice, what was finished         *)
(* survives and the oldest segment is given up first.                      *)
(*                                                                         *)
(* A call leaves its disk operations in todo, and a crash may come between *)
(* any two of them.  What is invariant is a statement about the run of     *)
(* todo: the disk is sound before it, after it and after each operation.   *)
(***************************************************************************)
EXTENDS RsdkCrash, RsdkFormat_proofs, FiniteSetTheorems, SequenceTheorems, TLAPS

(***************************************************************************)
(* rsdk_index_write does not look back around the whole ring.  The index   *)
(* of a disk has four slots for a chunk of 8 MiB (rsdk_feature.h:27-31)    *)
(* and whole sectors of four slots: it is longer than RSDK_INDEX_SCAN_MAX  *)
(* by four slots at least, on every disk of more than 16 GiB.              *)
(***************************************************************************)
LongRing == NSlots >= ScanMax + 2

\* Sectors reach the disk whole.
NoTear == Faults \subseteq {"kill", "power"}

-----------------------------------------------------------------------------
(* What is on a disk. *)

Super  == [ok : BOOLEAN, wptr : Chunk, wrapped : BOOLEAN]
Counts == [Chn -> 0 .. MaxSegSeq]

\* The places of a disk f, and the places that an operation writes.
Typed(f) ==
  /\ \A k \in Copy : /\ f[<<"sb", k>>] \in Super
                     /\ f[<<"next", k>>] \in Slot
                     /\ f[<<"seq", k>>] \in Counts
  /\ \A i \in Slot : f[<<"slot", i>>] \in IndexSlot
  /\ \A k \in Chunk, u \in Unit : f[<<"unit", k, u>>] \in Cell
TypedVals(v) ==
  /\ \A k \in Copy : /\ <<"sb", k>> \in DOMAIN v => v[<<"sb", k>>] \in Super
                     /\ <<"next", k>> \in DOMAIN v => v[<<"next", k>>] \in Slot
                     /\ <<"seq", k>> \in DOMAIN v => v[<<"seq", k>>] \in Counts
  /\ \A i \in Slot : <<"slot", i>> \in DOMAIN v => v[<<"slot", i>>] \in IndexSlot
  /\ \A k \in Chunk, u \in Unit :
       <<"unit", k, u>> \in DOMAIN v => v[<<"unit", k, u>>] \in Cell

Over(f, v) == [p \in Place |-> IF p \in DOMAIN v THEN v[p] ELSE f[p]]

\* What a mount reads.
NextOn(f)    == f[<<"next", "main">>]
CountsOn(f)  == f[<<"seq", "main">>]
SlotOn(f, i) == f[<<"slot", i>>]

\* A disk as pread returns it and as a power cut leaves it, and the nonces used.
Now == [f |-> file, p |-> platter, used |-> used]
Exec(X, o) ==
  [f    |-> IF o.op \in {"put", "frame"} THEN Over(X.f, o.vals) ELSE X.f,
   p    |-> IF o.op = "sync" THEN X.f ELSE X.p,
   used |-> IF o.op = "frame" THEN X.used \cup {o.nonce} ELSE X.used]
Allowed(X, o) == o.op = "frame" => o.nonce \notin X.used

OneOn(n) == (n + 1) % NSlots
Near(i, n) == i = n \/ i = OneOn(n)

(***************************************************************************)
(* A slot of g that names a segment which the counters of f do not know    *)
(* yet, a ghost of an interrupted call, is where f appends next.           *)
(***************************************************************************)
GhostsNear(g, f) ==
  \A i \in Slot, c \in Chn, m \in Nat :
    Names(SlotOn(g, i), <<c, m>>) /\ m > CountsOn(f)[c] => Near(i, NextOn(f))

UsedBelow(X) ==
  /\ X.used \subseteq (Chn \X Nat) \X Nat
  /\ \A c \in Chn, m, k \in Nat : <<<<c, m>>, k>> \in X.used => m <= CountsOn(X.p)[c]

Safe(X) ==
  /\ Typed(X.f) /\ Typed(X.p)
  /\ UsedBelow(X)
  /\ GhostsNear(X.f, X.f) /\ GhostsNear(X.f, X.p)
  /\ GhostsNear(X.p, X.f) /\ GhostsNear(X.p, X.p)
  /\ \A c \in Chn : CountsOn(X.p)[c] <= CountsOn(X.f)[c]
  /\ Near(NextOn(X.f), NextOn(X.p))

\* The counters in memory are ahead of those on the disk.
Below(X, q) == \A c \in Chn : CountsOn(X.f)[c] <= q[c]
Sound(q, X) == Safe(X) /\ Below(X, q)

-----------------------------------------------------------------------------
(* Runs of disk operations. *)

(***************************************************************************)
(* The operations s lead from X to Y, every disk on the way is sound and   *)
(* every nonce on the way is new.                                          *)
(***************************************************************************)
Leads(q, X, s, Y) ==
  \E S, tr :
    /\ s \in Seq(S)
    /\ tr[0] = X /\ tr[Len(s)] = Y
    /\ \A j \in 0 .. Len(s) : Sound(q, tr[j])
    /\ \A j \in 1 .. Len(s) : tr[j] = Exec(tr[j - 1], s[j]) /\ Allowed(tr[j - 1], s[j])

LEMMA LeadsNowhere ==
  ASSUME NEW q, NEW X, Sound(q, X)
  PROVE  Leads(q, X, <<>>, X)
<1> DEFINE tr == [j \in {0} |-> X]
<1>1. <<>> \in Seq({}) /\ Len(<<>>) = 0
  OBVIOUS
<1>2. tr[0] = X /\ tr[Len(<<>>)] = X
  BY <1>1
<1>3. \A j \in 0 .. Len(<<>>) : Sound(q, tr[j])
  BY <1>1, <1>2
<1>4. \A j \in 1 .. Len(<<>>) : tr[j] = Exec(tr[j - 1], <<>>[j]) /\ Allowed(tr[j - 1], <<>>[j])
  BY <1>1
<1>5. QED
  BY <1>1, <1>2, <1>3, <1>4, Zenon DEF Leads

LEMMA LeadsOne ==
  ASSUME NEW q, NEW X, NEW o, Sound(q, X), Allowed(X, o), Sound(q, Exec(X, o))
  PROVE  Leads(q, X, <<o>>, Exec(X, o))
<1> DEFINE Y == Exec(X, o)
           tr == [j \in 0 .. 1 |-> IF j = 0 THEN X ELSE Y]
<1> HIDE DEF Y
<1>1. <<o>> \in Seq({o}) /\ Len(<<o>>) = 1 /\ <<o>>[1] = o
  OBVIOUS
<1>2. tr[0] = X /\ tr[1] = Y /\ 0 \in 0 .. 1
  OBVIOUS
<1>3. \A j \in 0 .. 1 : Sound(q, tr[j])
  BY DEF Y
<1>4. \A j \in 1 .. 1 : j = 1 /\ j - 1 = 0
  OBVIOUS
<1> HIDE DEF tr
<1>5. \A j \in 1 .. 1 : tr[j] = Exec(tr[j - 1], <<o>>[j]) /\ Allowed(tr[j - 1], <<o>>[j])
  BY <1>1, <1>2, <1>4, Zenon DEF Y
<1>6. QED
  BY <1>1, <1>2, <1>3, <1>5, Zenon DEF Leads, Y

LEMMA LeadsOn ==
  ASSUME NEW q, NEW X, NEW Y, NEW Z, NEW s, NEW t, Leads(q, X, s, Y), Leads(q, Y, t, Z)
  PROVE  Leads(q, X, s \o t, Z)
<1>1. PICK S, a : /\ s \in Seq(S) /\ a[0] = X /\ a[Len(s)] = Y
                  /\ \A j \in 0 .. Len(s) : Sound(q, a[j])
                  /\ \A j \in 1 .. Len(s) : a[j] = Exec(a[j - 1], s[j]) /\ Allowed(a[j - 1], s[j])
  BY Zenon DEF Leads
<1>2. PICK T, b : /\ t \in Seq(T) /\ b[0] = Y /\ b[Len(t)] = Z
                  /\ \A j \in 0 .. Len(t) : Sound(q, b[j])
                  /\ \A j \in 1 .. Len(t) : b[j] = Exec(b[j - 1], t[j]) /\ Allowed(b[j - 1], t[j])
  BY Zenon DEF Leads
<1> DEFINE n == Len(s)
           m == Len(t)
           r == s \o t
           tr == [j \in 0 .. n + m |-> IF j <= n THEN a[j] ELSE b[j - n]]
<1>3. n \in Nat /\ m \in Nat /\ s \in Seq(S \cup T) /\ t \in Seq(S \cup T)
  BY <1>1, <1>2
<1>4. /\ r \in Seq(S \cup T) /\ Len(r) = n + m
      /\ \A j \in 1 .. n + m : r[j] = IF j <= n THEN s[j] ELSE t[j - n]
  BY <1>3, ConcatProperties, Zenon
<1> HIDE DEF n, m, r
<1>5. \A j \in 0 .. n + m : Sound(q, tr[j])
  BY <1>1, <1>2, <1>3 DEF n, m
<1>6. tr[0] = X
  BY <1>1, <1>3
<1>7. tr[n + m] = Z
  <2>1. CASE m = 0
    BY <1>1, <1>2, <1>3, <2>1 DEF n, m
  <2>2. CASE m # 0
    BY <1>2, <1>3, <2>2 DEF m
  <2>3. QED
    BY <2>1, <2>2
<1>8. \A j \in 1 .. n + m : tr[j] = Exec(tr[j - 1], r[j]) /\ Allowed(tr[j - 1], r[j])
  <2> SUFFICES ASSUME NEW j \in 1 .. n + m
               PROVE  tr[j] = Exec(tr[j - 1], r[j]) /\ Allowed(tr[j - 1], r[j])
    OBVIOUS
  <2>1. CASE j <= n
    <3>1. tr[j] = a[j] /\ tr[j - 1] = a[j - 1] /\ r[j] = s[j] /\ j \in 1 .. n
      BY <1>3, <1>4, <2>1
    <3>2. QED
      BY <1>1, <3>1, Zenon DEF n
  <2>2. CASE j > n
    <3>1. tr[j] = b[j - n] /\ r[j] = t[j - n] /\ j - n \in 1 .. m
      BY <1>3, <1>4, <2>2
    <3>2. tr[j - 1] = b[(j - n) - 1]
      <4>1. CASE j = n + 1
        BY <1>1, <1>2, <1>3, <4>1 DEF n
      <4>2. CASE j # n + 1
        BY <1>3, <2>2, <4>2
      <4>3. QED
        BY <4>1, <4>2
    <3>3. QED
      BY <1>2, <3>1, <3>2, Zenon DEF m
  <2>3. QED
    BY <1>3, <2>1, <2>2
<1> HIDE DEF tr
<1>9. QED
  BY <1>4, <1>5, <1>6, <1>7, <1>8, Zenon DEF Leads, r

LEMMA LeadsEnds ==
  ASSUME NEW q, NEW X, NEW Y, NEW s, Leads(q, X, s, Y)
  PROVE  Sound(q, X) /\ Sound(q, Y) /\ (s = <<>> => Y = X)
<1>1. PICK S, a : /\ s \in Seq(S) /\ a[0] = X /\ a[Len(s)] = Y
                  /\ \A j \in 0 .. Len(s) : Sound(q, a[j])
  BY Zenon DEF Leads
<1>2. Len(s) \in Nat /\ (s = <<>> => Len(s) = 0)
  BY <1>1
<1>3. 0 \in 0 .. Len(s) /\ Len(s) \in 0 .. Len(s)
  BY <1>2
<1>4. QED
  BY <1>1, <1>2, <1>3, Zenon

LEMMA LeadsFirst ==
  ASSUME NEW q, NEW X, NEW Y, NEW s, Leads(q, X, s, Y), s # <<>>
  PROVE  Allowed(X, Head(s)) /\ Leads(q, Exec(X, Head(s)), Tail(s), Y)
<1>1. PICK S, a : /\ s \in Seq(S) /\ a[0] = X /\ a[Len(s)] = Y
                  /\ \A j \in 0 .. Len(s) : Sound(q, a[j])
                  /\ \A j \in 1 .. Len(s) : a[j] = Exec(a[j - 1], s[j]) /\ Allowed(a[j - 1], s[j])
  BY Zenon DEF Leads
<1> DEFINE n == Len(s)
           tr == [j \in 0 .. n - 1 |-> a[j + 1]]
<1>2. n \in Nat \ {0}
  BY <1>1
<1>3. /\ Head(s) = s[1] /\ Tail(s) \in Seq(S) /\ Len(Tail(s)) = n - 1
      /\ \A j \in 1 .. n - 1 : Tail(s)[j] = s[j + 1]
  BY <1>1, HeadTailProperties
<1> HIDE DEF n
<1>4. 1 \in 1 .. n /\ 1 - 1 = 0
  BY <1>2
<1>5. a[1] = Exec(X, Head(s)) /\ Allowed(X, Head(s))
  BY <1>1, <1>3, <1>4, Zenon DEF n
<1>6. tr[0] = a[1] /\ tr[n - 1] = Y
  BY <1>1, <1>2 DEF n
<1>7. \A j \in 0 .. n - 1 : Sound(q, tr[j])
  BY <1>1, <1>2 DEF n
<1>8. \A j \in 1 .. n - 1 : tr[j] = Exec(tr[j - 1], Tail(s)[j]) /\ Allowed(tr[j - 1], Tail(s)[j])
  <2> SUFFICES ASSUME NEW j \in 1 .. n - 1
               PROVE  tr[j] = Exec(tr[j - 1], Tail(s)[j]) /\ Allowed(tr[j - 1], Tail(s)[j])
    OBVIOUS
  <2>1. j + 1 \in 1 .. n /\ (j + 1) - 1 = j /\ tr[j] = a[j + 1] /\ tr[j - 1] = a[j]
    BY <1>2
  <2>2. a[j + 1] = Exec(a[(j + 1) - 1], s[j + 1]) /\ Allowed(a[(j + 1) - 1], s[j + 1])
    BY <1>1, <2>1, Zenon DEF n
  <2>3. QED
    BY <1>3, <2>1, <2>2, Zenon
<1> HIDE DEF tr
<1>9. QED
  BY <1>3, <1>5, <1>6, <1>7, <1>8, Zenon DEF Leads

-----------------------------------------------------------------------------
(* One disk operation. *)

LEMMA Places ==
  /\ \A k \in Copy : <<"sb", k>> \in Place /\ <<"next", k>> \in Place /\ <<"seq", k>> \in Place
  /\ \A i \in Slot : <<"slot", i>> \in Place
  /\ \A k \in Chunk, u \in Unit : <<"unit", k, u>> \in Place
  /\ "main" \in Copy /\ "bak" \in Copy
<1>1. \A k \in Chunk, u \in Unit : <<"unit", k, u>> \in {"unit"} \X Chunk \X Unit
  OBVIOUS
<1>2. \A i \in Slot : <<"slot", i>> \in {"slot"} \X Slot
  OBVIOUS
<1>3. \A k \in Copy : /\ <<"sb", k>> \in {"sb", "next", "seq"} \X Copy
                      /\ <<"next", k>> \in {"sb", "next", "seq"} \X Copy
                      /\ <<"seq", k>> \in {"sb", "next", "seq"} \X Copy
  OBVIOUS
<1>4. QED
  BY <1>1, <1>2, <1>3 DEF Place, Copy

LEMMA OverAt ==
  ASSUME NEW f, NEW v
  PROVE  \A p \in Place : Over(f, v)[p] = IF p \in DOMAIN v THEN v[p] ELSE f[p]
BY DEF Over

LEMMA OverTyped ==
  ASSUME NEW f, NEW v, Typed(f), TypedVals(v)
  PROVE  Typed(Over(f, v))
<1> DEFINE g == Over(f, v)
<1>1. \A p \in Place : g[p] = IF p \in DOMAIN v THEN v[p] ELSE f[p]
  BY OverAt
<1> HIDE DEF g
<1>2. ASSUME NEW k \in Copy
      PROVE  g[<<"sb", k>>] \in Super /\ g[<<"next", k>>] \in Slot /\ g[<<"seq", k>>] \in Counts
  BY <1>1, Places, Zenon DEF Typed, TypedVals
<1>3. ASSUME NEW i \in Slot PROVE g[<<"slot", i>>] \in IndexSlot
  BY <1>1, Places, Zenon DEF Typed, TypedVals
<1>4. ASSUME NEW k \in Chunk, NEW u \in Unit PROVE g[<<"unit", k, u>>] \in Cell
  BY <1>1, Places, Zenon DEF Typed, TypedVals
<1>5. Typed(g)
  BY <1>2, <1>3, <1>4, Zenon DEF Typed
<1>6. QED
  BY <1>5 DEF g

(***************************************************************************)
(* A write that leaves the main copy of the SysTab alone keeps the disk    *)
(* sound if the slots it changes name known segments, or are where both    *)
(* disks append next.                                                      *)
(***************************************************************************)
NamesKnown(X, i, e) ==
  \/ \A c \in Chn, m \in Nat : Names(e, <<c, m>>) => m <= CountsOn(X.p)[c]
  \/ Near(i, NextOn(X.f)) /\ Near(i, NextOn(X.p))

Leaves(X, g) ==
  /\ Typed(g) /\ NextOn(g) = NextOn(X.f) /\ CountsOn(g) = CountsOn(X.f)
  /\ \A i \in Slot : SlotOn(g, i) = SlotOn(X.f, i) \/ NamesKnown(X, i, SlotOn(g, i))

LEMMA CountsNat ==
  ASSUME NEW f, Typed(f)
  PROVE  /\ NextOn(f) \in Slot /\ CountsOn(f) \in Counts
         /\ \A c \in Chn : CountsOn(f)[c] \in Nat /\ CountsOn(f)[c] <= MaxSegSeq
<1>1. NextOn(f) \in Slot /\ CountsOn(f) \in Counts
  BY Places DEF Typed, NextOn, CountsOn
<1>2. \A c \in Chn : CountsOn(f)[c] \in 0 .. MaxSegSeq
  BY <1>1 DEF Counts
<1>3. QED
  BY <1>1, <1>2, FormatAssumption

LEMMA QuietWrite ==
  ASSUME NEW q, NEW X, Sound(q, X), NEW g, Leaves(X, g), NEW U,
         UsedBelow([f |-> g, p |-> X.p, used |-> U])
  PROVE  Sound(q, [f |-> g, p |-> X.p, used |-> U])
<1> DEFINE Y == [f |-> g, p |-> X.p, used |-> U]
<1>1. Y.f = g /\ Y.p = X.p /\ Y.used = U
  OBVIOUS
<1>2. /\ Typed(X.f) /\ Typed(X.p) /\ Typed(g)
      /\ GhostsNear(X.f, X.f) /\ GhostsNear(X.f, X.p)
      /\ GhostsNear(X.p, X.f) /\ GhostsNear(X.p, X.p)
      /\ \A c \in Chn : CountsOn(X.p)[c] <= CountsOn(X.f)[c]
      /\ Near(NextOn(X.f), NextOn(X.p))
      /\ Below(X, q)
      /\ NextOn(g) = NextOn(X.f) /\ CountsOn(g) = CountsOn(X.f)
  BY DEF Sound, Safe, Leaves
<1>3. \A c \in Chn : /\ CountsOn(X.p)[c] \in Nat /\ CountsOn(X.f)[c] \in Nat
  BY <1>2, CountsNat
<1>4. ASSUME NEW i \in Slot, NEW c \in Chn, NEW m \in Nat, Names(SlotOn(g, i), <<c, m>>)
      PROVE  /\ m > CountsOn(X.f)[c] => Near(i, NextOn(X.f))
             /\ m > CountsOn(X.p)[c] => Near(i, NextOn(X.p))
  <2>1. CASE SlotOn(g, i) = SlotOn(X.f, i)
    BY <1>2, <1>4, <2>1 DEF GhostsNear
  <2>2. CASE NamesKnown(X, i, SlotOn(g, i))
    BY <1>2, <1>3, <1>4, <2>2 DEF NamesKnown
  <2>3. QED
    BY <2>1, <2>2 DEF Leaves
<1>5. GhostsNear(g, g) /\ GhostsNear(g, X.p) /\ GhostsNear(X.p, g)
  BY <1>2, <1>4 DEF GhostsNear
<1>6. UsedBelow(Y)
  OBVIOUS
<1> HIDE DEF Y
<1>7. Safe(Y)
  BY <1>1, <1>2, <1>5, <1>6 DEF Safe
<1>8. Below(Y, q)
  BY <1>1, <1>2 DEF Below
<1>9. QED
  BY <1>7, <1>8 DEF Sound, Y

LEMMA SoundSync ==
  ASSUME NEW q, NEW X, Sound(q, X)
  PROVE  Sound(q, [f |-> X.f, p |-> X.f, used |-> X.used])
<1> DEFINE Y == [f |-> X.f, p |-> X.f, used |-> X.used]
<1>1. Y.f = X.f /\ Y.p = X.f /\ Y.used = X.used
  OBVIOUS
<1> HIDE DEF Y
<1>2. /\ Typed(X.f) /\ Typed(X.p) /\ GhostsNear(X.f, X.f) /\ Below(X, q) /\ UsedBelow(X)
      /\ \A c \in Chn : CountsOn(X.p)[c] <= CountsOn(X.f)[c]
  BY DEF Sound, Safe
<1>3. \A c \in Chn : /\ CountsOn(X.p)[c] \in Nat /\ CountsOn(X.f)[c] \in Nat
  BY <1>2, CountsNat
<1>4. UsedBelow(Y)
  <2> SUFFICES ASSUME NEW c \in Chn, NEW m \in Nat, NEW k \in Nat, <<<<c, m>>, k>> \in X.used
               PROVE  m <= CountsOn(X.f)[c]
    BY <1>1, <1>2 DEF UsedBelow
  <2>1. m <= CountsOn(X.p)[c] /\ CountsOn(X.p)[c] <= CountsOn(X.f)[c]
    BY <1>2 DEF UsedBelow
  <2>2. QED
    BY <1>3, <2>1
<1>5. /\ \A c \in Chn : CountsOn(X.f)[c] <= CountsOn(X.f)[c]
      /\ Near(NextOn(X.f), NextOn(X.f))
  BY <1>3 DEF Near
<1>6. QED
  BY <1>1, <1>2, <1>4, <1>5 DEF Sound, Safe, Below, Y

LEMMA PutLeads ==
  ASSUME NEW q, NEW X, Sound(q, X), NEW v, Leaves(X, Over(X.f, v))
  PROVE  Leads(q, X, <<Put(v)>>, [f |-> Over(X.f, v), p |-> X.p, used |-> X.used])
<1> DEFINE Y == [f |-> Over(X.f, v), p |-> X.p, used |-> X.used]
<1>1. Put(v).op = "put" /\ Put(v).vals = v
  BY DEF Put
<1>2. Exec(X, Put(v)) = Y /\ Allowed(X, Put(v))
  BY <1>1 DEF Exec, Allowed
<1>3. UsedBelow(X)
  BY DEF Sound, Safe
<1>4. UsedBelow(Y)
  BY <1>3 DEF UsedBelow
<1>5. Sound(q, Y)
  BY <1>4, QuietWrite
<1>6. QED
  BY <1>2, <1>5, LeadsOne

LEMMA SyncLeads ==
  ASSUME NEW q, NEW X, Sound(q, X)
  PROVE  Leads(q, X, <<Sync>>, [f |-> X.f, p |-> X.f, used |-> X.used])
<1>1. Exec(X, Sync) = [f |-> X.f, p |-> X.f, used |-> X.used] /\ Allowed(X, Sync)
  BY DEF Exec, Allowed, Sync
<1>2. QED
  BY <1>1, SoundSync, LeadsOne

\* The operations that are none, and the states of the disk.
StateLike(X) == X = [f |-> X.f, p |-> X.p, used |-> X.used]

LEMMA NoteLeads ==
  ASSUME NEW q, NEW X, Sound(q, X), StateLike(X), NEW o, o.op \notin {"put", "frame", "sync"}
  PROVE  Leads(q, X, <<o>>, X)
<1>1. Exec(X, o) = X /\ Allowed(X, o)
  BY DEF Exec, Allowed, StateLike
<1>2. QED
  BY <1>1, LeadsOne

\* A slot, as rsdk_index_write writes it.
LEMMA SlotLeads ==
  ASSUME NEW q, NEW X, Sound(q, X), NEW i \in Slot, NEW e \in IndexSlot, NamesKnown(X, i, e)
  PROVE  \E g : /\ Leads(q, X, <<PutAt(<<"slot", i>>, e)>>, [f |-> g, p |-> X.p, used |-> X.used])
                /\ NextOn(g) = NextOn(X.f) /\ CountsOn(g) = CountsOn(X.f)
                /\ \A j \in Slot : SlotOn(g, j) = IF j = i THEN e ELSE SlotOn(X.f, j)
<1> DEFINE v == [p \in {<<"slot", i>>} |-> e]
           g == Over(X.f, v)
<1>1. PutAt(<<"slot", i>>, e) = Put(v)
  BY DEF PutAt
<1>2. DOMAIN v = {<<"slot", i>>} /\ v[<<"slot", i>>] = e
  OBVIOUS
<1>3. \A p \in Place : g[p] = IF p \in DOMAIN v THEN v[p] ELSE X.f[p]
  BY OverAt
<1>4. Typed(X.f)
  BY DEF Sound, Safe
<1> HIDE DEF v
<1>5. TypedVals(v)
  BY <1>2 DEF TypedVals
<1>6. Typed(g)
  BY <1>4, <1>5, OverTyped
<1> HIDE DEF g
<1>7. NextOn(g) = NextOn(X.f) /\ CountsOn(g) = CountsOn(X.f)
  BY <1>2, <1>3, Places DEF NextOn, CountsOn
<1>8. \A j \in Slot : SlotOn(g, j) = IF j = i THEN e ELSE SlotOn(X.f, j)
  BY <1>2, <1>3, Places DEF SlotOn
<1>9. Leaves(X, g)
  BY <1>6, <1>7, <1>8 DEF Leaves
<1>10. Leads(q, X, <<Put(v)>>, [f |-> g, p |-> X.p, used |-> X.used])
  BY <1>9, PutLeads DEF g
<1>11. QED
  BY <1>1, <1>7, <1>8, <1>10

\* The slots of a chunk, as rsdk_index_invalidate_chunk frees them.
FreeVals(ix, hit) == [p \in {"slot"} \X hit |-> Freed(ix.slot[p[2]])]
FreedOn(q, X, ix, hit, g) ==
  /\ Leads(q, X, <<Put(FreeVals(ix, hit))>>, [f |-> g, p |-> X.p, used |-> X.used])
  /\ NextOn(g) = NextOn(X.f) /\ CountsOn(g) = CountsOn(X.f)
  /\ \A j \in Slot : SlotOn(g, j) = IF j \in hit THEN Freed(SlotOn(X.f, j)) ELSE SlotOn(X.f, j)

LEMMA FreeLeads ==
  ASSUME NEW q, NEW X, Sound(q, X), NEW ix, NEW hit, hit \subseteq Slot,
         \A j \in Slot : ix.slot[j] = SlotOn(X.f, j)
  PROVE  \E g : FreedOn(q, X, ix, hit, g)
<1> DEFINE v == [p \in {"slot"} \X hit |-> Freed(ix.slot[p[2]])]
           g == Over(X.f, v)
<1>1. \A p \in DOMAIN v : p[1] = "slot"
  OBVIOUS
<1>2. \A j \in Slot : /\ <<"slot", j>> \in DOMAIN v <=> j \in hit
                      /\ j \in hit => v[<<"slot", j>>] = Freed(SlotOn(X.f, j))
  OBVIOUS
<1>3. \A p \in Place : g[p] = IF p \in DOMAIN v THEN v[p] ELSE X.f[p]
  BY OverAt
<1>4. Typed(X.f)
  BY DEF Sound, Safe
<1>5. \A j \in Slot : SlotOn(X.f, j) \in IndexSlot /\ Freed(SlotOn(X.f, j)) \in IndexSlot
                      /\ ~Live(Freed(SlotOn(X.f, j)))
  BY <1>4 DEF Typed, SlotOn, Freed, IndexSlot, Live
<1> HIDE DEF v
<1>6. /\ \A k \in Copy : /\ <<"sb", k>> \notin DOMAIN v /\ <<"next", k>> \notin DOMAIN v
                         /\ <<"seq", k>> \notin DOMAIN v
      /\ \A k \in Chunk, u \in Unit : <<"unit", k, u>> \notin DOMAIN v
  <2>1. \A k, u : /\ <<"sb", k>>[1] = "sb" /\ <<"next", k>>[1] = "next"
                  /\ <<"seq", k>>[1] = "seq" /\ <<"unit", k, u>>[1] = "unit"
    OBVIOUS
  <2>2. QED
    BY <1>1, <2>1
<1>7. TypedVals(v)
  BY <1>2, <1>5, <1>6, Zenon DEF TypedVals
<1>8. Typed(g)
  BY <1>4, <1>7, OverTyped
<1> HIDE DEF g
<1>9. NextOn(g) = NextOn(X.f) /\ CountsOn(g) = CountsOn(X.f)
  BY <1>3, <1>6, Places DEF NextOn, CountsOn
<1>10. \A j \in Slot : SlotOn(g, j) = IF j \in hit THEN Freed(SlotOn(X.f, j)) ELSE SlotOn(X.f, j)
  BY <1>2, <1>3, Places, Zenon DEF SlotOn
<1>11. \A j \in Slot : j \in hit => NamesKnown(X, j, SlotOn(g, j))
  BY <1>5, <1>10 DEF NamesKnown, Names
<1>12. Leaves(X, g)
  BY <1>8, <1>9, <1>10, <1>11 DEF Leaves
<1>13. Leads(q, X, <<Put(v)>>, [f |-> g, p |-> X.p, used |-> X.used])
  BY <1>12, PutLeads DEF g
<1>14. FreedOn(q, X, ix, hit, g)
  BY <1>9, <1>10, <1>13 DEF v, FreedOn, FreeVals
<1>15. QED
  BY <1>14

\* A superblock.
LEMMA SuperLeads ==
  ASSUME NEW q, NEW X, Sound(q, X), NEW k \in Copy, NEW b \in Super
  PROVE  \E g : /\ Leads(q, X, <<PutAt(<<"sb", k>>, b)>>, [f |-> g, p |-> X.p, used |-> X.used])
                /\ NextOn(g) = NextOn(X.f) /\ CountsOn(g) = CountsOn(X.f)
                /\ \A j \in Slot : SlotOn(g, j) = SlotOn(X.f, j)
<1> DEFINE v == [p \in {<<"sb", k>>} |-> b]
           g == Over(X.f, v)
<1>1. PutAt(<<"sb", k>>, b) = Put(v)
  BY DEF PutAt
<1>2. DOMAIN v = {<<"sb", k>>} /\ v[<<"sb", k>>] = b
  OBVIOUS
<1>3. \A p \in Place : g[p] = IF p \in DOMAIN v THEN v[p] ELSE X.f[p]
  BY OverAt
<1>4. Typed(X.f)
  BY DEF Sound, Safe
<1> HIDE DEF v
<1>5. TypedVals(v)
  BY <1>2 DEF TypedVals
<1>6. Typed(g)
  BY <1>4, <1>5, OverTyped
<1> HIDE DEF g
<1>7. NextOn(g) = NextOn(X.f) /\ CountsOn(g) = CountsOn(X.f)
  BY <1>2, <1>3, Places DEF NextOn, CountsOn
<1>8. \A j \in Slot : SlotOn(g, j) = SlotOn(X.f, j)
  BY <1>2, <1>3, Places DEF SlotOn
<1>9. Leaves(X, g)
  BY <1>6, <1>7, <1>8 DEF Leaves
<1>10. Leads(q, X, <<Put(v)>>, [f |-> g, p |-> X.p, used |-> X.used])
  BY <1>9, PutLeads DEF g
<1>11. QED
  BY <1>1, <1>7, <1>8, <1>10

-----------------------------------------------------------------------------
(* rsdk_dev_flush. *)

Tab == [next : Slot, seq : Counts]
TabVals(k, t) == [p \in {"next", "seq"} \X {k} |-> IF p[1] = "next" THEN t.next ELSE t.seq]

LEMMA TabOver ==
  ASSUME NEW f, Typed(f), NEW k \in Copy, NEW t \in Tab
  PROVE  LET g == Over(f, TabVals(k, t)) IN
         /\ Typed(g)
         /\ \A j \in Slot : SlotOn(g, j) = SlotOn(f, j)
         /\ NextOn(g) = IF k = "main" THEN t.next ELSE NextOn(f)
         /\ CountsOn(g) = IF k = "main" THEN t.seq ELSE CountsOn(f)
<1> DEFINE v == TabVals(k, t)
           g == Over(f, v)
<1>1. \A p \in DOMAIN v : p[1] \in {"next", "seq"} /\ p[2] = k
  BY DEF TabVals
<1>2. /\ <<"next", k>> \in DOMAIN v /\ v[<<"next", k>>] = t.next
      /\ <<"seq", k>> \in DOMAIN v /\ v[<<"seq", k>>] = t.seq
  BY DEF TabVals
<1>3. t.next \in Slot /\ t.seq \in Counts
  BY DEF Tab
<1>4. \A p \in Place : g[p] = IF p \in DOMAIN v THEN v[p] ELSE f[p]
  BY OverAt
<1> HIDE DEF v
<1>5. /\ \A j \in Copy : /\ <<"sb", j>> \notin DOMAIN v
                         /\ j # k => <<"next", j>> \notin DOMAIN v /\ <<"seq", j>> \notin DOMAIN v
      /\ \A i \in Slot : <<"slot", i>> \notin DOMAIN v
      /\ \A j \in Chunk, u \in Unit : <<"unit", j, u>> \notin DOMAIN v
  <2>1. \A j, u : /\ <<"sb", j>>[1] = "sb" /\ <<"slot", j>>[1] = "slot"
                  /\ <<"unit", j, u>>[1] = "unit" /\ <<"next", j>>[2] = j /\ <<"seq", j>>[2] = j
    OBVIOUS
  <2>2. QED
    BY <1>1, <2>1
<1>6. TypedVals(v)
  <2>1. ASSUME NEW j \in Copy
        PROVE  /\ <<"sb", j>> \in DOMAIN v => v[<<"sb", j>>] \in Super
               /\ <<"next", j>> \in DOMAIN v => v[<<"next", j>>] \in Slot
               /\ <<"seq", j>> \in DOMAIN v => v[<<"seq", j>>] \in Counts
    BY <1>2, <1>3, <1>5, Zenon
  <2>2. QED
    BY <1>5, <2>1, Zenon DEF TypedVals
<1>7. Typed(g)
  BY <1>6, OverTyped
<1> HIDE DEF g
<1>8. \A j \in Slot : SlotOn(g, j) = SlotOn(f, j)
  BY <1>4, <1>5, Places, Zenon DEF SlotOn
<1>9. /\ NextOn(g) = IF k = "main" THEN t.next ELSE NextOn(f)
      /\ CountsOn(g) = IF k = "main" THEN t.seq ELSE CountsOn(f)
  <2>1. CASE k = "main"
    BY <1>2, <1>4, <2>1, Places, Zenon DEF NextOn, CountsOn
  <2>2. CASE k # "main"
    BY <1>4, <1>5, <2>2, Places, Zenon DEF NextOn, CountsOn
  <2>3. QED
    BY <2>1, <2>2
<1>10. QED
  BY <1>7, <1>8, <1>9 DEF g, v

(***************************************************************************)
(* What the main copy may be overwritten with: counters that are no lower, *)
(* and the next slot at most one further, past a slot whose segment they   *)
(* count.                                                                  *)
(***************************************************************************)
Advances(q, X, t) ==
  /\ t \in Tab
  /\ \A c \in Chn : CountsOn(X.f)[c] <= t.seq[c] /\ t.seq[c] <= q[c]
  /\ \/ t.next = NextOn(X.f)
     \/ /\ t.next = OneOn(NextOn(X.f))
        /\ \A c \in Chn, m \in Nat : Names(SlotOn(X.f, NextOn(X.f)), <<c, m>>) => m <= t.seq[c]

LEMMA MainSound ==
  ASSUME NEW q, NEW X, Sound(q, X), X.p = X.f, NEW t, Advances(q, X, t),
         NEW g, Typed(g), NextOn(g) = t.next, CountsOn(g) = t.seq,
         \A j \in Slot : SlotOn(g, j) = SlotOn(X.f, j)
  PROVE  Sound(q, [f |-> g, p |-> X.p, used |-> X.used])
<1> DEFINE Y == [f |-> g, p |-> X.p, used |-> X.used]
           n == NextOn(X.f)
<1>1. Y.f = g /\ Y.p = X.f /\ Y.used = X.used
  OBVIOUS
<1>2. /\ Typed(X.f) /\ GhostsNear(X.f, X.f) /\ UsedBelow(X)
  BY DEF Sound, Safe
<1>3. \A c \in Chn : CountsOn(X.f)[c] \in Nat /\ t.seq[c] \in Nat
  BY <1>2, CountsNat
<1>4. \A c \in Chn : CountsOn(X.f)[c] <= t.seq[c] /\ t.seq[c] <= q[c]
  BY DEF Advances
<1> HIDE DEF Y
<1>5. UsedBelow(Y)
  BY <1>1, <1>2 DEF UsedBelow
<1>6. GhostsNear(g, X.f)
  BY <1>2 DEF GhostsNear
<1>7. ASSUME NEW i \in Slot, NEW c \in Chn, NEW m \in Nat,
             Names(SlotOn(X.f, i), <<c, m>>), m > t.seq[c]
      PROVE  Near(i, t.next)
  <2>1. m > CountsOn(X.f)[c]
    BY <1>3, <1>4, <1>7
  <2>2. Near(i, n)
    BY <1>2, <1>7, <2>1 DEF GhostsNear
  <2>3. ~(m <= t.seq[c])
    BY <1>3, <1>7
  <2>4. QED
    BY <1>7, <2>2, <2>3, Zenon DEF Advances, Near
<1>8. GhostsNear(X.f, g) /\ GhostsNear(g, g)
  BY <1>7 DEF GhostsNear
<1>9. Near(NextOn(g), NextOn(X.f))
  BY DEF Near, Advances
<1>10. Safe(Y)
  BY <1>1, <1>2, <1>4, <1>5, <1>6, <1>8, <1>9 DEF Safe
<1>11. Below(Y, q)
  BY <1>1, <1>4 DEF Below
<1>12. QED
  BY <1>10, <1>11 DEF Sound, Y

LEMMA LeadsTwo ==
  ASSUME NEW q, NEW X, NEW Y, NEW Z, NEW o, NEW r, Leads(q, X, <<o>>, Y), Leads(q, Y, <<r>>, Z)
  PROVE  Leads(q, X, <<o, r>>, Z)
<1>1. <<o>> \o <<r>> = <<o, r>>
  <2>1. /\ <<o>> \in Seq({o, r}) /\ Len(<<o>>) = 1 /\ <<o>>[1] = o
        /\ <<r>> \in Seq({o, r}) /\ Len(<<r>>) = 1 /\ <<r>>[1] = r
        /\ <<o, r>> \in Seq({o, r}) /\ Len(<<o, r>>) = 2 /\ <<o, r>>[1] = o /\ <<o, r>>[2] = r
    OBVIOUS
  <2> DEFINE s == <<o>> \o <<r>>
  <2>2. /\ s \in Seq({o, r}) /\ Len(s) = 1 + 1
        /\ \A i \in 1 .. 1 + 1 : s[i] = IF i <= 1 THEN <<o>>[i] ELSE <<r>>[i - 1]
    BY <2>1, ConcatProperties
  <2> HIDE DEF s
  <2>3. Len(s) = 2 /\ s[1] = o /\ s[2] = r
    BY <2>1, <2>2
  <2>4. \A i \in 1 .. 2 : i = 1 \/ i = 2
    OBVIOUS
  <2>5. \A i \in 1 .. Len(s) : s[i] = <<o, r>>[i]
    BY <2>1, <2>3, <2>4, Zenon
  <2>6. s = <<o, r>>
    BY <2>1, <2>2, <2>3, <2>5, SeqEqual
  <2>7. QED
    BY <2>6 DEF s
<1>2. Leads(q, X, <<o>> \o <<r>>, Z)
  BY LeadsOn
<1>3. QED
  BY <1>1, <1>2

LEMMA BackupLeads ==
  ASSUME NEW q, NEW X, Sound(q, X), NEW b \in Super, NEW t \in Tab
  PROVE  \E g : /\ Leads(q, X, PutCopy("bak", b, t), [f |-> g, p |-> X.p, used |-> X.used])
                /\ NextOn(g) = NextOn(X.f) /\ CountsOn(g) = CountsOn(X.f)
                /\ \A j \in Slot : SlotOn(g, j) = SlotOn(X.f, j)
<1>1. "bak" \in Copy
  BY Places
<1>2. PICK f : /\ Leads(q, X, <<PutAt(<<"sb", "bak">>, b)>>, [f |-> f, p |-> X.p, used |-> X.used])
               /\ NextOn(f) = NextOn(X.f) /\ CountsOn(f) = CountsOn(X.f)
               /\ \A j \in Slot : SlotOn(f, j) = SlotOn(X.f, j)
  BY <1>1, SuperLeads
<1> DEFINE Y == [f |-> f, p |-> X.p, used |-> X.used]
           g == Over(f, TabVals("bak", t))
<1>3. Y.f = f /\ Y.p = X.p /\ Y.used = X.used
  OBVIOUS
<1> HIDE DEF Y
<1>4. Sound(q, Y)
  BY <1>2, LeadsEnds DEF Y
<1>5. Typed(f)
  BY <1>3, <1>4 DEF Sound, Safe
<1>6. /\ Typed(g) /\ NextOn(g) = NextOn(f) /\ CountsOn(g) = CountsOn(f)
      /\ \A j \in Slot : SlotOn(g, j) = SlotOn(f, j)
  BY <1>1, <1>5, TabOver
<1> HIDE DEF g
<1>7. Leaves(Y, g)
  BY <1>3, <1>6 DEF Leaves
<1>8. Leads(q, Y, <<Put(TabVals("bak", t))>>, [f |-> g, p |-> X.p, used |-> X.used])
  BY <1>3, <1>4, <1>7, PutLeads DEF g
<1>9. Leads(q, X, <<PutAt(<<"sb", "bak">>, b), Put(TabVals("bak", t))>>,
              [f |-> g, p |-> X.p, used |-> X.used])
  BY <1>2, <1>8, LeadsTwo DEF Y
<1>10. QED
  BY <1>2, <1>6, <1>9 DEF PutCopy, TabVals

LEMMA MainLeads ==
  ASSUME NEW q, NEW X, Sound(q, X), X.p = X.f, NEW b \in Super, NEW t, Advances(q, X, t)
  PROVE  \E g : /\ Leads(q, X, PutCopy("main", b, t), [f |-> g, p |-> X.p, used |-> X.used])
                /\ NextOn(g) = t.next /\ CountsOn(g) = t.seq
                /\ \A j \in Slot : SlotOn(g, j) = SlotOn(X.f, j)
<1>1. "main" \in Copy /\ t \in Tab
  BY Places DEF Advances
<1>2. PICK h : /\ Leads(q, X, <<PutAt(<<"sb", "main">>, b)>>, [f |-> h, p |-> X.p, used |-> X.used])
               /\ NextOn(h) = NextOn(X.f) /\ CountsOn(h) = CountsOn(X.f)
               /\ \A j \in Slot : SlotOn(h, j) = SlotOn(X.f, j)
  BY <1>1, SuperLeads, ZenonT(60)
<1> DEFINE Y == [f |-> h, p |-> X.p, used |-> X.used]
           g == Over(h, TabVals("main", t))
           Z == [f |-> g, p |-> X.p, used |-> X.used]
<1>3. Y.f = h /\ Y.p = X.p /\ Y.used = X.used
  OBVIOUS
<1> HIDE DEF Y
<1>4. Sound(q, Y)
  BY <1>2, LeadsEnds DEF Y
<1>5. Typed(h)
  BY <1>3, <1>4 DEF Sound, Safe
<1>6. /\ Typed(g) /\ NextOn(g) = t.next /\ CountsOn(g) = t.seq
      /\ \A j \in Slot : SlotOn(g, j) = SlotOn(h, j)
  BY <1>1, <1>5, TabOver
<1>7. Put(TabVals("main", t)).op = "put" /\ Put(TabVals("main", t)).vals = TabVals("main", t)
  BY DEF Put
<1>8. Exec(Y, Put(TabVals("main", t))) = Z /\ Allowed(Y, Put(TabVals("main", t)))
  BY <1>3, <1>7 DEF Exec, Allowed
<1> HIDE DEF g
<1>9. Sound(q, Z)
  BY <1>2, <1>6, MainSound
<1>10. Leads(q, Y, <<Put(TabVals("main", t))>>, Z)
  BY <1>4, <1>8, <1>9, LeadsOne
<1>11. Leads(q, X, <<PutAt(<<"sb", "main">>, b), Put(TabVals("main", t))>>, Z)
  BY <1>2, <1>10, LeadsTwo DEF Y
<1>12. QED
  BY <1>2, <1>6, <1>11 DEF PutCopy, TabVals

\* The flush brings both disks to the SysTab t.
Flushed(q, X, b, t, g) ==
  /\ Leads(q, X, Flush(b, t), [f |-> g, p |-> g, used |-> X.used])
  /\ NextOn(g) = t.next /\ CountsOn(g) = t.seq
  /\ \A j \in Slot : SlotOn(g, j) = SlotOn(X.f, j)

LEMMA FlushLeads ==
  ASSUME NEW q, NEW X, Sound(q, X), NEW b, b \in Super, NEW t, Advances(q, X, t)
  PROVE  \E g : Flushed(q, X, b, t, g)
<1>1. t \in Tab
  BY DEF Advances
<1>2. PICK f : /\ Leads(q, X, PutCopy("bak", b, t), [f |-> f, p |-> X.p, used |-> X.used])
               /\ NextOn(f) = NextOn(X.f) /\ CountsOn(f) = CountsOn(X.f)
               /\ \A j \in Slot : SlotOn(f, j) = SlotOn(X.f, j)
  BY <1>1, BackupLeads
<1> DEFINE X1 == [f |-> f, p |-> X.p, used |-> X.used]
           X2 == [f |-> f, p |-> f, used |-> X.used]
<1>3. /\ X1.f = f /\ X1.used = X.used
      /\ X2.f = f /\ X2.p = f /\ X2.used = X.used
  OBVIOUS
<1> HIDE DEF X1, X2
<1>4. Sound(q, X1)
  BY <1>2, LeadsEnds DEF X1
<1>5. Leads(q, X1, <<Sync>>, X2)
  BY <1>3, <1>4, SyncLeads DEF X2
<1>6. Sound(q, X2)
  BY <1>5, LeadsEnds
<1>7. Advances(q, X2, t)
  <2>1. NextOn(X.f) \in Slot
    BY CountsNat DEF Sound, Safe
  <2>2. QED
    BY <1>2, <1>3, <2>1 DEF Advances
<1>8. PICK g : /\ Leads(q, X2, PutCopy("main", b, t), [f |-> g, p |-> X2.p, used |-> X2.used])
               /\ NextOn(g) = t.next /\ CountsOn(g) = t.seq
               /\ \A j \in Slot : SlotOn(g, j) = SlotOn(X2.f, j)
  BY <1>3, <1>6, <1>7, MainLeads
<1> DEFINE X3 == [f |-> g, p |-> f, used |-> X.used]
<1>9. X3.f = g /\ X3.used = X.used
  OBVIOUS
<1> HIDE DEF X3
<1>10. Leads(q, X2, PutCopy("main", b, t), X3)
  BY <1>3, <1>8 DEF X3
<1>11. Leads(q, X3, <<Sync>>, [f |-> g, p |-> g, used |-> X.used])
  BY <1>9, <1>10, LeadsEnds, SyncLeads
<1>12. Leads(q, X, PutCopy("bak", b, t) \o <<Sync>>, X2)
  BY <1>2, <1>5, LeadsOn DEF X1
<1>13. Leads(q, X, PutCopy("bak", b, t) \o <<Sync>> \o PutCopy("main", b, t), X3)
  BY <1>10, <1>12, LeadsOn
<1>14. Leads(q, X, PutCopy("bak", b, t) \o <<Sync>> \o PutCopy("main", b, t) \o <<Sync>>,
               [f |-> g, p |-> g, used |-> X.used])
  BY <1>11, <1>13, LeadsOn
<1>15. Flushed(q, X, b, t, g)
  BY <1>2, <1>3, <1>8, <1>14 DEF Flush, Flushed
<1>16. QED
  BY <1>15

-----------------------------------------------------------------------------
(* rsdk_index_write, rsdk_index_invalidate_chunk and the frame record. *)

\* The index ix is what X shows.
IndexOf(X, ix) ==
  /\ ix.slot \in [Slot -> IndexSlot] /\ ix.next = NextOn(X.f)
  /\ \A j \in Slot : ix.slot[j] = SlotOn(X.f, j)

LEMMA RingSlots ==
  ASSUME NEW n \in Slot
  PROVE  /\ OneOn(n) \in Slot
         /\ \A k \in 1 .. Scan : (n + NSlots - k) % NSlots \in Slot
<1>1. NSlots \in Nat \ {0} /\ n \in 0 .. NSlots - 1 /\ ScanMax \in Nat
  BY FormatAssumption DEF Slot
<1>2. (n + 1) % NSlots \in 0 .. NSlots - 1
  BY <1>1
<1>3. \A k \in 1 .. Scan : k \in 1 .. NSlots
  BY <1>1 DEF Scan
<1>4. \A k \in 1 .. NSlots : (n + NSlots - k) % NSlots \in 0 .. NSlots - 1
  BY <1>1
<1>5. QED
  BY <1>2, <1>3, <1>4, Zenon DEF OneOn, Slot

LEMMA WriteSlot ==
  ASSUME NEW ix, ix.slot \in [Slot -> IndexSlot], ix.next \in Slot, NEW e \in IndexSlot
  PROVE  /\ Target(ix, e) \in Slot
         /\ Found(ix, e.seg) = {} => Target(ix, e) = ix.next /\ IndexWrite(ix, e).next = OneOn(ix.next)
         /\ Found(ix, e.seg) # {} => IndexWrite(ix, e).next = ix.next
         /\ IndexWrite(ix, e).slot \in [Slot -> IndexSlot]
         /\ \A j \in Slot : IndexWrite(ix, e).slot[j] = IF j = Target(ix, e) THEN e ELSE ix.slot[j]
<1>1. Found(ix, e.seg) \subseteq 1 .. Scan
  BY DEF Found
<1>2. Target(ix, e) \in Slot
  <2>1. CASE Found(ix, e.seg) = {}
    BY <2>1 DEF Target
  <2>2. CASE Found(ix, e.seg) # {}
    <3> DEFINE k == CHOOSE k \in Found(ix, e.seg) : TRUE
    <3>1. k \in 1 .. Scan
      BY <1>1, <2>2
    <3> HIDE DEF k
    <3>2. (ix.next + NSlots - k) % NSlots \in Slot
      BY <3>1, RingSlots
    <3>3. Target(ix, e) = Back(ix, k)
      BY <2>2 DEF Target, k
    <3>4. QED
      BY <3>2, <3>3 DEF Back
  <2>3. QED
    BY <2>1, <2>2
<1>3. /\ Found(ix, e.seg) = {} => Target(ix, e) = ix.next /\ IndexWrite(ix, e).next = OneOn(ix.next)
      /\ Found(ix, e.seg) # {} => IndexWrite(ix, e).next = ix.next
  BY DEF Target, IndexWrite, OneOn
<1>4. IndexWrite(ix, e).slot = [ix.slot EXCEPT ![Target(ix, e)] = e]
  BY DEF IndexWrite
<1>5. /\ IndexWrite(ix, e).slot \in [Slot -> IndexSlot]
      /\ \A j \in Slot : IndexWrite(ix, e).slot[j] = IF j = Target(ix, e) THEN e ELSE ix.slot[j]
  BY <1>2, <1>4
<1>6. QED
  BY <1>2, <1>3, <1>5

\* The counts t lie between those on the disk and those in memory.
Between(q, X, t) == \A a \in Chn : CountsOn(X.f)[a] <= t.seq[a] /\ t.seq[a] <= q[a]
Indexed(q, X, ix, e, b, t, c, g) ==
  /\ Leads(q, X, IndexOps(ix, e, b, t), [f |-> g, p |-> g, used |-> X.used])
  /\ NextOn(g) = IndexWrite(ix, e).next
  /\ t.seq[c] <= CountsOn(g)[c]
  /\ \A a \in Chn : CountsOn(X.f)[a] <= CountsOn(g)[a] /\ CountsOn(g)[a] <= t.seq[a]
  /\ \A j \in Slot : SlotOn(g, j) = IndexWrite(ix, e).slot[j]

LEMMA IndexLeads ==
  ASSUME NEW q, NEW X, Sound(q, X), NEW ix, IndexOf(X, ix),
         NEW c, c \in Chn, NEW e, e \in IndexSlot, NEW b, b \in Super, NEW t, t \in Tab,
         e.seg = <<c, t.seq[c]>>, Between(q, X, t),
         Found(ix, e.seg) # {} => t.seq[c] <= CountsOn(X.p)[c]
  PROVE  \E g : Indexed(q, X, ix, e, b, t, c, g)
<1> DEFINE i == Target(ix, e)
           jx == IndexWrite(ix, e)
<1>1. /\ Typed(X.f) /\ Typed(X.p) /\ Near(NextOn(X.f), NextOn(X.p))
      /\ \A a \in Chn : CountsOn(X.p)[a] <= CountsOn(X.f)[a]
  BY DEF Sound, Safe
<1>2. /\ \A a \in Chn : CountsOn(X.f)[a] \in Nat /\ CountsOn(X.p)[a] \in Nat /\ t.seq[a] \in Nat
      /\ NextOn(X.f) \in Slot
      /\ \A a \in Chn : CountsOn(X.f)[a] <= t.seq[a] /\ t.seq[a] <= q[a]
  <2>1. \A a \in Chn : t.seq[a] \in Nat
    BY DEF Tab, Counts
  <2>2. QED
    BY <1>1, <2>1, CountsNat DEF Between
<1>3. /\ i \in Slot
      /\ Found(ix, e.seg) = {} => i = ix.next /\ jx.next = OneOn(ix.next)
      /\ Found(ix, e.seg) # {} => jx.next = ix.next
      /\ \A j \in Slot : jx.slot[j] = IF j = i THEN e ELSE ix.slot[j]
  BY <1>2, WriteSlot DEF IndexOf
<1> HIDE DEF i, jx
<1>4. \A a \in Chn, m \in Nat : Names(e, <<a, m>>) => a = c /\ m = t.seq[c]
  BY DEF Names
<1>5. NamesKnown(X, i, e)
  <2>1. CASE Found(ix, e.seg) = {}
    BY <1>1, <1>3, <2>1 DEF NamesKnown, IndexOf, Near
  <2>2. CASE Found(ix, e.seg) # {}
    BY <1>4, <2>2 DEF NamesKnown
  <2>3. QED
    BY <2>1, <2>2
<1>6. PICK f : /\ Leads(q, X, <<PutAt(<<"slot", i>>, e)>>, [f |-> f, p |-> X.p, used |-> X.used])
               /\ NextOn(f) = NextOn(X.f) /\ CountsOn(f) = CountsOn(X.f)
               /\ \A j \in Slot : SlotOn(f, j) = IF j = i THEN e ELSE SlotOn(X.f, j)
  BY <1>3, <1>5, SlotLeads
<1> DEFINE X1 == [f |-> f, p |-> X.p, used |-> X.used]
           X2 == [f |-> f, p |-> f, used |-> X.used]
<1>7. X1.f = f /\ X1.used = X.used /\ X2.f = f /\ X2.p = f /\ X2.used = X.used
  OBVIOUS
<1> HIDE DEF X1, X2
<1>8. Leads(q, X1, <<Sync>>, X2)
  BY <1>6, <1>7, LeadsEnds, SyncLeads DEF X1, X2
<1>9. Leads(q, X, <<PutAt(<<"slot", i>>, e), Sync>>, X2)
  BY <1>6, <1>8, LeadsTwo DEF X1
<1>10. Sound(q, X2)
  BY <1>9, LeadsEnds
<1>11. \A j \in Slot : SlotOn(f, j) = jx.slot[j]
  BY <1>3, <1>6 DEF IndexOf
<1>12. CASE Found(ix, e.seg) # {}
  <2>1. Leads(q, X2, <<>>, X2)
    BY <1>10, LeadsNowhere
  <2>2. Leads(q, X, <<PutAt(<<"slot", i>>, e), Sync>> \o <<>>, X2)
    BY <1>9, <2>1, LeadsOn
  <2>3. IndexOps(ix, e, b, t) = <<PutAt(<<"slot", i>>, e), Sync>> \o <<>>
    BY <1>12 DEF IndexOps, i
  <2>4. NextOn(f) = jx.next
    BY <1>3, <1>6, <1>12 DEF IndexOf
  <2>5. /\ t.seq[c] <= CountsOn(f)[c]
        /\ \A a \in Chn : CountsOn(X.f)[a] <= CountsOn(f)[a] /\ CountsOn(f)[a] <= t.seq[a]
    BY <1>1, <1>2, <1>6, <1>12
  <2>6. Indexed(q, X, ix, e, b, t, c, f)
    BY <1>11, <2>2, <2>3, <2>4, <2>5 DEF X2, jx, Indexed
  <2>7. QED
    BY <2>6
<1>13. CASE Found(ix, e.seg) = {}
  <2> DEFINE t2 == [t EXCEPT !.next = jx.next]
  <2>1. jx.next \in Slot /\ jx.next = OneOn(NextOn(f)) /\ i = NextOn(f)
    BY <1>2, <1>3, <1>6, <1>13, RingSlots DEF IndexOf
  <2>2. t2 \in Tab /\ t2.next = jx.next /\ t2.seq = t.seq
    BY <2>1 DEF Tab
  <2>3. IndexOps(ix, e, b, t) = <<PutAt(<<"slot", i>>, e), Sync>> \o Flush(b, t2)
    BY <1>13 DEF IndexOps, i, jx
  <2> HIDE DEF t2
  <2>4. SlotOn(X2.f, NextOn(X2.f)) = e
    BY <1>2, <1>6, <1>7, <2>1
  <2>5. \A a \in Chn, m \in Nat : Names(e, <<a, m>>) => m <= t.seq[a]
    BY <1>2, <1>4
  <2>6. Advances(q, X2, t2)
    BY <1>2, <1>6, <1>7, <2>1, <2>2, <2>4, <2>5 DEF Advances
  <2>12. b \in Super
    OBVIOUS
  <2>13. PICK g : Flushed(q, X2, b, t2, g)
    BY <1>10, <2>6, <2>12, FlushLeads, Zenon
  <2>7. /\ Leads(q, X2, Flush(b, t2), [f |-> g, p |-> g, used |-> X2.used])
        /\ NextOn(g) = t2.next /\ CountsOn(g) = t2.seq
        /\ \A j \in Slot : SlotOn(g, j) = SlotOn(X2.f, j)
    BY <2>13 DEF Flushed
  <2>8. Leads(q, X, <<PutAt(<<"slot", i>>, e), Sync>> \o Flush(b, t2), [f |-> g, p |-> g, used |-> X.used])
    BY <1>7, <1>9, <2>7, LeadsOn
  <2>9. /\ t.seq[c] <= CountsOn(g)[c]
        /\ \A a \in Chn : CountsOn(X.f)[a] <= CountsOn(g)[a] /\ CountsOn(g)[a] <= t.seq[a]
    BY <1>2, <2>2, <2>7
  <2>10. NextOn(g) = jx.next /\ \A j \in Slot : SlotOn(g, j) = jx.slot[j]
    BY <1>7, <1>11, <2>2, <2>7
  <2>11. Indexed(q, X, ix, e, b, t, c, g)
    BY <2>3, <2>8, <2>9, <2>10 DEF jx, Indexed
  <2>14. QED
    BY <2>11
<1>14. QED
  BY <1>12, <1>13

LEMMA ReclaimLeads ==
  ASSUME NEW q, NEW X, Sound(q, X), StateLike(X), NEW ix, IndexOf(X, ix), NEW b, NEW k
  PROVE  \E g, h : /\ Leads(q, X, ReclaimOps(ix, b, k), [f |-> g, p |-> h, used |-> X.used])
                   /\ (h = X.p /\ CountsOn(g) = CountsOn(X.f)) \/ h = g
                   /\ NextOn(g) = NextOn(X.f) /\ CountsOn(g) = CountsOn(X.f)
                   /\ Reclaimed(ix, b, k).next = ix.next
                   /\ Reclaimed(ix, b, k).slot \in [Slot -> IndexSlot]
                   /\ \A j \in Slot : /\ SlotOn(g, j) = Reclaimed(ix, b, k).slot[j]
                                      /\ Reclaimed(ix, b, k).slot[j] \in {ix.slot[j], Freed(ix.slot[j])}
<1> DEFINE hit == {i \in Slot : Live(ix.slot[i]) /\ ix.slot[i].chunk = k}
           rx == Reclaimed(ix, b, k)
           op == Put(FreeVals(ix, hit))
<1>1. Taken(k).op = "taken"
  BY DEF Taken
<1>2. Leads(q, X, <<Taken(k)>>, X)
  BY <1>1, NoteLeads
<1>3. \A j \in Slot : ix.slot[j] \in IndexSlot /\ Freed(ix.slot[j]) \in IndexSlot
  BY DEF IndexOf, Freed, IndexSlot
<1>4. rx.next = ix.next /\ rx.slot \in [Slot -> IndexSlot]
  BY <1>3 DEF Reclaimed, InvalidateChunk, IndexOf
<1>5. \A j \in Slot : rx.slot[j] = IF b.wrapped /\ j \in hit THEN Freed(ix.slot[j]) ELSE ix.slot[j]
  BY DEF Reclaimed, InvalidateChunk
<1>6. hit \in SUBSET Slot /\ ReclaimOps(ix, b, k) = <<Taken(k)>> \o
                               IF ~b.wrapped \/ hit = {} THEN <<>> ELSE <<op, Sync>>
  BY DEF ReclaimOps, FreeVals
<1> HIDE DEF rx, hit
<1>7. CASE ~b.wrapped \/ hit = {}
  <2>1. Leads(q, X, <<>>, X)
    BY LeadsNowhere
  <2>2. Leads(q, X, <<Taken(k)>> \o <<>>, X)
    BY <1>2, <2>1, LeadsOn
  <2>3. ReclaimOps(ix, b, k) = <<Taken(k)>> \o <<>>
    BY <1>6, <1>7
  <2>4. Leads(q, X, ReclaimOps(ix, b, k), [f |-> X.f, p |-> X.p, used |-> X.used])
    BY <2>2, <2>3 DEF StateLike
  <2>5. \A j \in Slot : SlotOn(X.f, j) = rx.slot[j] /\ rx.slot[j] \in {ix.slot[j], Freed(ix.slot[j])}
    BY <1>5, <1>7 DEF IndexOf
  <2>6. QED
    BY <1>4, <2>4, <2>5 DEF rx
<1>8. CASE ~(~b.wrapped \/ hit = {})
  <2>1. \A j \in Slot : ix.slot[j] = SlotOn(X.f, j)
    BY DEF IndexOf
  <2>10. hit \subseteq Slot /\ Sound(q, X)
    BY <1>6
  <2>11. PICK g : FreedOn(q, X, ix, hit, g)
    BY <2>1, <2>10, FreeLeads, Zenon
  <2>2. /\ Leads(q, X, <<op>>, [f |-> g, p |-> X.p, used |-> X.used])
        /\ NextOn(g) = NextOn(X.f) /\ CountsOn(g) = CountsOn(X.f)
        /\ \A j \in Slot : SlotOn(g, j) = IF j \in hit THEN Freed(SlotOn(X.f, j))
                                          ELSE SlotOn(X.f, j)
    BY <2>11 DEF FreedOn
  <2> DEFINE X1 == [f |-> g, p |-> X.p, used |-> X.used]
             X2 == [f |-> g, p |-> g, used |-> X.used]
  <2>3. X1.f = g /\ X1.used = X.used
    OBVIOUS
  <2> HIDE DEF X1, op
  <2>4. Leads(q, X1, <<Sync>>, X2)
    BY <2>2, <2>3, LeadsEnds, SyncLeads DEF X1
  <2> HIDE DEF X2
  <2>5. Leads(q, X, <<op, Sync>>, X2)
    BY <2>2, <2>4, LeadsTwo DEF X1
  <2>6. Leads(q, X, <<Taken(k)>> \o <<op, Sync>>, X2)
    BY <1>2, <2>5, LeadsOn
  <2>7. Leads(q, X, ReclaimOps(ix, b, k), X2)
    BY <1>6, <1>8, <2>6
  <2>8. \A j \in Slot : SlotOn(g, j) = rx.slot[j] /\ rx.slot[j] \in {ix.slot[j], Freed(ix.slot[j])}
    BY <1>5, <1>8, <2>1, <2>2
  <2>9. QED
    BY <1>4, <2>2, <2>7, <2>8 DEF X2, rx
<1>9. QED
  BY <1>7, <1>8

Pen == [open : BOOLEAN, chunk : Chunk, off : 0 .. ChunkUnits, seg : Seg \cup {NoSeg},
        count : Nat, endOff : Nat]

Framed(q, X, w, n, g) ==
  /\ Leads(q, X, <<FrameOp(w, n)>>,
           [f |-> g, p |-> X.p, used |-> X.used \cup {<<w.seg, w.count>>}])
  /\ NextOn(g) = NextOn(X.f) /\ CountsOn(g) = CountsOn(X.f)

LEMMA FrameLeads ==
  ASSUME NEW q, NEW X, Sound(q, X), NEW w, w \in Pen, NEW n, n \in FrameUnits,
         w.off + n <= ChunkUnits,
         NEW c, c \in Chn, NEW m, m \in Nat, w.seg = <<c, m>>, m <= CountsOn(X.p)[c],
         <<w.seg, w.count>> \notin X.used
  PROVE  \E g : Framed(q, X, w, n, g)
<1> DEFINE v == FrameOp(w, n).vals
           g == Over(X.f, v)
           Y == [f |-> g, p |-> X.p, used |-> X.used \cup {<<w.seg, w.count>>}]
<1>1. FrameOp(w, n).op = "frame" /\ FrameOp(w, n).nonce = <<w.seg, w.count>>
  BY DEF FrameOp
<1>2. Exec(X, FrameOp(w, n)) = Y /\ Allowed(X, FrameOp(w, n))
  BY <1>1 DEF Exec, Allowed
<1>3. w.seg \in Seg \cup {NoSeg} /\ w.count \in Nat /\ n \in Nat
  BY FormatAssumption DEF Pen
<1>4. \A p \in DOMAIN v : p[1] = "unit" /\ v[p] \in Cell
  BY <1>3 DEF FrameOp, Cell
<1>5. \A p \in Place : g[p] = IF p \in DOMAIN v THEN v[p] ELSE X.f[p]
  BY OverAt
<1>6. Typed(X.f) /\ UsedBelow(X)
  BY DEF Sound, Safe
<1> HIDE DEF v
<1>7. /\ \A k \in Copy : /\ <<"sb", k>> \notin DOMAIN v /\ <<"next", k>> \notin DOMAIN v
                         /\ <<"seq", k>> \notin DOMAIN v
      /\ \A j \in Slot : <<"slot", j>> \notin DOMAIN v
  <2>1. \A k : /\ <<"sb", k>>[1] = "sb" /\ <<"next", k>>[1] = "next"
               /\ <<"seq", k>>[1] = "seq" /\ <<"slot", k>>[1] = "slot"
    OBVIOUS
  <2>2. QED
    BY <1>4, <2>1
<1>8. TypedVals(v)
  BY <1>4, <1>7, Zenon DEF TypedVals
<1>9. Typed(g)
  BY <1>6, <1>8, OverTyped
<1> HIDE DEF g
<1>10. NextOn(g) = NextOn(X.f) /\ CountsOn(g) = CountsOn(X.f)
  BY <1>5, <1>7, Places DEF NextOn, CountsOn
<1>11. \A j \in Slot : SlotOn(g, j) = SlotOn(X.f, j)
  BY <1>5, <1>7, Places, Zenon DEF SlotOn
<1>12. Leaves(X, g)
  BY <1>9, <1>10, <1>11 DEF Leaves
<1>13. UsedBelow(Y)
  <2>1. Y.used = X.used \cup {<<<<c, m>>, w.count>>} /\ Y.p = X.p
    OBVIOUS
  <2>2. <<<<c, m>>, w.count>> \in (Chn \X Nat) \X Nat
    BY <1>3
  <2>3. \A a \in Chn, i, k \in Nat : <<<<a, i>>, k>> = <<<<c, m>>, w.count>> => a = c /\ i = m
    OBVIOUS
  <2> HIDE DEF Y
  <2>4. QED
    BY <1>6, <2>1, <2>2, <2>3 DEF UsedBelow
<1>14. Sound(q, Y)
  BY <1>12, <1>13, QuietWrite
<1>15. Leads(q, X, <<FrameOp(w, n)>>, Y)
  BY <1>2, <1>14, LeadsOne
<1>16. Framed(q, X, w, n, g)
  BY <1>10, <1>15 DEF Framed
<1>17. QED
  BY <1>16

-----------------------------------------------------------------------------
(* The invariant. *)

(***************************************************************************)
(* Y is where the running call ends.  The segment of an open writer is the *)
(* one its channel counted last, its nonces are below the frame count, and *)
(* once it has a frame the count is on the platter, so that no later run   *)
(* can count the segment again.                                            *)
(***************************************************************************)
Held(m, w, c, Y) ==
  /\ w.seg = <<c, m>>
  /\ w.count = 0 => w.off = 0
  /\ \A k \in Nat : <<w.seg, k>> \in Y.used => k < w.count
  /\ w.count > 0 => m <= CountsOn(Y.p)[c]
  /\ m <= CountsOn(Y.f)[c] => m <= CountsOn(Y.p)[c]
Ready(t, ws, Y) ==
  /\ NextOn(Y.f) = t.next
  /\ StateLike(Y)
  /\ \A c \in Chn : ws[c].open => Held(t.seq[c], ws[c], c, Y)

\* What the call of the writers ws, which leaves the SysTab t and the operations s, keeps.
Runs(t, ws, X, s) ==
  /\ t \in Tab /\ ws \in [Chn -> Pen]
  /\ \E Y : Leads(t.seq, X, s, Y) /\ Ready(t, ws, Y)

NInv ==
  /\ ~reused
  /\ Safe(Now)
  /\ sb \in Super
  /\ phase \in {"up", "down", "refused"}
  /\ phase = "up" => Runs(st, writer, Now, todo)
  /\ phase # "up" => todo = <<>> /\ writer = [c \in Chn |-> Idle]

\* The counts on the disk after a call, against those before it.
Later(X, Y) ==
  \A a \in Chn : /\ CountsOn(X.p)[a] <= CountsOn(Y.p)[a]
                 /\ \/ CountsOn(Y.f)[a] = CountsOn(Y.p)[a]
                    \/ CountsOn(Y.f)[a] = CountsOn(X.f)[a]

\* A disk of which next and the counts are on the platter is later than any before it.
LEMMA LaterSynced ==
  ASSUME NEW q, NEW X, Sound(q, X), NEW Y, Typed(Y.p), CountsOn(Y.f) = CountsOn(Y.p),
         \A a \in Chn : CountsOn(X.f)[a] <= CountsOn(Y.p)[a]
  PROVE  Later(X, Y)
<1>1. /\ Typed(X.f) /\ Typed(X.p)
      /\ \A a \in Chn : CountsOn(X.p)[a] <= CountsOn(X.f)[a]
  BY DEF Sound, Safe
<1>2. \A a \in Chn : CountsOn(X.f)[a] \in Nat /\ CountsOn(X.p)[a] \in Nat /\ CountsOn(Y.p)[a] \in Nat
  BY <1>1, CountsNat
<1>3. QED
  BY <1>1, <1>2 DEF Later

LEMMA LaterTwice ==
  ASSUME NEW X, NEW Y, NEW Z, Safe(X), Safe(Y), Safe(Z), Later(X, Y), Later(Y, Z)
  PROVE  Later(X, Z)
<1>1. /\ Typed(X.p) /\ Typed(Y.p) /\ Typed(Z.p) /\ Typed(Z.f)
      /\ \A a \in Chn : CountsOn(Z.p)[a] <= CountsOn(Z.f)[a]
  BY DEF Safe
<1>2. \A a \in Chn : /\ CountsOn(X.p)[a] \in Nat /\ CountsOn(Y.p)[a] \in Nat
                     /\ CountsOn(Z.p)[a] \in Nat /\ CountsOn(Z.f)[a] \in Nat
  BY <1>1, CountsNat
<1>3. ASSUME NEW a \in Chn, CountsOn(Z.f)[a] # CountsOn(Z.p)[a]
      PROVE  CountsOn(Z.f)[a] = CountsOn(X.f)[a]
  BY <1>1, <1>2, <1>3 DEF Later
<1>4. QED
  BY <1>2, <1>3 DEF Later

LEMMA HeldOn ==
  ASSUME NEW X, NEW Y, NEW m \in Nat, NEW w, NEW c \in Chn, Held(m, w, c, X), Later(X, Y),
         Typed(X.f), Typed(X.p), Typed(Y.f), Typed(Y.p),
         \A k \in Nat : <<w.seg, k>> \in Y.used => <<w.seg, k>> \in X.used
  PROVE  Held(m, w, c, Y)
<1>1. /\ CountsOn(X.p)[c] \in Nat /\ CountsOn(Y.p)[c] \in Nat
      /\ CountsOn(X.f)[c] \in Nat /\ CountsOn(Y.f)[c] \in Nat
  BY CountsNat
<1>2. m <= CountsOn(X.p)[c] => m <= CountsOn(Y.p)[c]
  BY <1>1 DEF Later
<1>3. m <= CountsOn(Y.f)[c] => m <= CountsOn(Y.p)[c]
  BY <1>1, <1>2 DEF Later, Held
<1>4. QED
  BY <1>2, <1>3 DEF Held

-----------------------------------------------------------------------------
(* The values that the calls compute. *)

LEMMA PenSlot ==
  ASSUME NEW w \in Pen, NEW flag \in {"open", "valid"}
  PROVE  SlotOf(w, flag) \in IndexSlot /\ SlotOf(w, flag).seg = w.seg
<1>1. AnyType \in RecType
  BY FormatAssumption DEF AnyType
<1>2. QED
  BY <1>1 DEF SlotOf, IndexSlot, Pen

LEMMA PenAfter ==
  ASSUME NEW w \in Pen, NEW n \in FrameUnits, w.off + n <= ChunkUnits
  PROVE  /\ After(w, n) \in Pen
         /\ After(w, n).open = w.open /\ After(w, n).seg = w.seg
         /\ After(w, n).count = w.count + 1
<1>1. n \in Nat /\ ChunkUnits \in Nat
  BY FormatAssumption
<1>2. w.off \in 0 .. ChunkUnits /\ w.count \in Nat
  BY DEF Pen
<1>3. After(w, n) = [w EXCEPT !.off = w.off + n, !.endOff = w.off, !.count = w.count + 1]
  BY DEF After
<1>4. w.off + n \in 0 .. ChunkUnits /\ w.off \in Nat /\ w.count + 1 \in Nat
  BY <1>1, <1>2
<1> DEFINE o == w.off + n
           d == w.off
           k == w.count + 1
<1> HIDE DEF o, d, k
<1>6. After(w, n) = [w EXCEPT !.off = o, !.endOff = d, !.count = k] /\ k = w.count + 1
  BY <1>3 DEF o, d, k
<1>7. o \in 0 .. ChunkUnits /\ d \in Nat /\ k \in Nat
  BY <1>4 DEF o, d, k
<1>8. /\ After(w, n) \in Pen
      /\ After(w, n).open = w.open /\ After(w, n).seg = w.seg
      /\ After(w, n).count = k
  BY <1>6, <1>7 DEF Pen
<1>9. QED
  BY <1>6, <1>8

LEMMA StartedTab ==
  ASSUME NEW t \in Tab, NEW c \in Chn, t.seq[c] < MaxSegSeq
  PROVE  /\ Started(t, c) \in Tab /\ Started(t, c).next = t.next
         /\ Started(t, c).seq[c] = t.seq[c] + 1
         /\ \A a \in Chn : /\ a # c => Started(t, c).seq[a] = t.seq[a]
                           /\ t.seq[a] <= Started(t, c).seq[a]
         /\ <<c, t.seq[c] + 1>> \in Seg
<1>1. MaxSegSeq \in Nat
  BY FormatAssumption
<1>2. t.seq \in [Chn -> 0 .. MaxSegSeq] /\ t.next \in Slot
  BY DEF Tab, Counts
<1>3. t.seq[c] + 1 \in 0 .. MaxSegSeq /\ t.seq[c] + 1 \in 1 .. MaxSegSeq
  BY <1>1, <1>2
<1> DEFINE s == [t.seq EXCEPT ![c] = t.seq[c] + 1]
<1>4. s \in [Chn -> 0 .. MaxSegSeq]
  BY <1>2, <1>3
<1>5. s[c] = t.seq[c] + 1 /\ \A a \in Chn : a # c => s[a] = t.seq[a]
  BY <1>2
<1>6. \A a \in Chn : t.seq[a] <= s[a]
  BY <1>1, <1>2, <1>5
<1>7. Started(t, c) = [t EXCEPT !.seq = s]
  BY DEF Started
<1> HIDE DEF s
<1>8. [t EXCEPT !.seq = s] \in Tab /\ [t EXCEPT !.seq = s].next = t.next /\ [t EXCEPT !.seq = s].seq = s
  BY <1>4 DEF Tab, Counts
<1>9. QED
  BY <1>3, <1>5, <1>6, <1>7, <1>8 DEF Seg

LEMMA PenFresh ==
  ASSUME NEW t, NEW c \in Chn, NEW k \in Chunk, <<c, t.seq[c]>> \in Seg
  PROVE  /\ Fresh(t, c, k) \in Pen /\ Fresh(t, c, k).open = TRUE
         /\ Fresh(t, c, k).seg = <<c, t.seq[c]>> /\ Fresh(t, c, k).count = 0 /\ Fresh(t, c, k).off = 0
<1>1. 0 \in 0 .. ChunkUnits
  BY FormatAssumption
<1>2. QED
  BY <1>1 DEF Fresh, Pen

LEMMA IdlePen == Idle \in Pen /\ Idle.open = FALSE
<1>1. 0 \in 0 .. ChunkUnits /\ 0 \in Chunk
  BY FormatAssumption DEF Chunk
<1>2. QED
  BY <1>1 DEF Idle, Pen

LEMMA MovedSuper ==
  ASSUME NEW b \in Super
  PROVE  Moved(b) \in Super /\ b.wptr \in Chunk
<1>1. NChunks \in Nat \ {0} /\ b.wptr \in 0 .. NChunks - 1 /\ b.wrapped \in BOOLEAN
  BY FormatAssumption DEF Super, Chunk
<1>2. (b.wptr + 1) % NChunks \in 0 .. NChunks - 1
  BY <1>1
<1>3. QED
  BY <1>1, <1>2 DEF Moved, Super, Chunk

(***************************************************************************)
(* rsdk_index_write finds no ghost: on a long ring its scan does not reach *)
(* the slots where the disk appends next.                                  *)
(***************************************************************************)
LEMMA NoGhostFound ==
  ASSUME LongRing, NEW X, Safe(X), NEW ix, IndexOf(X, ix), NEW c \in Chn, NEW m \in Nat,
         Found(ix, <<c, m>>) # {}
  PROVE  m <= CountsOn(X.f)[c]
<1>1. PICK k \in 1 .. Scan : Names(ix.slot[Back(ix, k)], <<c, m>>)
  BY DEF Found
<1> DEFINE n == NextOn(X.f)
           i == Back(ix, k)
<1>2. /\ Typed(X.f) /\ GhostsNear(X.f, X.f)
  BY DEF Safe
<1>3. n \in Slot /\ CountsOn(X.f)[c] \in Nat /\ ix.next = n
  BY <1>2, CountsNat DEF IndexOf
<1>4. i \in Slot /\ i = (n + NSlots - k) % NSlots
  BY <1>3, RingSlots DEF Back
<1>5. Names(SlotOn(X.f, i), <<c, m>>)
  BY <1>1, <1>4 DEF IndexOf
<1> HIDE DEF i
<1>6. NSlots \in Nat \ {0} /\ ScanMax \in Nat /\ n \in 0 .. NSlots - 1
  BY <1>3, FormatAssumption DEF Slot
<1>7. k \in Nat /\ k >= 1 /\ k <= NSlots - 2
  BY <1>6 DEF Scan, LongRing
<1> HIDE DEF n
<1>8. i = IF n >= k THEN n - k ELSE n + NSlots - k
  BY <1>4, <1>6, <1>7
<1>9. OneOn(n) = IF n + 1 = NSlots THEN 0 ELSE n + 1
  BY <1>6 DEF OneOn
<1>10. ~Near(i, n)
  BY <1>6, <1>7, <1>8, <1>9 DEF Near
<1>11. ~(m > CountsOn(X.f)[c])
  BY <1>2, <1>4, <1>5, <1>10 DEF GhostsNear, n
<1>12. QED
  BY <1>3, <1>11

-----------------------------------------------------------------------------
(* The parts that the calls share. *)

\* The first frame of a segment: its open slot leads from X to Y, the frame from Y to Z.
Opens(q, X, ix, b, t, w, n, c, Y, Z) ==
  /\ Leads(q, X, IndexOps(ix, SlotOf(w, "open"), b, t), Y)
  /\ Leads(q, Y, <<FrameOp(w, n)>>, Z)
  /\ StateLike(Z)
  /\ NextOn(Z.f) = IndexWrite(ix, SlotOf(w, "open")).next
  /\ Later(X, Z)
  /\ t.seq[c] <= CountsOn(Z.p)[c]
  /\ Z.used = X.used \cup {<<w.seg, w.count>>}

LEMMA OpensLeads ==
  ASSUME LongRing, NEW q, NEW X, Sound(q, X), NEW ix, IndexOf(X, ix),
         NEW b, b \in Super, NEW t, t \in Tab,
         NEW w, w \in Pen, NEW n \in FrameUnits, w.off + n <= ChunkUnits,
         NEW c \in Chn, w.seg = <<c, t.seq[c]>>,
         Between(q, X, t),
         t.seq[c] <= CountsOn(X.f)[c] => t.seq[c] <= CountsOn(X.p)[c],
         <<w.seg, w.count>> \notin X.used
  PROVE  \E Y, Z : Opens(q, X, ix, b, t, w, n, c, Y, Z)
<1> DEFINE e == SlotOf(w, "open")
<1>1. e \in IndexSlot /\ e.seg = <<c, t.seq[c]>>
  BY PenSlot
<1>2. t.seq[c] \in Nat
  BY DEF Tab, Counts
<1>3. Found(ix, e.seg) # {} => t.seq[c] <= CountsOn(X.p)[c]
  BY <1>1, <1>2, NoGhostFound DEF Sound
<1> HIDE DEF e
<1>17. PICK g : Indexed(q, X, ix, e, b, t, c, g)
  BY <1>1, <1>3, IndexLeads, Zenon
<1>4. /\ Leads(q, X, IndexOps(ix, e, b, t), [f |-> g, p |-> g, used |-> X.used])
      /\ NextOn(g) = IndexWrite(ix, e).next
      /\ t.seq[c] <= CountsOn(g)[c]
      /\ \A a \in Chn : CountsOn(X.f)[a] <= CountsOn(g)[a] /\ CountsOn(g)[a] <= t.seq[a]
  BY <1>17 DEF Indexed
<1> DEFINE Y == [f |-> g, p |-> g, used |-> X.used]
<1>5. Y.f = g /\ Y.p = g /\ Y.used = X.used
  OBVIOUS
<1> HIDE DEF Y
<1>6. Sound(q, Y)
  BY <1>4, LeadsEnds DEF Y
<1>7. t.seq[c] <= CountsOn(Y.p)[c] /\ <<w.seg, w.count>> \notin Y.used
  BY <1>4, <1>5
<1>18. n \in FrameUnits
  OBVIOUS
<1>19. PICK h : Framed(q, Y, w, n, h)
  BY <1>2, <1>6, <1>7, <1>18, FrameLeads, Zenon
<1>8. /\ Leads(q, Y, <<FrameOp(w, n)>>,
               [f |-> h, p |-> Y.p, used |-> Y.used \cup {<<w.seg, w.count>>}])
      /\ NextOn(h) = NextOn(Y.f) /\ CountsOn(h) = CountsOn(Y.f)
  BY <1>19 DEF Framed
<1> DEFINE Z == [f |-> h, p |-> g, used |-> X.used \cup {<<w.seg, w.count>>}]
<1>9. Z.f = h /\ Z.p = g /\ Z.used = X.used \cup {<<w.seg, w.count>>} /\ StateLike(Z)
  BY DEF StateLike
<1> HIDE DEF Z
<1>10. Leads(q, Y, <<FrameOp(w, n)>>, Z)
  BY <1>5, <1>8 DEF Z
<1>11. Typed(Z.p)
  BY <1>10, LeadsEnds DEF Sound, Safe
<1>12. Later(X, Z)
  BY <1>4, <1>5, <1>8, <1>9, <1>11, LaterSynced
<1>13. NextOn(Z.f) = IndexWrite(ix, e).next /\ t.seq[c] <= CountsOn(Z.p)[c]
  BY <1>4, <1>5, <1>8, <1>9
<1>14. Leads(q, X, IndexOps(ix, e, b, t), Y)
  BY <1>4 DEF Y
<1>15. Opens(q, X, ix, b, t, w, n, c, Y, Z)
  BY <1>9, <1>10, <1>12, <1>13, <1>14, Zenon DEF Opens, e
<1>16. QED
  BY <1>15

\* The slot of a finished segment.
Closes(q, X, ix, w, Y) ==
  /\ Leads(q, X, ClosingOps(ix, w), Y)
  /\ StateLike(Y)
  /\ IndexOf(Y, Closing(ix, w))
  /\ Later(X, Y)
  /\ \A a \in Chn : CountsOn(Y.f)[a] <= st.seq[a]
  /\ Y.used = X.used

LEMMA ClosesLeads ==
  ASSUME NEW q, NEW X, Sound(q, X), StateLike(X), NEW ix, IndexOf(X, ix),
         sb \in Super, st \in Tab,
         NEW w, w \in Pen, NEW c, c \in Chn, Held(st.seq[c], w, c, X), Between(q, X, st)
  PROVE  \E Y : Closes(q, X, ix, w, Y)
<1>1. CASE w.count = 0
  <2>1. Closing(ix, w) = ix /\ ClosingOps(ix, w) = <<>>
    BY <1>1 DEF Closing, ClosingOps
  <2>2. Leads(q, X, <<>>, X)
    BY LeadsNowhere
  <2>3. Later(X, X)
    <3>1. Typed(X.p)
      BY DEF Sound, Safe
    <3>2. \A a \in Chn : CountsOn(X.p)[a] \in Nat
      BY <3>1, CountsNat
    <3>3. QED
      BY <3>2 DEF Later
  <2>4. Closes(q, X, ix, w, X)
    BY <2>1, <2>2, <2>3 DEF Closes, Between
  <2>5. QED
    BY <2>4
<1>2. CASE w.count # 0
  <2> DEFINE e == SlotOf(w, "valid")
  <2>1. e \in IndexSlot /\ e.seg = <<c, st.seq[c]>>
    BY PenSlot DEF Held
  <2>2. w.count > 0
    BY <1>2 DEF Pen
  <2>3. Found(ix, e.seg) # {} => st.seq[c] <= CountsOn(X.p)[c]
    BY <2>2 DEF Held
  <2>4. ClosingOps(ix, w) = IndexOps(ix, e, sb, st) \o <<Finished(w)>> /\ Closing(ix, w) = IndexWrite(ix, e)
    BY <1>2 DEF ClosingOps, Closing
  <2> HIDE DEF e
  <2>16. PICK g : Indexed(q, X, ix, e, sb, st, c, g)
    BY <2>1, <2>3, IndexLeads, Zenon
  <2>5. /\ Leads(q, X, IndexOps(ix, e, sb, st), [f |-> g, p |-> g, used |-> X.used])
        /\ NextOn(g) = IndexWrite(ix, e).next
        /\ st.seq[c] <= CountsOn(g)[c]
        /\ \A a \in Chn : CountsOn(X.f)[a] <= CountsOn(g)[a] /\ CountsOn(g)[a] <= st.seq[a]
        /\ \A j \in Slot : SlotOn(g, j) = IndexWrite(ix, e).slot[j]
    BY <2>16 DEF Indexed
  <2> DEFINE Y == [f |-> g, p |-> g, used |-> X.used]
  <2>6. Y.f = g /\ Y.p = g /\ Y.used = X.used /\ StateLike(Y)
    BY DEF StateLike
  <2>7. Leads(q, X, IndexOps(ix, e, sb, st), Y)
    BY <2>5
  <2> HIDE DEF Y
  <2>8. Sound(q, Y) /\ Typed(Y.p)
    BY <2>7, LeadsEnds DEF Sound, Safe
  <2>9. Finished(w).op \notin {"put", "frame", "sync"}
    BY DEF Finished
  <2>10. Leads(q, Y, <<Finished(w)>>, Y)
    BY <2>6, <2>8, <2>9, NoteLeads
  <2>11. Leads(q, X, IndexOps(ix, e, sb, st) \o <<Finished(w)>>, Y)
    BY <2>7, <2>10, LeadsOn
  <2>12. IndexOf(Y, IndexWrite(ix, e))
    <3>1. ix.next \in Slot
      BY CountsNat DEF IndexOf, Sound, Safe
    <3>2. IndexWrite(ix, e).slot \in [Slot -> IndexSlot]
      BY <2>1, <3>1, WriteSlot DEF IndexOf
    <3>3. QED
      BY <2>5, <2>6, <3>2 DEF IndexOf
  <2>13. Later(X, Y)
    BY <2>5, <2>6, <2>8, LaterSynced
  <2>14. Closes(q, X, ix, w, Y)
    BY <2>4, <2>5, <2>6, <2>11, <2>12, <2>13 DEF Closes
  <2>15. QED
    BY <2>14
<1>3. QED
  BY <1>1, <1>2

\* A chunk is taken.
Reclaims(q, X, ix, b, k, Y) ==
  /\ Leads(q, X, ReclaimOps(ix, b, k), Y)
  /\ StateLike(Y)
  /\ IndexOf(Y, Reclaimed(ix, b, k))
  /\ Later(X, Y)
  /\ CountsOn(Y.f) = CountsOn(X.f)
  /\ Y.used = X.used

LEMMA ReclaimsLeads ==
  ASSUME NEW q, NEW X, Sound(q, X), StateLike(X), NEW ix, IndexOf(X, ix), NEW b, NEW k
  PROVE  \E Y : Reclaims(q, X, ix, b, k, Y)
<1>1. PICK g, h : /\ Leads(q, X, ReclaimOps(ix, b, k), [f |-> g, p |-> h, used |-> X.used])
                  /\ (h = X.p /\ CountsOn(g) = CountsOn(X.f)) \/ h = g
                  /\ NextOn(g) = NextOn(X.f) /\ CountsOn(g) = CountsOn(X.f)
                  /\ Reclaimed(ix, b, k).next = ix.next
                  /\ Reclaimed(ix, b, k).slot \in [Slot -> IndexSlot]
                  /\ \A j \in Slot : /\ SlotOn(g, j) = Reclaimed(ix, b, k).slot[j]
                                     /\ Reclaimed(ix, b, k).slot[j] \in {ix.slot[j], Freed(ix.slot[j])}
  BY ReclaimLeads
<1> DEFINE Y == [f |-> g, p |-> h, used |-> X.used]
<1>2. Y.f = g /\ Y.p = h /\ Y.used = X.used /\ StateLike(Y)
  BY DEF StateLike
<1>3. Leads(q, X, ReclaimOps(ix, b, k), Y)
  BY <1>1
<1> HIDE DEF Y
<1>4. IndexOf(Y, Reclaimed(ix, b, k))
  BY <1>1, <1>2 DEF IndexOf
<1>5. Typed(X.p) /\ Typed(X.f) /\ \A c \in Chn : CountsOn(X.p)[c] <= CountsOn(X.f)[c]
  BY DEF Sound, Safe
<1>6. \A a \in Chn : CountsOn(X.p)[a] \in Nat /\ CountsOn(X.f)[a] \in Nat
  BY <1>5, CountsNat
<1>7. Later(X, Y)
  BY <1>1, <1>2, <1>5, <1>6 DEF Later
<1>8. Reclaims(q, X, ix, b, k, Y)
  BY <1>1, <1>2, <1>3, <1>4, <1>7 DEF Reclaims
<1>9. QED
  BY <1>8

-----------------------------------------------------------------------------
(* The calls. *)

LEMMA NowFields == Now.f = file /\ Now.p = platter /\ Now.used = used /\ StateLike(Now)
BY DEF Now, StateLike

LEMMA AtCall ==
  ASSUME NInv, Calling
  PROVE  /\ Sound(st.seq, Now) /\ IndexOf(Now, Ix) /\ Ready(st, writer, Now)
         /\ st \in Tab /\ writer \in [Chn -> Pen] /\ sb \in Super
<1>1. Runs(st, writer, Now, <<>>)
  BY DEF NInv, Calling
<1>2. PICK Y : Leads(st.seq, Now, <<>>, Y) /\ Ready(st, writer, Y)
  BY <1>1 DEF Runs
<1>3. Sound(st.seq, Now) /\ Y = Now
  BY <1>2, LeadsEnds
<1>4. Ready(st, writer, Now)
  BY <1>2, <1>3
<1>5. Typed(file) /\ st.next = NextOn(Now.f)
  BY <1>3, <1>4, NowFields DEF Sound, Safe, Ready
<1>6. IndexOf(Now, Ix)
  <2>1. \A i \in Slot : file[<<"slot", i>>] \in IndexSlot
    BY <1>5 DEF Typed
  <2>2. Ix.next = st.next /\ Ix.slot = [i \in Slot |-> file[<<"slot", i>>]]
    BY DEF Ix
  <2>3. QED
    BY <1>5, <2>1, <2>2, NowFields DEF IndexOf, SlotOn
<1>7. QED
  BY <1>1, <1>3, <1>4, <1>6 DEF Runs, NInv

\* The counts in memory may grow.
LEMMA SoundAbove ==
  ASSUME NEW q, NEW X, Sound(q, X), NEW r, q \in Counts, r \in Counts, \A a \in Chn : q[a] <= r[a]
  PROVE  Sound(r, X) /\ \A a \in Chn : CountsOn(X.f)[a] <= q[a] /\ CountsOn(X.f)[a] <= r[a]
<1>1. Typed(X.f) /\ Below(X, q)
  BY DEF Sound, Safe
<1>2. \A a \in Chn : CountsOn(X.f)[a] \in Nat /\ q[a] \in Nat /\ r[a] \in Nat
  BY <1>1, CountsNat, FormatAssumption DEF Counts
<1>3. \A a \in Chn : CountsOn(X.f)[a] <= q[a] /\ CountsOn(X.f)[a] <= r[a]
  BY <1>1, <1>2 DEF Below
<1>4. QED
  BY <1>3 DEF Sound, Below

\* The writers that a call leaves alone are held at its end.
SameOthers(t, u, ws, vs, c) == \A a \in Chn : a # c => u.seq[a] = t.seq[a] /\ vs[a] = ws[a]
NewOf(X, Y, c) == \A a \in Chn : \A m, k : <<<<a, m>>, k>> \in Y.used => a = c \/ <<<<a, m>>, k>> \in X.used
OthersAre(u, vs, c, Y) == \A a \in Chn : a # c /\ vs[a].open => Held(u.seq[a], vs[a], a, Y)

LEMMA OthersHeld ==
  ASSUME NEW X, NEW Y, NEW t, NEW u, NEW ws, NEW vs, NEW c,
         t \in Tab, Ready(t, ws, X), Later(X, Y), Safe(X), Safe(Y),
         SameOthers(t, u, ws, vs, c), NewOf(X, Y, c)
  PROVE  OthersAre(u, vs, c, Y)
<1> SUFFICES ASSUME NEW a \in Chn, a # c, vs[a].open
             PROVE  Held(u.seq[a], vs[a], a, Y)
  BY DEF OthersAre
<1> DEFINE m == t.seq[a]
           w == ws[a]
<1>1. u.seq[a] = m /\ vs[a] = w /\ m \in Nat
  BY DEF Tab, Counts, SameOthers
<1>2. Held(m, w, a, X)
  BY <1>1 DEF Ready
<1>3. w.seg = <<a, m>>
  BY <1>2 DEF Held
<1>4. \A k \in Nat : <<w.seg, k>> \in Y.used => <<w.seg, k>> \in X.used
  BY <1>3 DEF NewOf
<1> HIDE DEF m, w
<1>5. Held(m, w, a, Y)
  BY <1>1, <1>2, <1>4, HeldOn DEF Safe
<1>6. QED
  BY <1>1, <1>5

\* A segment that the disk does not count has no nonce yet.
LEMMA NewNonces ==
  ASSUME NEW q, NEW X, Sound(q, X), NEW c \in Chn, NEW m \in Nat, m > CountsOn(X.f)[c]
  PROVE  \A k : <<<<c, m>>, k>> \notin X.used
<1>1. /\ UsedBelow(X) /\ Typed(X.f) /\ Typed(X.p) /\ CountsOn(X.p)[c] <= CountsOn(X.f)[c]
  BY DEF Sound, Safe
<1>2. CountsOn(X.p)[c] \in Nat /\ CountsOn(X.f)[c] \in Nat
  BY <1>1, CountsNat
<1>3. SUFFICES ASSUME NEW k, <<<<c, m>>, k>> \in X.used PROVE FALSE
  OBVIOUS
<1>4. k \in Nat
  BY <1>1, <1>3 DEF UsedBelow
<1>5. m <= CountsOn(X.p)[c]
  BY <1>1, <1>3, <1>4 DEF UsedBelow
<1>6. QED
  BY <1>1, <1>2, <1>5

LEMMA OpenStep ==
  ASSUME NInv, NEW c \in Chn, OpenWriter(c)
  PROVE  Runs(st', writer', Now, todo') /\ sb' \in Super
<1> DEFINE X == Now
           b == Moved(sb)
           t == Started(st, c)
           k == sb.wptr
           f == Fresh(t, c, k)
           ws == [writer EXCEPT ![c] = f]
<1>1. /\ Sound(st.seq, X) /\ IndexOf(X, Ix) /\ Ready(st, writer, X) /\ StateLike(X)
      /\ st \in Tab /\ writer \in [Chn -> Pen] /\ sb \in Super
  BY AtCall, NowFields DEF OpenWriter
<1>2. /\ sb' = b /\ st' = t /\ writer' = ws /\ todo' = ReclaimOps(Ix, b, k)
      /\ st.seq[c] < MaxSegSeq
  BY DEF OpenWriter
<1>3. /\ t \in Tab /\ t.next = st.next /\ t.seq[c] = st.seq[c] + 1
      /\ \A a \in Chn : (a # c => t.seq[a] = st.seq[a]) /\ st.seq[a] <= t.seq[a]
      /\ <<c, t.seq[c]>> \in Seg
  BY <1>1, <1>2, StartedTab
<1>4. b \in Super /\ k \in Chunk
  BY <1>1, MovedSuper
<1> HIDE DEF X, t, k, b
<1>5. f \in Pen /\ f.open = TRUE /\ f.seg = <<c, t.seq[c]>> /\ f.count = 0 /\ f.off = 0
  BY <1>3, <1>4, PenFresh
<1> HIDE DEF f
<1>6. ws \in [Chn -> Pen] /\ ws[c] = f /\ \A a \in Chn : a # c => ws[a] = writer[a]
  BY <1>1, <1>5
<1> HIDE DEF ws
<1>7. st.seq \in Counts /\ t.seq \in Counts
  BY <1>1, <1>3 DEF Tab
<1>8. Sound(t.seq, X) /\ \A a \in Chn : CountsOn(X.f)[a] <= st.seq[a]
  BY <1>1, <1>3, <1>7, SoundAbove
<1>9. PICK Y : Reclaims(t.seq, X, Ix, b, k, Y)
  BY <1>1, <1>8, ReclaimsLeads, Zenon
<1>10. /\ Leads(t.seq, X, ReclaimOps(Ix, b, k), Y) /\ StateLike(Y)
       /\ IndexOf(Y, Reclaimed(Ix, b, k)) /\ Later(X, Y)
       /\ CountsOn(Y.f) = CountsOn(X.f) /\ Y.used = X.used
  BY <1>9 DEF Reclaims
<1>11. Sound(t.seq, Y) /\ Safe(X) /\ Safe(Y)
  BY <1>8, <1>10, LeadsEnds DEF Sound
<1>12. OthersAre(t, ws, c, Y)
  <2>1. SameOthers(st, t, writer, ws, c)
    BY <1>3, <1>6 DEF SameOthers
  <2>2. NewOf(X, Y, c)
    BY <1>10 DEF NewOf
  <2>3. QED
    BY <1>1, <1>10, <1>11, <2>1, <2>2, OthersHeld, Zenon
<1>13. t.seq[c] \in Nat /\ t.seq[c] > CountsOn(Y.f)[c]
  <2>1. CountsOn(X.f)[c] \in Nat /\ st.seq[c] \in Nat
    BY <1>7, <1>11, CountsNat DEF Safe, Counts
  <2>2. QED
    BY <1>3, <1>8, <1>10, <2>1
<1>14. \A j : <<<<c, t.seq[c]>>, j>> \notin Y.used
  BY <1>11, <1>13, NewNonces
<1>15. Held(t.seq[c], f, c, Y)
  <2>1. ~(t.seq[c] <= CountsOn(Y.f)[c])
    <3>1. CountsOn(Y.f)[c] \in Nat
      BY <1>11, CountsNat DEF Safe
    <3>2. QED
      BY <1>13, <3>1
  <2>2. QED
    BY <1>5, <1>14, <2>1 DEF Held
<1>16. NextOn(Y.f) = t.next
  BY <1>3, <1>10 DEF IndexOf, Reclaimed, InvalidateChunk, Ix
<1>17. Ready(t, ws, Y)
  BY <1>6, <1>10, <1>12, <1>15, <1>16 DEF Ready, OthersAre
<1>18. Runs(t, ws, X, ReclaimOps(Ix, b, k))
  BY <1>3, <1>6, <1>10, <1>17 DEF Runs
<1>19. QED
  BY <1>2, <1>4, <1>18 DEF X

\* The frame n of w leads from the nonces of X to those of Z.
Adds(X, Z, w, n, c, m) ==
  /\ w \in Pen /\ n \in FrameUnits /\ w.off + n <= ChunkUnits
  /\ c \in Chn /\ m \in Nat /\ w.seg = <<c, m>>
  /\ \A k \in Nat : <<w.seg, k>> \in X.used => k < w.count
  /\ Z.used = X.used \cup {<<w.seg, w.count>>} /\ m <= CountsOn(Z.p)[c]

LEMMA FrameHeld ==
  ASSUME NEW X, NEW Z, NEW w, NEW n, NEW c, NEW m, Adds(X, Z, w, n, c, m)
  PROVE  Held(m, After(w, n), c, Z) /\ NewOf(X, Z, c)
<1> USE DEF Adds
<1>1. w.count \in Nat
  BY DEF Pen
<1>2. After(w, n).seg = w.seg /\ After(w, n).count = w.count + 1
  BY PenAfter
<1>4. ASSUME NEW k \in Nat, <<w.seg, k>> \in Z.used
      PROVE  k < w.count + 1
  <2>1. CASE <<w.seg, k>> \in X.used
    BY <1>1, <2>1
  <2>2. CASE <<w.seg, k>> = <<w.seg, w.count>>
    BY <1>1, <2>2
  <2>3. QED
    BY <1>4, <2>1, <2>2
<1>5. w.count + 1 # 0
  BY <1>1
<1>6. Held(m, After(w, n), c, Z)
  BY <1>2, <1>4, <1>5 DEF Held
<1>7. NewOf(X, Z, c)
  <2>1. \A a, i, k : <<<<a, i>>, k>> = <<w.seg, w.count>> => a = c
    OBVIOUS
  <2>2. QED
    BY <2>1 DEF NewOf
<1>8. QED
  BY <1>6, <1>7

LEMMA FirstStep ==
  ASSUME LongRing, NInv, NEW c \in Chn, NEW n \in FrameUnits, FirstFrame(c, n)
  PROVE  Runs(st', writer', Now, todo')
<1> DEFINE X == Now
           w == writer[c]
           e == SlotOf(w, "open")
           t == [st EXCEPT !.next = IndexWrite(Ix, e).next]
           ws == [writer EXCEPT ![c] = After(w, n)]
<1>1. /\ Sound(st.seq, X) /\ IndexOf(X, Ix) /\ Ready(st, writer, X) /\ StateLike(X)
      /\ st \in Tab /\ writer \in [Chn -> Pen] /\ sb \in Super
  BY AtCall, NowFields DEF FirstFrame
<1>2. /\ st' = t /\ writer' = ws /\ todo' = IndexOps(Ix, e, sb, st) \o <<FrameOp(w, n)>>
      /\ w.open /\ w.count = 0 /\ n <= ChunkUnits
  BY DEF FirstFrame
<1>3. w \in Pen /\ Held(st.seq[c], w, c, X)
  BY <1>1, <1>2 DEF Ready
<1> HIDE DEF X, w
<1>4. w.off + n <= ChunkUnits
  <2>1. w.off = 0 /\ n \in Nat
    BY <1>2, <1>3, FormatAssumption DEF Held
  <2>2. QED
    BY <1>2, <2>1
<1>5. /\ w.seg = <<c, st.seq[c]>>
      /\ \A k \in Nat : <<w.seg, k>> \in X.used => k < w.count
      /\ st.seq[c] <= CountsOn(X.f)[c] => st.seq[c] <= CountsOn(X.p)[c]
  BY <1>3 DEF Held
<1>6. Between(st.seq, X, st) /\ Safe(X) /\ st.seq[c] \in Nat /\ st.next \in Slot
  <2>1. \A a \in Chn : CountsOn(X.f)[a] <= st.seq[a] /\ st.seq[a] \in Nat /\ st.next \in Slot
    BY <1>1 DEF Sound, Below, Tab, Counts
  <2>2. QED
    BY <1>1, <2>1 DEF Between, Sound
<1>7. <<w.seg, w.count>> \notin X.used
  <2>1. w.count \in Nat
    BY <1>3 DEF Pen
  <2>2. QED
    BY <1>5, <2>1
<1>8. PICK Y, Z : Opens(st.seq, X, Ix, sb, st, w, n, c, Y, Z)
  BY <1>1, <1>3, <1>4, <1>5, <1>6, <1>7, OpensLeads
<1>9. /\ Leads(st.seq, X, IndexOps(Ix, e, sb, st), Y) /\ Leads(st.seq, Y, <<FrameOp(w, n)>>, Z)
      /\ StateLike(Z) /\ NextOn(Z.f) = IndexWrite(Ix, e).next /\ Later(X, Z)
      /\ st.seq[c] <= CountsOn(Z.p)[c] /\ Z.used = X.used \cup {<<w.seg, w.count>>}
  BY <1>8 DEF Opens
<1> HIDE DEF e
<1>10. Leads(st.seq, X, IndexOps(Ix, e, sb, st) \o <<FrameOp(w, n)>>, Z)
  BY <1>9, LeadsOn
<1>11. Safe(Z) /\ NextOn(Z.f) \in Slot
  BY <1>10, LeadsEnds, CountsNat DEF Sound, Safe
<1>12. t \in Tab /\ t.next = NextOn(Z.f) /\ t.seq = st.seq
  BY <1>1, <1>9, <1>11 DEF Tab
<1> HIDE DEF t
<1>13. /\ After(w, n) \in Pen /\ After(w, n).open = w.open
  BY <1>3, <1>4, PenAfter
<1>14. ws \in [Chn -> Pen] /\ ws[c] = After(w, n) /\ \A a \in Chn : a # c => ws[a] = writer[a]
  BY <1>1, <1>13
<1> HIDE DEF ws
<1>15. Held(t.seq[c], ws[c], c, Z) /\ NewOf(X, Z, c)
  <2>1. Adds(X, Z, w, n, c, st.seq[c])
    BY <1>3, <1>4, <1>5, <1>6, <1>9 DEF Adds
  <2>2. QED
    BY <1>12, <1>14, <2>1, FrameHeld
<1>16. OthersAre(t, ws, c, Z)
  <2>1. SameOthers(st, t, writer, ws, c)
    BY <1>12, <1>14 DEF SameOthers
  <2>2. QED
    BY <1>1, <1>6, <1>9, <1>11, <1>15, <2>1, OthersHeld, Zenon
<1>17. Ready(t, ws, Z)
  BY <1>9, <1>12, <1>15, <1>16 DEF Ready, OthersAre
<1>18. Runs(t, ws, X, todo')
  BY <1>2, <1>10, <1>12, <1>14, <1>17 DEF Runs
<1>19. QED
  BY <1>2, <1>18 DEF X

LEMMA NextStep ==
  ASSUME NInv, NEW c \in Chn, NEW n \in FrameUnits, NextFrame(c, n)
  PROVE  Runs(st', writer', Now, todo')
<1> DEFINE X == Now
           w == writer[c]
           ws == [writer EXCEPT ![c] = After(w, n)]
<1>1. /\ Sound(st.seq, X) /\ IndexOf(X, Ix) /\ Ready(st, writer, X) /\ StateLike(X)
      /\ st \in Tab /\ writer \in [Chn -> Pen] /\ sb \in Super
  BY AtCall, NowFields DEF NextFrame
<1>2. /\ st' = st /\ writer' = ws /\ todo' = <<FrameOp(w, n)>>
      /\ w.open /\ w.count > 0 /\ w.off + n <= ChunkUnits
  BY DEF NextFrame
<1>3. w \in Pen /\ Held(st.seq[c], w, c, X)
  BY <1>1, <1>2 DEF Ready
<1> HIDE DEF X, w
<1>4. /\ w.seg = <<c, st.seq[c]>>
      /\ \A k \in Nat : <<w.seg, k>> \in X.used => k < w.count
      /\ st.seq[c] <= CountsOn(X.p)[c]
  BY <1>2, <1>3 DEF Held
<1>5. st.seq[c] \in Nat /\ n \in FrameUnits /\ c \in Chn /\ Safe(X)
  BY <1>1 DEF Tab, Counts, Sound
<1>6. <<w.seg, w.count>> \notin X.used
  <2>1. w.count \in Nat
    BY <1>3 DEF Pen
  <2>2. QED
    BY <1>4, <2>1
<1>7. PICK g : Framed(st.seq, X, w, n, g)
  BY <1>1, <1>2, <1>3, <1>4, <1>5, <1>6, FrameLeads, Zenon
<1> DEFINE Z == [f |-> g, p |-> X.p, used |-> X.used \cup {<<w.seg, w.count>>}]
<1>8. /\ Leads(st.seq, X, <<FrameOp(w, n)>>, Z) /\ StateLike(Z)
      /\ Z.f = g /\ Z.p = X.p /\ Z.used = X.used \cup {<<w.seg, w.count>>}
      /\ NextOn(Z.f) = NextOn(X.f) /\ CountsOn(Z.f) = CountsOn(X.f)
  BY <1>7 DEF Framed, StateLike
<1> HIDE DEF Z
<1>9. Safe(Z)
  BY <1>8, LeadsEnds DEF Sound
<1>10. Later(X, Z)
  <2>1. \A a \in Chn : CountsOn(X.p)[a] \in Nat
    BY <1>5, CountsNat DEF Safe
  <2>2. QED
    BY <1>8, <2>1 DEF Later
<1>11. /\ After(w, n) \in Pen /\ After(w, n).open = w.open
  BY <1>2, <1>3, PenAfter
<1>12. ws \in [Chn -> Pen] /\ ws[c] = After(w, n) /\ \A a \in Chn : a # c => ws[a] = writer[a]
  BY <1>1, <1>11
<1> HIDE DEF ws
<1>13. Held(st.seq[c], ws[c], c, Z) /\ NewOf(X, Z, c)
  <2>1. Adds(X, Z, w, n, c, st.seq[c])
    BY <1>2, <1>3, <1>4, <1>5, <1>8 DEF Adds
  <2>2. QED
    BY <1>12, <2>1, FrameHeld
<1>14. OthersAre(st, ws, c, Z)
  <2>1. SameOthers(st, st, writer, ws, c)
    BY <1>12 DEF SameOthers
  <2>2. QED
    BY <1>1, <1>5, <1>9, <1>10, <1>13, <2>1, OthersHeld, Zenon
<1>15. Ready(st, ws, Z)
  BY <1>1, <1>8, <1>13, <1>14 DEF Ready, OthersAre
<1>16. Runs(st, ws, X, todo')
  BY <1>1, <1>2, <1>8, <1>12, <1>15 DEF Runs
<1>17. QED
  BY <1>2, <1>16 DEF X

LEMMA CloseStep ==
  ASSUME NInv, NEW c \in Chn, CloseWriter(c)
  PROVE  Runs(st', writer', Now, todo')
<1> DEFINE X == Now
           w == writer[c]
           x1 == Closing(Ix, w)
           t == [st EXCEPT !.next = x1.next]
           ws == [writer EXCEPT ![c] = Idle]
<1>1. /\ Sound(st.seq, X) /\ IndexOf(X, Ix) /\ Ready(st, writer, X) /\ StateLike(X)
      /\ st \in Tab /\ writer \in [Chn -> Pen] /\ sb \in Super
  BY AtCall, NowFields DEF CloseWriter
<1>2. /\ st' = t /\ writer' = ws /\ todo' = ClosingOps(Ix, w) \o Flush(sb, t)
      /\ w.open
  BY DEF CloseWriter
<1>3. w \in Pen /\ Held(st.seq[c], w, c, X) /\ c \in Chn
  BY <1>1, <1>2 DEF Ready
<1> HIDE DEF X, w
<1>4. /\ Between(st.seq, X, st) /\ Safe(X)
      /\ \A a \in Chn : CountsOn(X.f)[a] <= st.seq[a] /\ st.seq[a] \in Nat
  <2>1. \A a \in Chn : CountsOn(X.f)[a] <= st.seq[a] /\ st.seq[a] \in Nat
    BY <1>1 DEF Sound, Below, Tab, Counts
  <2>2. QED
    BY <1>1, <2>1 DEF Between, Sound
<1>5. PICK Y : Closes(st.seq, X, Ix, w, Y)
  BY <1>1, <1>3, <1>4, ClosesLeads, Zenon
<1>6. /\ Leads(st.seq, X, ClosingOps(Ix, w), Y) /\ StateLike(Y) /\ IndexOf(Y, x1)
      /\ \A a \in Chn : CountsOn(Y.f)[a] <= st.seq[a]
      /\ Y.used = X.used
  BY <1>5 DEF Closes
<1> HIDE DEF x1
<1>7. Sound(st.seq, Y) /\ x1.next = NextOn(Y.f) /\ x1.next \in Slot
  BY <1>6, LeadsEnds, CountsNat DEF Sound, Safe, IndexOf
<1>8. t \in Tab /\ t.next = x1.next /\ t.seq = st.seq
  BY <1>1, <1>7 DEF Tab
<1> HIDE DEF t
<1>9. Advances(st.seq, Y, t)
  BY <1>4, <1>6, <1>7, <1>8 DEF Advances
<1>10. PICK g : Flushed(st.seq, Y, sb, t, g)
  BY <1>1, <1>7, <1>9, FlushLeads, Zenon
<1> DEFINE Z == [f |-> g, p |-> g, used |-> Y.used]
<1>11. /\ Leads(st.seq, Y, Flush(sb, t), Z) /\ StateLike(Z)
       /\ Z.f = g /\ Z.p = g /\ Z.used = X.used
       /\ NextOn(g) = t.next /\ CountsOn(g) = t.seq
  BY <1>6, <1>10 DEF Flushed, StateLike
<1> HIDE DEF Z
<1>12. Leads(st.seq, X, ClosingOps(Ix, w) \o Flush(sb, t), Z)
  BY <1>6, <1>11, LeadsOn
<1>13. Safe(Z) /\ Typed(Z.p)
  BY <1>12, LeadsEnds DEF Sound, Safe
<1>14. Later(X, Z)
  BY <1>1, <1>4, <1>8, <1>11, <1>13, LaterSynced
<1>15. ws \in [Chn -> Pen] /\ ~ws[c].open /\ \A a \in Chn : a # c => ws[a] = writer[a]
  BY <1>1, IdlePen
<1> HIDE DEF ws
<1>16. OthersAre(t, ws, c, Z)
  <2>1. SameOthers(st, t, writer, ws, c)
    BY <1>8, <1>15 DEF SameOthers
  <2>2. NewOf(X, Z, c)
    BY <1>11 DEF NewOf
  <2>3. QED
    BY <1>1, <1>4, <1>13, <1>14, <2>1, <2>2, OthersHeld, Zenon
<1>17. Ready(t, ws, Z)
  BY <1>11, <1>15, <1>16 DEF Ready, OthersAre
<1>18. Runs(t, ws, X, todo')
  BY <1>2, <1>8, <1>12, <1>15, <1>17 DEF Runs
<1>19. QED
  BY <1>2, <1>18 DEF X

LEMMA RollStep ==
  ASSUME LongRing, NInv, NEW c \in Chn, NEW n \in FrameUnits, RollFrame(c, n)
  PROVE  Runs(st', writer', Now, todo') /\ sb' \in Super
<1> DEFINE X  == Now
           w  == writer[c]
           k  == sb.wptr
           b  == Moved(sb)
           x1 == Closing(Ix, w)
           s1 == [st EXCEPT !.next = x1.next]
           t1 == Started(s1, c)
           f  == Fresh(t1, c, k)
           e  == SlotOf(f, "open")
           x2 == Reclaimed(x1, b, k)
           t  == [t1 EXCEPT !.next = IndexWrite(x2, e).next]
           ws == [writer EXCEPT ![c] = After(f, n)]
<1>1. /\ Sound(st.seq, X) /\ IndexOf(X, Ix) /\ Ready(st, writer, X) /\ StateLike(X)
      /\ st \in Tab /\ writer \in [Chn -> Pen] /\ sb \in Super
  BY AtCall, NowFields DEF RollFrame
<1>2. /\ sb' = b /\ st' = t /\ writer' = ws
      /\ todo' = ClosingOps(Ix, w) \o ReclaimOps(x1, b, k) \o IndexOps(x2, e, b, t1)
                 \o <<FrameOp(f, n)>>
      /\ w.open /\ w.count > 0 /\ n <= ChunkUnits /\ st.seq[c] < MaxSegSeq
  BY DEF RollFrame
<1>3. w \in Pen /\ Held(st.seq[c], w, c, X) /\ c \in Chn
  BY <1>1, <1>2 DEF Ready
<1>4. b \in Super /\ k \in Chunk
  BY <1>1, MovedSuper
<1> HIDE DEF X, w, b, k
\* The closing slot.
<1>5. PICK Y0 : Closes(st.seq, X, Ix, w, Y0)
  <2>1. Between(st.seq, X, st)
    <3>1. \A a \in Chn : CountsOn(X.f)[a] <= st.seq[a] /\ st.seq[a] \in Nat
      BY <1>1 DEF Sound, Below, Tab, Counts
    <3>2. QED
      BY <3>1 DEF Between
  <2>2. QED
    BY <1>1, <1>3, <2>1, ClosesLeads, Zenon
<1>6. x1.next \in Slot
  <2>1. IndexOf(Y0, x1) /\ Sound(st.seq, Y0)
    BY <1>5, LeadsEnds DEF Closes
  <2>2. QED
    BY <2>1, CountsNat DEF IndexOf, Sound, Safe
<1> HIDE DEF x1
<1>7. s1 \in Tab /\ s1.next = x1.next /\ s1.seq = st.seq
  BY <1>1, <1>6 DEF Tab
<1> HIDE DEF s1
<1>8. /\ t1 \in Tab /\ t1.next = x1.next /\ t1.seq[c] = st.seq[c] + 1
      /\ \A a \in Chn : (a # c => t1.seq[a] = st.seq[a]) /\ st.seq[a] <= t1.seq[a]
      /\ <<c, t1.seq[c]>> \in Seg
  <2>1. s1.seq[c] < MaxSegSeq
    BY <1>2, <1>7
  <2>2. /\ t1 \in Tab /\ t1.next = s1.next /\ t1.seq[c] = s1.seq[c] + 1
        /\ \A a \in Chn : (a # c => t1.seq[a] = s1.seq[a]) /\ s1.seq[a] <= t1.seq[a]
        /\ <<c, s1.seq[c] + 1>> \in Seg
    BY <1>7, <2>1, StartedTab
  <2> HIDE DEF t1
  <2>3. QED
    BY <1>7, <2>2
<1> HIDE DEF t1
<1>9. f \in Pen /\ f.open = TRUE /\ f.seg = <<c, t1.seq[c]>> /\ f.count = 0 /\ f.off = 0
  BY <1>4, <1>8, PenFresh
<1> HIDE DEF f
<1>10. st.seq \in Counts /\ t1.seq \in Counts /\ \A a \in Chn : st.seq[a] \in Nat /\ t1.seq[a] \in Nat
  BY <1>1, <1>8 DEF Tab, Counts
<1>11. /\ Sound(t1.seq, X)
       /\ \A a \in Chn : CountsOn(X.f)[a] <= st.seq[a] /\ CountsOn(X.f)[a] <= t1.seq[a]
  BY <1>1, <1>8, <1>10, SoundAbove
<1>12. Between(t1.seq, X, st)
  BY <1>8, <1>11 DEF Between
<1>13. PICK Y1 : Closes(t1.seq, X, Ix, w, Y1)
  BY <1>1, <1>3, <1>11, <1>12, ClosesLeads, Zenon
<1>14. /\ Leads(t1.seq, X, ClosingOps(Ix, w), Y1) /\ StateLike(Y1) /\ IndexOf(Y1, x1)
       /\ Later(X, Y1)
       /\ \A a \in Chn : CountsOn(Y1.f)[a] <= st.seq[a]
       /\ Y1.used = X.used
  BY <1>13 DEF Closes, x1
<1>15. Sound(t1.seq, Y1)
  BY <1>14, LeadsEnds
\* The chunk.
<1>16. PICK Y2 : Reclaims(t1.seq, Y1, x1, b, k, Y2)
  BY <1>14, <1>15, ReclaimsLeads, Zenon
<1>17. /\ Leads(t1.seq, Y1, ReclaimOps(x1, b, k), Y2) /\ StateLike(Y2) /\ IndexOf(Y2, x2)
       /\ Later(Y1, Y2)
       /\ CountsOn(Y2.f) = CountsOn(Y1.f) /\ Y2.used = X.used
  BY <1>14, <1>16 DEF Reclaims
<1>18. Sound(t1.seq, Y2)
  BY <1>17, LeadsEnds
<1> HIDE DEF x2
\* The open slot and the frame.
<1>19. \A a \in Chn : CountsOn(Y2.f)[a] \in Nat /\ CountsOn(Y2.f)[a] <= st.seq[a]
  BY <1>14, <1>17, <1>18, CountsNat DEF Sound, Safe
<1>20. Between(t1.seq, Y2, t1)
  BY <1>8, <1>10, <1>19 DEF Between
<1>21. t1.seq[c] \in Nat /\ t1.seq[c] > CountsOn(Y2.f)[c] /\ ~(t1.seq[c] <= CountsOn(Y2.f)[c])
  BY <1>8, <1>10, <1>19
<1>22. \A j : <<<<c, t1.seq[c]>>, j>> \notin Y2.used
  BY <1>18, <1>21, NewNonces
<1>23. f.off + n <= ChunkUnits
  BY <1>2, <1>9, FormatAssumption
<1>24. <<f.seg, f.count>> \notin Y2.used
  BY <1>9, <1>22
<1>25. PICK Y3, Z : Opens(t1.seq, Y2, x2, b, t1, f, n, c, Y3, Z)
  BY <1>4, <1>8, <1>9, <1>17, <1>18, <1>20, <1>21, <1>23, <1>24, OpensLeads
<1>26. /\ Leads(t1.seq, Y2, IndexOps(x2, e, b, t1), Y3) /\ Leads(t1.seq, Y3, <<FrameOp(f, n)>>, Z)
       /\ StateLike(Z) /\ NextOn(Z.f) = IndexWrite(x2, e).next /\ Later(Y2, Z)
       /\ t1.seq[c] <= CountsOn(Z.p)[c] /\ Z.used = X.used \cup {<<f.seg, f.count>>}
  BY <1>17, <1>25 DEF Opens
<1> HIDE DEF e
<1>27. Leads(t1.seq, X, ClosingOps(Ix, w) \o ReclaimOps(x1, b, k), Y2)
  BY <1>14, <1>17, LeadsOn
<1>28. Leads(t1.seq, X, ClosingOps(Ix, w) \o ReclaimOps(x1, b, k) \o IndexOps(x2, e, b, t1), Y3)
  BY <1>26, <1>27, LeadsOn
<1>29. Leads(t1.seq, X, todo', Z)
  <2>1. Leads(t1.seq, X, ClosingOps(Ix, w) \o ReclaimOps(x1, b, k) \o IndexOps(x2, e, b, t1)
                         \o <<FrameOp(f, n)>>, Z)
    BY <1>26, <1>28, LeadsOn
  <2>2. QED
    BY <1>2, <2>1
<1>30. Safe(X) /\ Safe(Y1) /\ Safe(Y2) /\ Safe(Z)
  BY <1>1, <1>15, <1>18, <1>29, LeadsEnds DEF Sound
<1>31. Later(X, Z)
  BY <1>14, <1>17, <1>26, <1>30, LaterTwice
<1>32. t \in Tab /\ t.next = NextOn(Z.f) /\ t.seq = t1.seq
  <2>1. NextOn(Z.f) \in Slot
    BY <1>30, CountsNat DEF Safe
  <2>2. QED
    BY <1>8, <1>26, <2>1 DEF Tab
<1> HIDE DEF t
<1>33. After(f, n) \in Pen /\ After(f, n).open = TRUE
  BY <1>9, <1>23, PenAfter
<1>34. ws \in [Chn -> Pen] /\ ws[c] = After(f, n) /\ \A a \in Chn : a # c => ws[a] = writer[a]
  BY <1>1, <1>33
<1> HIDE DEF ws
<1>35. Held(t.seq[c], ws[c], c, Z) /\ NewOf(X, Z, c)
  <2>1. Adds(X, Z, f, n, c, t1.seq[c])
    BY <1>9, <1>17, <1>21, <1>22, <1>23, <1>26 DEF Adds
  <2>2. QED
    BY <1>32, <1>34, <2>1, FrameHeld
<1>36. OthersAre(t, ws, c, Z)
  <2>1. SameOthers(st, t, writer, ws, c)
    BY <1>8, <1>32, <1>34 DEF SameOthers
  <2>2. QED
    BY <1>1, <1>30, <1>31, <1>35, <2>1, OthersHeld, Zenon
<1>37. Ready(t, ws, Z)
  BY <1>26, <1>32, <1>35, <1>36 DEF Ready, OthersAre
<1>38. Runs(t, ws, X, todo')
  BY <1>29, <1>32, <1>34, <1>37 DEF Runs
<1>39. QED
  BY <1>2, <1>4, <1>38 DEF X

-----------------------------------------------------------------------------
(* The disk, crashes and mounts. *)

LEMMA NInit == Init => NInv
<1> SUFFICES ASSUME Init PROVE NInv
  OBVIOUS
<1> DEFINE zero == [c \in Chn |-> 0]
           super == [ok |-> TRUE, wptr |-> 0, wrapped |-> FALSE]
<1>1. 0 \in Slot /\ 0 \in Chunk /\ 0 \in 0 .. ChunkUnits /\ 0 \in 0 .. MaxSegSeq /\ AnyType \in RecType
  BY FormatAssumption DEF Slot, Chunk, AnyType
<1>2. zero \in Counts /\ super \in Super /\ Unwritten \in IndexSlot /\ Blank \in Cell
  BY <1>1 DEF Counts, Super, Unwritten, IndexSlot, Blank, Cell
<1>3. /\ file = Formatted /\ platter = Formatted /\ todo = <<>> /\ sb = super
      /\ st = [next |-> 0, seq |-> zero] /\ writer = [c \in Chn |-> Idle]
      /\ phase = "up" /\ used = {} /\ ~reused
  BY DEF Init
<1>4. \A p \in Place : Formatted[p] = CASE p[1] = "sb"   -> super
                                        [] p[1] = "next" -> 0
                                        [] p[1] = "seq"  -> zero
                                        [] p[1] = "slot" -> Unwritten
                                        [] p[1] = "unit" -> Blank
  BY DEF Formatted
<1> HIDE DEF zero, super
<1>5. \A k \in Copy : /\ Formatted[<<"sb", k>>] = super /\ Formatted[<<"next", k>>] = 0
                      /\ Formatted[<<"seq", k>>] = zero
  BY <1>4, Places
<1>6. \A i \in Slot : Formatted[<<"slot", i>>] = Unwritten
  BY <1>4, Places
<1>7. \A k \in Chunk, u \in Unit : Formatted[<<"unit", k, u>>] = Blank
  BY <1>4, Places
<1>8. Typed(Formatted)
  BY <1>1, <1>2, <1>5, <1>6, <1>7, Zenon DEF Typed
<1>9. NextOn(Formatted) = 0 /\ CountsOn(Formatted) = zero
  BY <1>5, Places DEF NextOn, CountsOn
<1>10. \A i \in Slot : \A s : ~Names(SlotOn(Formatted, i), s)
  BY <1>6 DEF SlotOn, Names, Live, Unwritten
<1>11. Now.f = Formatted /\ Now.p = Formatted /\ Now.used = {}
  BY <1>3, NowFields
<1>12. UsedBelow(Now)
  BY <1>11 DEF UsedBelow
<1>13. GhostsNear(Formatted, Formatted)
  BY <1>10 DEF GhostsNear
<1>14. \A c \in Chn : CountsOn(Formatted)[c] <= CountsOn(Formatted)[c]
  BY <1>8, CountsNat
<1>15. Safe(Now)
  BY <1>8, <1>11, <1>12, <1>13, <1>14 DEF Safe, Near
<1>16. Sound(zero, Now)
  BY <1>9, <1>11, <1>14, <1>15 DEF Sound, Below
<1>17. Leads(zero, Now, <<>>, Now)
  BY <1>16, LeadsNowhere
<1>18. Ready(st, writer, Now)
  BY <1>3, <1>9, <1>11, NowFields, IdlePen DEF Ready
<1>19. st \in Tab /\ st.seq = zero /\ writer \in [Chn -> Pen]
  BY <1>1, <1>2, <1>3, IdlePen DEF Tab
<1>20. Runs(st, writer, Now, todo)
  BY <1>3, <1>17, <1>18, <1>19, Zenon DEF Runs
<1>21. QED
  BY <1>2, <1>3, <1>15, <1>20 DEF NInv

LEMMA ExecNow ==
  ASSUME phase = "up", DiskStep
  PROVE  /\ Now' = Exec(Now, Head(todo)) /\ todo # <<>> /\ todo' = Tail(todo)
         /\ ~reused /\ Allowed(Now, Head(todo)) => ~reused'
         /\ UNCHANGED <<sb, st, writer, phase>>
<1> DEFINE o == Head(todo)
<1>1. Now' = [f |-> file', p |-> platter', used |-> used']
  BY DEF Now
<1>2. \A v : Written(v) = Over(file, v)
  BY DEF Written, Over
<1>3. todo # <<>> /\ todo' = Tail(todo) /\ UNCHANGED <<sb, st, writer, phase>>
  BY DEF DiskStep
<1>4. \/ o.op = "put" /\ file' = Written(o.vals) /\ UNCHANGED <<platter, used, reused, kept>>
      \/ /\ o.op = "frame" /\ file' = Written(o.vals) /\ used' = used \cup {o.nonce}
         /\ reused' = (reused \/ o.nonce \in used) /\ UNCHANGED <<platter, kept>>
      \/ o.op = "sync" /\ platter' = file /\ UNCHANGED <<file, used, reused, kept>>
      \/ o.op \in {"finished", "taken"} /\ UNCHANGED <<file, platter, used, reused>>
  BY DEF DiskStep
<1> HIDE DEF o
<1>5. CASE o.op = "put" /\ file' = Written(o.vals) /\ UNCHANGED <<platter, used, reused, kept>>
  <2>1. Exec(Now, o) = [f |-> Over(file, o.vals), p |-> platter, used |-> used] /\ Allowed(Now, o)
    BY <1>5, NowFields DEF Exec, Allowed
  <2>2. Now' = Exec(Now, o)
    BY <1>1, <1>2, <1>5, <2>1
  <2>3. ~reused /\ Allowed(Now, o) => ~reused'
    BY <1>5, <2>1
  <2>4. QED
    BY <1>3, <2>2, <2>3 DEF o
<1>6. CASE /\ o.op = "frame" /\ file' = Written(o.vals) /\ used' = used \cup {o.nonce}
           /\ reused' = (reused \/ o.nonce \in used) /\ UNCHANGED <<platter, kept>>
  <2>1. /\ Exec(Now, o) = [f |-> Over(file, o.vals), p |-> platter, used |-> used \cup {o.nonce}]
        /\ Allowed(Now, o) <=> o.nonce \notin used
    BY <1>6, NowFields DEF Exec, Allowed
  <2>2. Now' = Exec(Now, o)
    BY <1>1, <1>2, <1>6, <2>1
  <2>3. ~reused /\ Allowed(Now, o) => ~reused'
    BY <1>6, <2>1
  <2>4. QED
    BY <1>3, <2>2, <2>3 DEF o
<1>7. CASE o.op = "sync" /\ platter' = file /\ UNCHANGED <<file, used, reused, kept>>
  <2>1. Exec(Now, o) = [f |-> file, p |-> file, used |-> used] /\ Allowed(Now, o)
    BY <1>7, NowFields DEF Exec, Allowed
  <2>2. Now' = Exec(Now, o)
    BY <1>1, <1>7, <2>1
  <2>3. ~reused /\ Allowed(Now, o) => ~reused'
    BY <1>7, <2>1
  <2>4. QED
    BY <1>3, <2>2, <2>3 DEF o
<1>8. CASE o.op \in {"finished", "taken"} /\ UNCHANGED <<file, platter, used, reused>>
  <2>1. Exec(Now, o) = [f |-> file, p |-> platter, used |-> used] /\ Allowed(Now, o)
    BY <1>8, NowFields DEF Exec, Allowed
  <2>2. Now' = Exec(Now, o)
    BY <1>1, <1>8, <2>1
  <2>3. ~reused /\ Allowed(Now, o) => ~reused'
    BY <1>8, <2>1
  <2>4. QED
    BY <1>3, <2>2, <2>3 DEF o
<1>9. QED
  BY <1>4, <1>5, <1>6, <1>7, <1>8

LEMMA DiskKeeps ==
  ASSUME NInv, DiskStep
  PROVE  NInv'
<1>1. phase = "up" /\ ~reused /\ sb \in Super /\ Runs(st, writer, Now, todo)
  BY DEF DiskStep, NInv
<1>2. /\ Now' = Exec(Now, Head(todo)) /\ todo # <<>> /\ todo' = Tail(todo)
      /\ ~reused /\ Allowed(Now, Head(todo)) => ~reused'
      /\ UNCHANGED <<sb, st, writer, phase>>
  BY <1>1, ExecNow
<1>3. PICK Y : Leads(st.seq, Now, todo, Y) /\ Ready(st, writer, Y)
  BY <1>1 DEF Runs
<1>4. Allowed(Now, Head(todo)) /\ Leads(st.seq, Exec(Now, Head(todo)), Tail(todo), Y)
  BY <1>2, <1>3, LeadsFirst
<1> DEFINE X == Now'
<1>5. X = Now' /\ X = Exec(Now, Head(todo))
  BY <1>2
<1> HIDE DEF X
<1>6. Leads(st.seq, X, todo', Y)
  BY <1>2, <1>4, <1>5
<1>7. Safe(X)
  BY <1>6, LeadsEnds DEF Sound
<1>8. Runs(st, writer, X, todo')
  BY <1>1, <1>3, <1>6 DEF Runs
<1>9. Runs(st', writer', Now', todo') /\ Safe(Now')
  BY <1>2, <1>5, <1>7, <1>8
<1>10. ~reused' /\ sb' \in Super /\ phase' = "up"
  BY <1>1, <1>2, <1>4
<1>11. QED
  BY <1>9, <1>10, Zenon DEF NInv

\* A power cut takes the SysTab of one of the disks and slots of either.
LEMMA MixedSafe ==
  ASSUME NEW X, Safe(X), NEW g, Typed(g),
         NEW d \in {X.f, X.p}, NextOn(g) = NextOn(d), CountsOn(g) = CountsOn(d),
         \A i \in Slot : SlotOn(g, i) = SlotOn(X.f, i) \/ SlotOn(g, i) = SlotOn(X.p, i)
  PROVE  Safe([f |-> g, p |-> g, used |-> X.used])
<1> DEFINE Y == [f |-> g, p |-> g, used |-> X.used]
<1>1. Y.f = g /\ Y.p = g /\ Y.used = X.used
  OBVIOUS
<1> HIDE DEF Y
<1>2. /\ Typed(X.f) /\ Typed(X.p) /\ UsedBelow(X)
      /\ GhostsNear(X.f, d) /\ GhostsNear(X.p, d)
      /\ \A c \in Chn : CountsOn(X.p)[c] <= CountsOn(X.f)[c]
  BY DEF Safe
<1>3. \A c \in Chn : CountsOn(X.p)[c] \in Nat /\ CountsOn(X.f)[c] \in Nat /\ CountsOn(g)[c] \in Nat
  BY <1>2, CountsNat
<1>4. \A c \in Chn : CountsOn(X.p)[c] <= CountsOn(g)[c] /\ CountsOn(g)[c] <= CountsOn(g)[c]
  BY <1>2, <1>3
<1>5. UsedBelow(Y)
  BY <1>1, <1>2, <1>3, <1>4 DEF UsedBelow
<1>6. GhostsNear(g, g)
  BY <1>2 DEF GhostsNear
<1>7. Near(NextOn(g), NextOn(g))
  BY DEF Near
<1>8. Safe(Y)
  BY <1>1, <1>4, <1>5, <1>6, <1>7 DEF Safe
<1>9. QED
  BY <1>8 DEF Y

LEMMA CutSafe ==
  ASSUME NoTear, NInv, PowerCut
  PROVE  Safe(Now')
<1>1. Safe(Now) /\ "tear" \notin Faults
  BY DEF NInv, NoTear
<1>2. Typed(file) /\ Typed(platter)
  BY <1>1, NowFields DEF Safe
<1>3. PICK lost \in SUBSET Dirty, torn \in SUBSET {p \in Dirty : p[1] = "sb"} :
        /\ torn = {}
        /\ \A p, q \in Dirty : SameSector(p, q) => (p \in lost <=> q \in lost)
        /\ file' = [p \in Place |-> IF p \in lost THEN platter[p]
                                    ELSE IF p \in torn THEN [file[p] EXCEPT !.ok = FALSE]
                                    ELSE file[p]]
  BY <1>1 DEF PowerCut
<1> DEFINE g == [p \in Place |-> IF p \in lost THEN platter[p]
                                 ELSE IF p \in torn THEN [file[p] EXCEPT !.ok = FALSE]
                                 ELSE file[p]]
<1>4. \A p \in Place : g[p] = IF p \in lost THEN platter[p] ELSE file[p]
  BY <1>3
<1>5. file' = g /\ platter' = g /\ used' = used
  BY <1>3 DEF PowerCut, Down
<1> HIDE DEF g
<1>6. Typed(g)
  <2>1. ASSUME NEW k \in Copy
        PROVE  g[<<"sb", k>>] \in Super /\ g[<<"next", k>>] \in Slot /\ g[<<"seq", k>>] \in Counts
    BY <1>2, <1>4, Places, Zenon DEF Typed
  <2>2. ASSUME NEW i \in Slot PROVE g[<<"slot", i>>] \in IndexSlot
    BY <1>2, <1>4, Places, Zenon DEF Typed
  <2>3. ASSUME NEW k \in Chunk, NEW u \in Unit PROVE g[<<"unit", k, u>>] \in Cell
    BY <1>2, <1>4, Places, Zenon DEF Typed
  <2>4. QED
    BY <2>1, <2>2, <2>3, Zenon DEF Typed
<1>7. \A i \in Slot : SlotOn(g, i) = SlotOn(file, i) \/ SlotOn(g, i) = SlotOn(platter, i)
  BY <1>4, Places, Zenon DEF SlotOn
<1> DEFINE a == <<"next", "main">>
           z == <<"seq", "main">>
<1>8. /\ a \in Place /\ z \in Place /\ SameSector(a, z)
  BY Places DEF SameSector
<1>9. \A p \in Place : p \notin Dirty => file[p] = platter[p]
  BY DEF Dirty
<1>10. \E d \in {Now.f, Now.p} : NextOn(g) = NextOn(d) /\ CountsOn(g) = CountsOn(d)
  <2>1. NextOn(g) = g[a] /\ CountsOn(g) = g[z]
    BY DEF NextOn, CountsOn
  <2>2. \A d : NextOn(d) = d[a] /\ CountsOn(d) = d[z]
    BY DEF NextOn, CountsOn
  <2> HIDE DEF a, z
  <2>3. CASE a \in lost \/ z \in lost
    <3>1. g[a] = platter[a] /\ g[z] = platter[z]
      BY <1>3, <1>4, <1>8, <1>9, <2>3, Zenon
    <3>2. QED
      BY <2>1, <2>2, <3>1, NowFields
  <2>4. CASE ~(a \in lost \/ z \in lost)
    <3>1. g[a] = file[a] /\ g[z] = file[z]
      BY <1>4, <1>8, <2>4, Zenon
    <3>2. QED
      BY <2>1, <2>2, <3>1, NowFields
  <2>5. QED
    BY <2>3, <2>4
<1>11. Safe([f |-> g, p |-> g, used |-> Now.used])
  BY <1>1, <1>6, <1>7, <1>10, MixedSafe, NowFields
<1>12. Now' = [f |-> g, p |-> g, used |-> Now.used]
  BY <1>5, NowFields DEF Now
<1>13. QED
  BY <1>11, <1>12

LEMMA DownKeeps ==
  ASSUME NInv, Down, Safe(Now')
  PROVE  NInv'
<1>1. /\ ~reused /\ reused' = reused /\ phase' = "down" /\ todo' = <<>>
      /\ writer' = [c \in Chn |-> Idle]
      /\ sb' = [ok |-> TRUE, wptr |-> 0, wrapped |-> FALSE]
  BY DEF NInv, Down
<1>2. 0 \in Chunk
  BY FormatAssumption DEF Chunk
<1>3. sb' \in Super
  BY <1>1, <1>2 DEF Super
<1>4. QED
  BY <1>1, <1>3 DEF NInv

LEMMA MountKeeps ==
  ASSUME NInv, Mount
  PROVE  NInv'
<1>1. /\ ~reused /\ Safe(Now) /\ sb \in Super /\ todo = <<>> /\ writer = [c \in Chn |-> Idle]
      /\ phase = "down"
  BY DEF NInv, Mount
<1>2. Now' = Now /\ UNCHANGED <<todo, writer, reused>>
  BY DEF Mount, Now
<1>3. Typed(file)
  BY <1>1, NowFields DEF Safe
<1>4. CASE ~file[<<"sb", "main">>].ok
  <2>1. phase' = "refused" /\ UNCHANGED <<sb, st>>
    BY <1>4 DEF Mount
  <2>2. QED
    BY <1>1, <1>2, <2>1 DEF NInv
<1>5. CASE file[<<"sb", "main">>].ok
  <2> DEFINE t == [next |-> NextOn(file), seq |-> CountsOn(file)]
             b == file[<<"sb", "main">>]
             ws == writer'
  <2>1. phase' = "up" /\ sb' = b /\ st' = t
    BY <1>5 DEF Mount, NextOn, CountsOn
  <2>2. b \in Super /\ t \in Tab /\ t.seq = CountsOn(file) /\ t.next = NextOn(file)
    <3>1. b \in Super
      BY <1>3, Places DEF Typed
    <3>2. NextOn(file) \in Slot /\ CountsOn(file) \in Counts
      BY <1>3, CountsNat
    <3>3. QED
      BY <3>1, <3>2 DEF Tab
  <2> HIDE DEF t, b
  <2>3. Below(Now, t.seq)
    BY <1>3, <2>2, CountsNat, NowFields DEF Below
  <2>4. Leads(t.seq, Now, <<>>, Now)
    BY <1>1, <2>3, LeadsNowhere DEF Sound
  <2>5. writer \in [Chn -> Pen] /\ \A c \in Chn : ~writer[c].open
    BY <1>1, IdlePen
  <2>6. Ready(t, writer, Now)
    BY <2>2, <2>5, NowFields DEF Ready
  <2>7. Runs(t, writer, Now, <<>>)
    BY <2>2, <2>4, <2>5, <2>6 DEF Runs
  <2>8. Runs(st', writer', Now', todo') /\ Safe(Now')
    BY <1>1, <1>2, <2>1, <2>7
  <2>9. ~reused' /\ sb' \in Super /\ phase' = "up"
    BY <1>1, <1>2, <2>1, <2>2
  <2>10. QED
    BY <2>8, <2>9, Zenon DEF NInv
<1>6. QED
  BY <1>4, <1>5

-----------------------------------------------------------------------------
(* The theorem. *)

LEMMA CallKeeps ==
  ASSUME NInv, phase = "up", UNCHANGED <<file, platter, used, reused, phase>>,
         Runs(st', writer', Now, todo'), sb' \in Super
  PROVE  NInv'
<1>1. Now' = Now
  BY DEF Now
<1>2. ~reused' /\ Safe(Now') /\ phase' = "up" /\ Runs(st', writer', Now', todo')
  BY <1>1 DEF NInv
<1>3. QED
  BY <1>2 DEF NInv

LEMMA NNext ==
  ASSUME LongRing, NoTear, NInv, [Next]_vars
  PROVE  NInv'
<1>1. sb \in Super
  BY DEF NInv
<1>2. ASSUME NEW c \in Chn, OpenWriter(c) PROVE NInv'
  <2>1. phase = "up" /\ UNCHANGED <<file, platter, used, reused, phase>>
    BY <1>2 DEF OpenWriter, Calling
  <2>2. QED
    BY <1>2, <2>1, OpenStep, CallKeeps
<1>3. ASSUME NEW c \in Chn, CloseWriter(c) PROVE NInv'
  <2>1. phase = "up" /\ UNCHANGED <<file, platter, used, reused, phase, sb>>
    BY <1>3 DEF CloseWriter, Calling
  <2>2. QED
    BY <1>1, <1>3, <2>1, CloseStep, CallKeeps
<1>4. ASSUME NEW c \in Chn, NEW n \in FrameUnits, FirstFrame(c, n) PROVE NInv'
  <2>1. phase = "up" /\ UNCHANGED <<file, platter, used, reused, phase, sb>>
    BY <1>4 DEF FirstFrame, Calling
  <2>2. QED
    BY <1>1, <1>4, <2>1, FirstStep, CallKeeps
<1>5. ASSUME NEW c \in Chn, NEW n \in FrameUnits, NextFrame(c, n) PROVE NInv'
  <2>1. phase = "up" /\ UNCHANGED <<file, platter, used, reused, phase, sb>>
    BY <1>5 DEF NextFrame, Calling
  <2>2. QED
    BY <1>1, <1>5, <2>1, NextStep, CallKeeps
<1>6. ASSUME NEW c \in Chn, NEW n \in FrameUnits, RollFrame(c, n) PROVE NInv'
  <2>1. phase = "up" /\ UNCHANGED <<file, platter, used, reused, phase>>
    BY <1>6 DEF RollFrame, Calling
  <2>2. QED
    BY <1>6, <2>1, RollStep, CallKeeps
<1>7. CASE DiskStep
  BY <1>7, DiskKeeps
<1>8. CASE Kill
  <2>1. Now' = Now /\ Down
    BY <1>8 DEF Kill, Down, Now
  <2>2. Safe(Now')
    BY <2>1 DEF NInv
  <2>3. QED
    BY <2>1, <2>2, DownKeeps
<1>9. CASE PowerCut
  <2>1. Down
    BY <1>9 DEF PowerCut
  <2>2. QED
    BY <1>9, <2>1, CutSafe, DownKeeps
<1>10. CASE Mount
  BY <1>10, MountKeeps
<1>11. CASE UNCHANGED vars
  <2>1. UNCHANGED <<file, platter, todo, sb, st, writer, phase, used, reused>>
    BY <1>11 DEF vars
  <2>2. Now' = Now
    BY <2>1 DEF Now
  <2>3. Runs(st', writer', Now', todo') <=> Runs(st, writer, Now, todo)
    BY <2>1, <2>2
  <2>4. QED
    BY <2>1, <2>2, <2>3 DEF NInv
<1>12. QED
  BY <1>2, <1>3, <1>4, <1>5, <1>6, <1>7, <1>8, <1>9, <1>10, <1>11 DEF Next

(***************************************************************************)
(* No CTR nonce (seg_id, frame_seq) is used for two frames, whatever       *)
(* crashes come between the disk operations of rsdk_rec.c, rsdk_index.c    *)
(* and rsdk_dev.c, for any number of channels, chunks, slots and crashes,  *)
(* on a disk whose index ring is longer than the look-back of              *)
(* rsdk_index_write and whose sectors are written whole.                   *)
(***************************************************************************)
THEOREM NoncesUnique ==
  ASSUME LongRing, NoTear
  PROVE  Spec => []NonceUnique
<1>1. NInv => NonceUnique
  BY DEF NInv, NonceUnique
<1>2. NInv /\ [Next]_vars => NInv'
  BY NNext
<1>3. QED
  BY NInit, <1>1, <1>2, PTL DEF Spec

-----------------------------------------------------------------------------
(* Types, whichever faults there are. *)

Fit(o)  == o.op \in {"put", "frame"} => TypedVals(o.vals)
Fits(s) == \E S : s \in Seq(S) /\ \A o \in S : Fit(o)

(***************************************************************************)
(* The operations left write what the places hold, and a writer without a  *)
(* frame is at the start of its chunk.                                     *)
(***************************************************************************)
TInv ==
  /\ Typed(file) /\ Typed(platter) /\ Fits(todo)
  /\ sb \in Super /\ st \in Tab /\ writer \in [Chn -> Pen]
  /\ \A c \in Chn : writer[c].count = 0 => writer[c].off = 0
  /\ phase \in {"up", "down", "refused"}

LEMMA FitsIn ==
  ASSUME NEW s, NEW S, s \in Seq(S), \A o \in S : Fit(o)
  PROVE  Fits(s)
BY DEF Fits

LEMMA FitsNone == Fits(<<>>)
<1> DEFINE s == <<>>
           S == {}
<1>1. s \in Seq(S) /\ \A o \in S : Fit(o)
  OBVIOUS
<1> HIDE DEF s, S
<1>2. Fits(s)
  BY <1>1, FitsIn
<1>3. QED
  BY <1>2 DEF s

LEMMA FitsOne ==
  ASSUME NEW o, Fit(o)
  PROVE  Fits(<<o>>)
<1> DEFINE s == <<o>>
<1>1. s \in Seq({o}) /\ \A r \in {o} : Fit(r)
  OBVIOUS
<1> HIDE DEF s
<1>2. Fits(s)
  BY <1>1, FitsIn
<1>3. QED
  BY <1>2 DEF s

LEMMA FitsTwo ==
  ASSUME NEW o, NEW p, Fit(o), Fit(p)
  PROVE  Fits(<<o, p>>)
<1> DEFINE s == <<o, p>>
<1>1. s \in Seq({o, p}) /\ \A r \in {o, p} : Fit(r)
  OBVIOUS
<1> HIDE DEF s
<1>2. Fits(s)
  BY <1>1, FitsIn
<1>3. QED
  BY <1>2 DEF s

LEMMA FitsOn ==
  ASSUME NEW s, NEW t, Fits(s), Fits(t)
  PROVE  Fits(s \o t)
<1>1. PICK S : s \in Seq(S) /\ \A o \in S : Fit(o)
  BY DEF Fits
<1>2. PICK T : t \in Seq(T) /\ \A o \in T : Fit(o)
  BY DEF Fits
<1>3. s \in Seq(S \cup T) /\ t \in Seq(S \cup T)
  BY <1>1, <1>2
<1>4. s \o t \in Seq(S \cup T)
  BY <1>3, ConcatProperties
<1>5. \A o \in S \cup T : Fit(o)
  BY <1>1, <1>2
<1>6. QED
  BY <1>4, <1>5, Zenon DEF Fits

LEMMA FitsFirst ==
  ASSUME NEW s, Fits(s), s # <<>>
  PROVE  Fit(Head(s)) /\ Fits(Tail(s))
<1>1. PICK S : s \in Seq(S) /\ \A o \in S : Fit(o)
  BY DEF Fits
<1>2. Head(s) \in S /\ Tail(s) \in Seq(S)
  BY <1>1
<1>3. Fits(Tail(s))
  BY <1>1, <1>2, Zenon DEF Fits
<1>4. QED
  BY <1>1, <1>2, <1>3

LEMMA CopyFits ==
  ASSUME NEW k \in Copy, NEW b \in Super, NEW t \in Tab
  PROVE  Fits(PutCopy(k, b, t))
<1> DEFINE o == PutAt(<<"sb", k>>, b)
           p == Put(TabVals(k, t))
<1>1. PutCopy(k, b, t) = <<o, p>>
  BY DEF PutCopy, TabVals
<1>2. Fit(o)
  <2> DEFINE v == [q \in {<<"sb", k>>} |-> b]
  <2>1. o.vals = v
    BY DEF PutAt, Put
  <2>2. DOMAIN v = {<<"sb", k>>} /\ v[<<"sb", k>>] = b
    OBVIOUS
  <2> HIDE DEF v
  <2>3. TypedVals(v)
    BY <2>2 DEF TypedVals
  <2>4. QED
    BY <2>1, <2>3 DEF Fit
<1>3. Fit(p)
  <2> DEFINE v == TabVals(k, t)
  <2>1. p.vals = v
    BY DEF Put
  <2>2. \A q \in DOMAIN v : /\ q[1] \in {"next", "seq"}
                            /\ v[q] = IF q[1] = "next" THEN t.next ELSE t.seq
    BY DEF TabVals
  <2> HIDE DEF v
  <2>3. \A j, u : /\ <<"sb", j>>[1] = "sb" /\ <<"next", j>>[1] = "next" /\ <<"seq", j>>[1] = "seq"
                  /\ <<"slot", j>>[1] = "slot" /\ <<"unit", j, u>>[1] = "unit"
    OBVIOUS
  <2>4. t.next \in Slot /\ t.seq \in Counts
    BY DEF Tab
  <2>5. \A j \in Copy : /\ <<"sb", j>> \notin DOMAIN v
                        /\ <<"next", j>> \in DOMAIN v => v[<<"next", j>>] = t.next
                        /\ <<"seq", j>> \in DOMAIN v => v[<<"seq", j>>] = t.seq
    BY <2>2, <2>3
  <2>6. /\ \A i \in Slot : <<"slot", i>> \notin DOMAIN v
        /\ \A j \in Chunk, u \in Unit : <<"unit", j, u>> \notin DOMAIN v
    BY <2>2, <2>3
  <2>7. TypedVals(v)
    BY <2>4, <2>5, <2>6 DEF TypedVals
  <2>8. QED
    BY <2>1, <2>7 DEF Fit
<1> HIDE DEF o, p
<1>4. QED
  BY <1>1, <1>2, <1>3, FitsTwo

LEMMA SyncFits == Fit(Sync) /\ Fits(<<Sync>>)
<1>1. Fit(Sync)
  BY DEF Fit, Sync
<1>2. QED
  BY <1>1, FitsOne

LEMMA FlushFits ==
  ASSUME NEW b \in Super, NEW t \in Tab
  PROVE  Fits(Flush(b, t))
<1>1. Fits(PutCopy("bak", b, t)) /\ Fits(PutCopy("main", b, t))
  BY CopyFits, Places
<1>2. Fits(PutCopy("bak", b, t) \o <<Sync>>)
  BY <1>1, SyncFits, FitsOn
<1>3. Fits(PutCopy("bak", b, t) \o <<Sync>> \o PutCopy("main", b, t))
  BY <1>1, <1>2, FitsOn
<1>4. Fits(PutCopy("bak", b, t) \o <<Sync>> \o PutCopy("main", b, t) \o <<Sync>>)
  BY <1>3, SyncFits, FitsOn
<1>5. QED
  BY <1>4 DEF Flush

\* An index: the ring of slots and where it is appended.
Index == [slot : [Slot -> IndexSlot], next : Slot]

LEMMA IndexFits ==
  ASSUME NEW ix \in Index, NEW e \in IndexSlot, NEW b \in Super, NEW t \in Tab
  PROVE  Fits(IndexOps(ix, e, b, t)) /\ IndexWrite(ix, e) \in Index
<1> DEFINE i == Target(ix, e)
           o == PutAt(<<"slot", i>>, e)
           jx == IndexWrite(ix, e)
           u == [t EXCEPT !.next = jx.next]
<1>1. ix.slot \in [Slot -> IndexSlot] /\ ix.next \in Slot
  BY DEF Index
<1>2. /\ i \in Slot /\ jx.slot \in [Slot -> IndexSlot]
      /\ jx.next \in Slot
  BY <1>1, WriteSlot, RingSlots
<1>3. jx \in Index
  BY <1>2 DEF Index, IndexWrite
<1>4. Fit(o)
  <2> DEFINE v == [q \in {<<"slot", i>>} |-> e]
  <2>1. o.vals = v
    BY DEF PutAt, Put
  <2>2. DOMAIN v = {<<"slot", i>>} /\ v[<<"slot", i>>] = e
    OBVIOUS
  <2> HIDE DEF v, i
  <2>3. TypedVals(v)
    BY <2>2 DEF TypedVals
  <2>4. QED
    BY <2>1, <2>3 DEF Fit
<1>5. u \in Tab
  BY <1>2 DEF Tab
<1> HIDE DEF i, o, u, jx
<1>6. Fits(<<o, Sync>>)
  BY <1>4, SyncFits, FitsTwo
<1>7. Fits(<<o, Sync>> \o <<>>) /\ Fits(<<o, Sync>> \o Flush(b, u))
  BY <1>5, <1>6, FitsNone, FlushFits, FitsOn
<1>8. IndexOps(ix, e, b, t) = <<o, Sync>> \o IF Found(ix, e.seg) # {} THEN <<>> ELSE Flush(b, u)
  BY DEF IndexOps, o, i, u, jx
<1>9. Fits(IndexOps(ix, e, b, t))
  BY <1>7, <1>8
<1>10. QED
  BY <1>3, <1>9 DEF jx

LEMMA ReclaimFits ==
  ASSUME NEW ix \in Index, NEW b \in Super, NEW k
  PROVE  Fits(ReclaimOps(ix, b, k)) /\ Reclaimed(ix, b, k) \in Index
<1> DEFINE hit == {i \in Slot : Live(ix.slot[i]) /\ ix.slot[i].chunk = k}
           v == FreeVals(ix, hit)
           o == Put(v)
<1>1. ix.slot \in [Slot -> IndexSlot] /\ ix.next \in Slot
  BY DEF Index
<1>2. \A j \in Slot : ix.slot[j] \in IndexSlot /\ Freed(ix.slot[j]) \in IndexSlot
  BY <1>1 DEF Freed, IndexSlot
<1>3. Reclaimed(ix, b, k) \in Index
  <2>1. InvalidateChunk(ix, k) \in Index
    BY <1>1, <1>2 DEF InvalidateChunk, Index
  <2>2. QED
    BY <2>1 DEF Reclaimed
<1>4. hit \subseteq Slot
  OBVIOUS
<1> HIDE DEF hit
<1>5. \A q \in DOMAIN v : q[1] = "slot"
  BY DEF FreeVals
<1>6. \A j \in Slot : <<"slot", j>> \in DOMAIN v => v[<<"slot", j>>] = Freed(ix.slot[j])
  BY DEF FreeVals
<1>7. o.vals = v
  BY DEF Put
<1> HIDE DEF v
<1>8. /\ \A j \in Copy : /\ <<"sb", j>> \notin DOMAIN v /\ <<"next", j>> \notin DOMAIN v
                         /\ <<"seq", j>> \notin DOMAIN v
      /\ \A j \in Chunk, u \in Unit : <<"unit", j, u>> \notin DOMAIN v
  <2>1. \A j, u : /\ <<"sb", j>>[1] = "sb" /\ <<"next", j>>[1] = "next"
                  /\ <<"seq", j>>[1] = "seq" /\ <<"unit", j, u>>[1] = "unit"
    OBVIOUS
  <2>2. QED
    BY <1>5, <2>1
<1>9. TypedVals(v)
  BY <1>2, <1>6, <1>8, Zenon DEF TypedVals
<1>10. Fit(o)
  BY <1>7, <1>9 DEF Fit
<1>11. Fit(Taken(k))
  BY DEF Fit, Taken
<1>12. ReclaimOps(ix, b, k) = <<Taken(k)>> \o IF ~b.wrapped \/ hit = {} THEN <<>> ELSE <<o, Sync>>
  BY DEF ReclaimOps, FreeVals, v, hit
<1> HIDE DEF o
<1>13. Fits(<<Taken(k)>>) /\ Fits(<<o, Sync>>)
  BY <1>10, <1>11, SyncFits, FitsOne, FitsTwo
<1>14. Fits(<<Taken(k)>> \o <<>>) /\ Fits(<<Taken(k)>> \o <<o, Sync>>)
  BY <1>13, FitsNone, FitsOn
<1>15. QED
  BY <1>3, <1>12, <1>14

LEMMA FrameFits ==
  ASSUME NEW w \in Pen, NEW n \in FrameUnits
  PROVE  Fits(<<FrameOp(w, n)>>)
<1> DEFINE v == FrameOp(w, n).vals
<1>1. w.seg \in Seg \cup {NoSeg} /\ w.count \in Nat /\ n \in Nat
  BY FormatAssumption DEF Pen
<1>2. \A p \in DOMAIN v : p[1] = "unit" /\ v[p] \in Cell
  BY <1>1 DEF FrameOp, Cell
<1> HIDE DEF v
<1>3. /\ \A k \in Copy : /\ <<"sb", k>> \notin DOMAIN v /\ <<"next", k>> \notin DOMAIN v
                         /\ <<"seq", k>> \notin DOMAIN v
      /\ \A j \in Slot : <<"slot", j>> \notin DOMAIN v
  <2>1. \A k : /\ <<"sb", k>>[1] = "sb" /\ <<"next", k>>[1] = "next"
               /\ <<"seq", k>>[1] = "seq" /\ <<"slot", k>>[1] = "slot"
    OBVIOUS
  <2>2. QED
    BY <1>2, <2>1
<1>4. TypedVals(v)
  BY <1>2, <1>3, Zenon DEF TypedVals
<1>5. Fit(FrameOp(w, n))
  BY <1>4 DEF Fit, v
<1>6. QED
  BY <1>5, FitsOne

\* What a call leaves, in the form that TInv needs.
CallTyped == /\ Fits(todo') /\ sb' \in Super /\ st' \in Tab /\ writer' \in [Chn -> Pen]
           /\ \A c \in Chn : writer'[c].count = 0 => writer'[c].off = 0

LEMMA IxTyped ==
  ASSUME TInv
  PROVE  Ix \in Index
<1>1. st.next \in Slot /\ \A i \in Slot : file[<<"slot", i>>] \in IndexSlot
  BY DEF TInv, Typed, Tab
<1>2. QED
  BY <1>1 DEF Ix, Index

LEMMA NewPen ==
  ASSUME TInv, NEW c \in Chn, NEW w \in Pen, w.count = 0 => w.off = 0
  PROVE  LET ws == [writer EXCEPT ![c] = w] IN
         /\ ws \in [Chn -> Pen]
         /\ \A a \in Chn : ws[a].count = 0 => ws[a].off = 0
BY DEF TInv

LEMMA AfterCount ==
  ASSUME NEW w \in Pen, NEW n \in FrameUnits, w.off + n <= ChunkUnits
  PROVE  After(w, n) \in Pen /\ After(w, n).count # 0
<1>1. After(w, n) \in Pen /\ After(w, n).count = w.count + 1 /\ w.count \in Nat
  BY PenAfter DEF Pen
<1>2. QED
  BY <1>1

LEMMA OpenTypes ==
  ASSUME TInv, NEW c \in Chn, OpenWriter(c)
  PROVE  CallTyped
<1> DEFINE b == Moved(sb)
           t == Started(st, c)
           k == sb.wptr
           f == Fresh(t, c, k)
<1>1. /\ sb' = b /\ st' = t /\ writer' = [writer EXCEPT ![c] = f] /\ todo' = ReclaimOps(Ix, b, k)
      /\ st.seq[c] < MaxSegSeq
  BY DEF OpenWriter
<1>2. sb \in Super /\ st \in Tab
  BY DEF TInv
<1>3. b \in Super /\ k \in Chunk
  BY <1>2, MovedSuper
<1>4. t \in Tab /\ <<c, t.seq[c]>> \in Seg
  BY <1>1, <1>2, StartedTab
<1> HIDE DEF b, t, k
<1>5. f \in Pen /\ f.off = 0
  BY <1>3, <1>4, PenFresh
<1> HIDE DEF f
<1>6. Fits(todo')
  BY <1>1, <1>3, IxTyped, ReclaimFits
<1>7. QED
  BY <1>1, <1>3, <1>4, <1>5, <1>6, NewPen DEF CallTyped

LEMMA FirstTypes ==
  ASSUME TInv, NEW c \in Chn, NEW n \in FrameUnits, FirstFrame(c, n)
  PROVE  CallTyped
<1> DEFINE w == writer[c]
           e == SlotOf(w, "open")
           jx == IndexWrite(Ix, e)
           t == [st EXCEPT !.next = jx.next]
           v == After(w, n)
<1>1. /\ sb' = sb /\ st' = t /\ writer' = [writer EXCEPT ![c] = v]
      /\ todo' = IndexOps(Ix, e, sb, st) \o <<FrameOp(w, n)>>
      /\ w.count = 0 /\ n <= ChunkUnits
  BY DEF FirstFrame
<1>2. sb \in Super /\ st \in Tab /\ w \in Pen /\ w.off = 0
  BY <1>1 DEF TInv
<1>3. v \in Pen /\ v.count # 0
  <2>1. w.off + n <= ChunkUnits
    BY <1>1, <1>2, FormatAssumption
  <2>2. QED
    BY <1>2, <2>1, AfterCount
<1>4. e \in IndexSlot
  BY <1>2, PenSlot
<1> HIDE DEF e, v
<1>5. Fits(IndexOps(Ix, e, sb, st)) /\ jx \in Index
  BY <1>2, <1>4, IxTyped, IndexFits
<1>6. t \in Tab
  BY <1>2, <1>5 DEF Tab, Index
<1> HIDE DEF jx, t
<1>7. Fits(<<FrameOp(w, n)>>)
  BY <1>2, FrameFits
<1>8. Fits(todo')
  BY <1>1, <1>5, <1>7, FitsOn
<1>9. QED
  BY <1>1, <1>2, <1>3, <1>6, <1>8, NewPen DEF CallTyped

LEMMA NextTypes ==
  ASSUME TInv, NEW c \in Chn, NEW n \in FrameUnits, NextFrame(c, n)
  PROVE  CallTyped
<1> DEFINE w == writer[c]
           v == After(w, n)
<1>1. /\ sb' = sb /\ st' = st /\ writer' = [writer EXCEPT ![c] = v]
      /\ todo' = <<FrameOp(w, n)>> /\ w.off + n <= ChunkUnits
  BY DEF NextFrame
<1>2. sb \in Super /\ st \in Tab /\ w \in Pen
  BY DEF TInv
<1>3. v \in Pen /\ v.count # 0
  BY <1>1, <1>2, AfterCount
<1> HIDE DEF v
<1>4. Fits(todo')
  BY <1>1, <1>2, FrameFits
<1>5. QED
  BY <1>1, <1>2, <1>3, <1>4, NewPen DEF CallTyped

\* The slot of the segment that is closed.
LEMMA ClosingFits ==
  ASSUME TInv, NEW w \in Pen
  PROVE  Fits(ClosingOps(Ix, w)) /\ Closing(Ix, w) \in Index
<1> DEFINE e == SlotOf(w, "valid")
<1>1. sb \in Super /\ st \in Tab /\ Ix \in Index
  BY IxTyped DEF TInv
<1>2. e \in IndexSlot
  BY PenSlot
<1> HIDE DEF e
<1>3. Fits(IndexOps(Ix, e, sb, st)) /\ IndexWrite(Ix, e) \in Index
  BY <1>1, <1>2, IndexFits
<1>4. Fit(Finished(w))
  BY DEF Fit, Finished
<1>5. Fits(IndexOps(Ix, e, sb, st) \o <<Finished(w)>>)
  BY <1>3, <1>4, FitsOne, FitsOn
<1>6. QED
  BY <1>1, <1>3, <1>5, FitsNone DEF Closing, ClosingOps, e

LEMMA CloseTypes ==
  ASSUME TInv, NEW c \in Chn, CloseWriter(c)
  PROVE  CallTyped
<1> DEFINE w == writer[c]
           x1 == Closing(Ix, w)
           t == [st EXCEPT !.next = x1.next]
<1>1. /\ sb' = sb /\ st' = t /\ writer' = [writer EXCEPT ![c] = Idle]
      /\ todo' = ClosingOps(Ix, w) \o Flush(sb, t)
  BY DEF CloseWriter
<1>2. sb \in Super /\ st \in Tab /\ w \in Pen
  BY DEF TInv
<1>3. Fits(ClosingOps(Ix, w)) /\ x1 \in Index
  BY <1>2, ClosingFits
<1>4. t \in Tab
  BY <1>2, <1>3 DEF Tab, Index
<1> HIDE DEF x1, t
<1>5. Fits(todo')
  BY <1>1, <1>2, <1>3, <1>4, FlushFits, FitsOn
<1>6. Idle \in Pen /\ Idle.off = 0
  BY IdlePen DEF Idle
<1>7. QED
  BY <1>1, <1>2, <1>4, <1>5, <1>6, NewPen DEF CallTyped

LEMMA RollTypes ==
  ASSUME TInv, NEW c \in Chn, NEW n \in FrameUnits, RollFrame(c, n)
  PROVE  CallTyped
<1> DEFINE w  == writer[c]
           k  == sb.wptr
           b  == Moved(sb)
           x1 == Closing(Ix, w)
           s1 == [st EXCEPT !.next = x1.next]
           t1 == Started(s1, c)
           f  == Fresh(t1, c, k)
           e  == SlotOf(f, "open")
           x2 == Reclaimed(x1, b, k)
           jx == IndexWrite(x2, e)
           t  == [t1 EXCEPT !.next = jx.next]
           v  == After(f, n)
<1>1. /\ sb' = b /\ st' = t /\ writer' = [writer EXCEPT ![c] = v]
      /\ todo' = ClosingOps(Ix, w) \o ReclaimOps(x1, b, k) \o IndexOps(x2, e, b, t1)
                 \o <<FrameOp(f, n)>>
      /\ n <= ChunkUnits /\ st.seq[c] < MaxSegSeq
  BY DEF RollFrame
<1>2. sb \in Super /\ st \in Tab /\ w \in Pen
  BY DEF TInv
<1>3. b \in Super /\ k \in Chunk
  BY <1>2, MovedSuper
<1> HIDE DEF b, k
<1>4. Fits(ClosingOps(Ix, w)) /\ x1 \in Index
  BY <1>2, ClosingFits
<1> HIDE DEF x1, w
<1>5. s1 \in Tab /\ s1.seq = st.seq
  BY <1>2, <1>4 DEF Tab, Index
<1>6. s1.seq[c] < MaxSegSeq
  BY <1>1, <1>5
<1> HIDE DEF s1
<1>7. t1 \in Tab /\ <<c, t1.seq[c]>> \in Seg
  BY <1>5, <1>6, StartedTab
<1> HIDE DEF t1
<1>8. f \in Pen /\ f.off = 0
  BY <1>3, <1>7, PenFresh
<1> HIDE DEF f
<1>9. v \in Pen /\ v.count # 0
  <2>1. f.off + n <= ChunkUnits
    BY <1>1, <1>8, FormatAssumption
  <2>2. QED
    BY <1>8, <2>1, AfterCount
<1>10. e \in IndexSlot
  BY <1>8, PenSlot
<1> HIDE DEF e, v
<1>11. Fits(ReclaimOps(x1, b, k)) /\ x2 \in Index
  BY <1>3, <1>4, ReclaimFits
<1> HIDE DEF x2
<1>12. Fits(IndexOps(x2, e, b, t1)) /\ jx \in Index
  BY <1>3, <1>7, <1>10, <1>11, IndexFits
<1>13. t \in Tab
  BY <1>7, <1>12 DEF Tab, Index
<1> HIDE DEF jx, t
<1>14. Fits(<<FrameOp(f, n)>>)
  BY <1>8, FrameFits
<1>15. Fits(ClosingOps(Ix, w) \o ReclaimOps(x1, b, k))
  BY <1>4, <1>11, FitsOn
<1>16. Fits(ClosingOps(Ix, w) \o ReclaimOps(x1, b, k) \o IndexOps(x2, e, b, t1))
  BY <1>12, <1>15, FitsOn
<1>17. Fits(todo')
  BY <1>1, <1>14, <1>16, FitsOn
<1>18. QED
  BY <1>1, <1>3, <1>9, <1>13, <1>17, NewPen DEF CallTyped

LEMMA DiskTypes ==
  ASSUME TInv, DiskStep
  PROVE  TInv'
<1> DEFINE o == Head(todo)
<1>1. Fits(todo) /\ todo # <<>> /\ Typed(file) /\ Typed(platter)
  BY DEF TInv, DiskStep
<1>2. Fit(o) /\ Fits(Tail(todo))
  BY <1>1, FitsFirst
<1>3. todo' = Tail(todo) /\ UNCHANGED <<sb, st, writer, phase>>
  BY DEF DiskStep
<1>4. \/ o.op \in {"put", "frame"} /\ file' = Written(o.vals) /\ platter' = platter
      \/ platter' = file /\ file' = file
      \/ file' = file /\ platter' = platter
  BY DEF DiskStep
<1> HIDE DEF o
<1>5. \A v : Written(v) = Over(file, v)
  BY DEF Written, Over
<1>6. Typed(file') /\ Typed(platter')
  <2>1. CASE o.op \in {"put", "frame"} /\ file' = Written(o.vals) /\ platter' = platter
    <3>1. TypedVals(o.vals)
      BY <1>2, <2>1 DEF Fit
    <3>2. Typed(Over(file, o.vals))
      BY <1>1, <3>1, OverTyped
    <3>3. QED
      BY <1>1, <1>5, <2>1, <3>2
  <2>2. QED
    BY <1>1, <1>4, <2>1
<1>7. QED
  BY <1>2, <1>3, <1>6 DEF TInv

LEMMA CrashTypes ==
  ASSUME TInv, Down, Typed(file'), Typed(platter')
  PROVE  TInv'
<1>1. 0 \in Chunk /\ 0 \in Slot /\ 0 \in 0 .. MaxSegSeq
  BY FormatAssumption DEF Chunk, Slot
<1>2. /\ phase' = "down" /\ todo' = <<>> /\ writer' = [c \in Chn |-> Idle]
      /\ sb' = [ok |-> TRUE, wptr |-> 0, wrapped |-> FALSE]
      /\ st' = [next |-> 0, seq |-> [c \in Chn |-> 0]]
  BY DEF Down
<1>3. sb' \in Super /\ st' \in Tab
  BY <1>1, <1>2 DEF Super, Tab, Counts
<1>4. writer' \in [Chn -> Pen] /\ \A c \in Chn : writer'[c].off = 0
  <2>1. Idle \in Pen /\ Idle.off = 0
    BY IdlePen DEF Idle
  <2>2. QED
    BY <1>2, <2>1
<1>5. Fits(todo')
  BY <1>2, FitsNone
<1>6. QED
  BY <1>2, <1>3, <1>4, <1>5 DEF TInv

LEMMA CutTypes ==
  ASSUME TInv, PowerCut
  PROVE  Typed(file') /\ Typed(platter')
<1>1. Typed(file) /\ Typed(platter)
  BY DEF TInv
<1>2. PICK lost \in SUBSET Dirty, torn \in SUBSET {p \in Dirty : p[1] = "sb"} :
        file' = [p \in Place |-> IF p \in lost THEN platter[p]
                                 ELSE IF p \in torn THEN [file[p] EXCEPT !.ok = FALSE]
                                 ELSE file[p]]
  BY DEF PowerCut
<1> DEFINE g == file'
<1>3. \A p \in Place : /\ g[p] = platter[p] \/ g[p] = file[p] \/ g[p] = [file[p] EXCEPT !.ok = FALSE]
                       /\ p[1] # "sb" => g[p] = platter[p] \/ g[p] = file[p]
  BY <1>2
<1>4. file' = g /\ platter' = g
  BY DEF PowerCut
<1> HIDE DEF g
<1>5. ASSUME NEW k \in Copy
      PROVE  g[<<"sb", k>>] \in Super /\ g[<<"next", k>>] \in Slot /\ g[<<"seq", k>>] \in Counts
  <2>1. <<"sb", k>> \in Place /\ <<"next", k>> \in Place /\ <<"seq", k>> \in Place
    BY Places
  <2>2. <<"next", k>>[1] # "sb" /\ <<"seq", k>>[1] # "sb"
    OBVIOUS
  <2>3. g[<<"next", k>>] \in Slot /\ g[<<"seq", k>>] \in Counts
    BY <1>1, <1>3, <2>1, <2>2, Zenon DEF Typed
  <2>4. file[<<"sb", k>>] \in Super /\ platter[<<"sb", k>>] \in Super
    BY <1>1 DEF Typed
  <2>5. \A x \in Super : [x EXCEPT !.ok = FALSE] \in Super
    BY DEF Super
  <2>6. g[<<"sb", k>>] \in Super
    BY <1>3, <2>1, <2>4, <2>5, Zenon
  <2>7. QED
    BY <2>3, <2>6
<1>6. ASSUME NEW i \in Slot PROVE g[<<"slot", i>>] \in IndexSlot
  <2>1. <<"slot", i>>[1] # "sb"
    OBVIOUS
  <2>2. QED
    BY <1>1, <1>3, <2>1, Places, Zenon DEF Typed
<1>7. ASSUME NEW k \in Chunk, NEW u \in Unit PROVE g[<<"unit", k, u>>] \in Cell
  <2>1. <<"unit", k, u>>[1] # "sb"
    OBVIOUS
  <2>2. QED
    BY <1>1, <1>3, <2>1, Places, Zenon DEF Typed
<1>8. Typed(g)
  BY <1>5, <1>6, <1>7, Zenon DEF Typed
<1>9. QED
  BY <1>4, <1>8

LEMMA MountTypes ==
  ASSUME TInv, Mount
  PROVE  TInv'
<1>1. UNCHANGED <<file, platter, todo, writer>>
  BY DEF Mount
<1>2. Typed(file) /\ sb \in Super /\ st \in Tab
  BY DEF TInv
<1>3. phase' \in {"up", "refused"}
  BY DEF Mount
<1>4. sb' \in Super /\ st' \in Tab
  <2>1. file[<<"sb", "main">>] \in Super
    BY <1>2, Places DEF Typed
  <2>2. [next |-> file[<<"next", "main">>], seq |-> file[<<"seq", "main">>]] \in Tab
    BY <1>2, Places DEF Typed, Tab
  <2>3. QED
    BY <1>2, <2>1, <2>2 DEF Mount
<1>5. QED
  BY <1>1, <1>3, <1>4 DEF TInv

LEMMA TInit == Init => TInv
<1> SUFFICES ASSUME Init PROVE TInv
  OBVIOUS
<1>1. Safe(Now) /\ sb \in Super /\ Runs(st, writer, Now, todo)
  BY NInit DEF NInv, Init
<1>2. Typed(file) /\ Typed(platter) /\ st \in Tab /\ writer \in [Chn -> Pen]
  BY <1>1, NowFields DEF Safe, Runs
<1>3. Fits(todo) /\ phase = "up"
  BY FitsNone DEF Init
<1>4. \A c \in Chn : writer[c].off = 0
  BY DEF Init, Idle
<1>5. QED
  BY <1>1, <1>2, <1>3, <1>4 DEF TInv

LEMMA TNext ==
  ASSUME TInv, [Next]_vars
  PROVE  TInv'
<1>1. ASSUME CallTyped, Calling, UNCHANGED <<file, platter, phase>> PROVE TInv'
  BY <1>1 DEF CallTyped, TInv
<1>2. ASSUME NEW c \in Chn, OpenWriter(c) PROVE TInv'
  BY <1>1, <1>2, OpenTypes DEF OpenWriter
<1>3. ASSUME NEW c \in Chn, CloseWriter(c) PROVE TInv'
  BY <1>1, <1>3, CloseTypes DEF CloseWriter
<1>4. ASSUME NEW c \in Chn, NEW n \in FrameUnits, FirstFrame(c, n) PROVE TInv'
  BY <1>1, <1>4, FirstTypes DEF FirstFrame
<1>5. ASSUME NEW c \in Chn, NEW n \in FrameUnits, NextFrame(c, n) PROVE TInv'
  BY <1>1, <1>5, NextTypes DEF NextFrame
<1>6. ASSUME NEW c \in Chn, NEW n \in FrameUnits, RollFrame(c, n) PROVE TInv'
  BY <1>1, <1>6, RollTypes DEF RollFrame
<1>7. CASE DiskStep
  BY <1>7, DiskTypes
<1>8. CASE Kill
  BY <1>8, CrashTypes DEF Kill, TInv
<1>9. CASE PowerCut
  BY <1>9, CutTypes, CrashTypes DEF PowerCut
<1>10. CASE Mount
  BY <1>10, MountTypes
<1>11. CASE UNCHANGED vars
  BY <1>11 DEF vars, TInv
<1>12. QED
  BY <1>2, <1>3, <1>4, <1>5, <1>6, <1>7, <1>8, <1>9, <1>10, <1>11 DEF Next

(***************************************************************************)
(* Whatever crashes, torn sectors included, the pointers that a mount of   *)
(* rsdk_dev_open reads are on the ring, and every slot and unit of the     *)
(* disk is one that rsdk_index.c and rsdk_rec.c write.                     *)
(***************************************************************************)
THEOREM DiskTyped == Spec => []TypeOK
<1>1. TInv => TypeOK
  <2> SUFFICES ASSUME TInv PROVE TypeOK
    OBVIOUS
  <2>1. sb.wptr \in Chunk /\ sb.wrapped \in BOOLEAN
    BY DEF TInv, Super
  <2>2. st.next \in Slot /\ st.seq \in [Chn -> 0 .. MaxSegSeq]
    BY DEF TInv, Tab, Counts
  <2>3. QED
    BY <2>1, <2>2 DEF TInv, Typed, TypeOK
<1>2. TInv /\ [Next]_vars => TInv'
  BY TNext
<1>3. QED
  BY TInit, <1>1, <1>2, PTL DEF Spec

-----------------------------------------------------------------------------
(***************************************************************************)
(* What the disk keeps: the finished segments, on the rings of chunks and  *)
(* of slots as pread returns them (Z.f) and as a power cut leaves them     *)
(* (Z.p).                                                                  *)
(***************************************************************************)

\* The superblock that a mount reads, and the chunk that is given away next.
BootOn(f) == f[<<"sb", "main">>]
RingOn(f) == BootOn(f).wptr
UnitOn(f, k, u) == f[<<"unit", k, u>>]
CellsOn(f, k) == [u \in Unit |-> UnitOn(f, k, u)]

\* How far the ring of M places has gone since it passed x: M at x itself.
Dist(x, n, M) == IF x < n THEN n - x ELSE n - x + M
Turn(n, M) == IF n + 1 = M THEN 0 ELSE n + 1

(***************************************************************************)
(* Slot i names the finished segment w, and the ring of slots comes to it  *)
(* no sooner than the ring of chunks comes to its chunk, but for the r     *)
(* crashes that were: each may leave a slot that was appended unused.      *)
(***************************************************************************)
KeptAt(r, f, w, i) ==
  /\ SlotOn(f, i) = SlotOf(w, "valid")
  /\ Dist(i, NextOn(f), NSlots) <= Dist(w.chunk, RingOn(f), NChunks) + r

\* The slot and the frames of a finished segment are there whatever a power cut loses.
KeptOK(r, Z, w) ==
  /\ w \in Pen /\ w.count > 0
  /\ \E i \in Slot : KeptAt(r, Z.f, w, i) /\ KeptAt(r, Z.p, w, i)
  /\ Tiled(CellsOn(Z.f, w.chunk), SlotOf(w, "valid"))
  /\ \A u \in Unit : u < w.off => UnitOn(Z.p, w.chunk, u) = UnitOn(Z.f, w.chunk, u)

\* The segments that were not given away, the oldest the farthest behind the write pointer.
Standing(s, i) == i \in 1 .. Len(s) /\ s[i] # Idle
InOrder(s, k) ==
  \A i, j : Standing(s, i) /\ Standing(s, j) /\ i < j =>
    Dist(s[j].chunk, k, NChunks) < Dist(s[i].chunk, k, NChunks)
NoneOn(s, k) == \A i : Standing(s, i) => s[i].chunk # k

\* A valid slot replays, and in the first lap its chunk is behind the write pointer.
SlotOK(f, e) ==
  /\ Tiled(CellsOn(f, e.chunk), e)
  /\ ~BootOn(f).wrapped => e.chunk < RingOn(f)

KeptPart(r, Z) == \A i : Standing(Z.kept, i) => KeptOK(r, Z, Z.kept[i])
RingPart(Z) ==
  /\ InOrder(Z.kept, RingOn(Z.f)) /\ InOrder(Z.kept, RingOn(Z.p))
  /\ \/ RingOn(Z.f) = RingOn(Z.p)
     \/ RingOn(Z.f) = Turn(RingOn(Z.p), NChunks) /\ NoneOn(Z.kept, RingOn(Z.p))
NextPart(Z) == NextOn(Z.f) = NextOn(Z.p) \/ NextOn(Z.f) = OneOn(NextOn(Z.p))
CalmPart(calm, Z) ==
  calm => \A i \in Slot : SlotOn(Z.f, i).st = "valid" => SlotOK(Z.f, SlotOn(Z.f, i))
TypedPart(Z) == Typed(Z.f) /\ Typed(Z.p) /\ Z.kept \in Seq(Pen)

\* A disk after r crashes; calm: none was a power cut.
KSound(r, calm, Z) ==
  /\ TypedPart(Z) /\ KeptPart(r, Z) /\ RingPart(Z) /\ NextPart(Z) /\ CalmPart(calm, Z)

(***************************************************************************)
(* Every crash may cost the ring of slots one.  rsdk_storgedev.c:53 gives  *)
(* a disk slots_per_chunk slots for each chunk, four by default.           *)
(***************************************************************************)
WideIndex == MaxCrashes \in Nat /\ NSlots >= NChunks + MaxCrashes

\* The slot before n, and a chunk that no segment that a search returns is on.
Pred(n) == IF n = 0 THEN NSlots - 1 ELSE n - 1
CleanOn(calm, Z, k) ==
  /\ NoneOn(Z.kept, k)
  /\ calm => \A i \in Slot : ~(SlotOn(Z.f, i).st = "valid" /\ SlotOn(Z.f, i).chunk = k)
(***************************************************************************)
(* The writer w of channel c at rest: before its first frame the disk does *)
(* not know of its chunk, afterwards its open slot is the last of the ring *)
(* and its frames tile what it has written.                                *)
(***************************************************************************)
AtWork(b, t, w, c, calm, Y) ==
  /\ CleanOn(calm, Y, w.chunk)
  /\ w.count = 0 => /\ b = Moved(BootOn(Y.f)) /\ w.chunk = RingOn(Y.f)
                    /\ CountsOn(Y.f)[c] < t.seq[c]
  /\ w.count > 0 => /\ b = BootOn(Y.f)
                    /\ \E a \in Super : b = Moved(a) /\ w.chunk = a.wptr
                    /\ Names(SlotOn(Y.f, Pred(t.next)), w.seg) /\ SlotOn(Y.f, Pred(t.next)).st = "open"
                    /\ SlotOn(Y.f, Pred(t.next)).chunk = w.chunk
                    /\ Tiled(CellsOn(Y.f, w.chunk), SlotOf(w, "valid"))
KRest(b, t, ws, calm, Y) ==
  /\ NextOn(Y.f) = t.next
  /\ (\A c \in Chn : ~ws[c].open) => b = BootOn(Y.f)
  /\ \A c \in Chn : ws[c].open => AtWork(b, t, ws[c], c, calm, Y)

Disk == [f |-> file, p |-> platter, kept |-> kept]

-----------------------------------------------------------------------------
(* The rings of chunks and of slots. *)

LEMMA DistNat ==
  ASSUME NEW M \in Nat \ {0}, NEW x \in 0 .. M - 1, NEW n \in 0 .. M - 1
  PROVE  Dist(x, n, M) \in 1 .. M /\ (Dist(x, n, M) = M <=> x = n)
BY DEF Dist

LEMMA DistTurn ==
  ASSUME NEW M \in Nat \ {0}, NEW x \in 0 .. M - 1, NEW n \in 0 .. M - 1
  PROVE  /\ Turn(n, M) \in 0 .. M - 1
         /\ Dist(n, Turn(n, M), M) = 1
         /\ Dist(x, Turn(n, M), M) <= Dist(x, n, M) + 1
         /\ x # n => Dist(x, Turn(n, M), M) = Dist(x, n, M) + 1
BY DEF Dist, Turn

LEMMA ModOnce ==
  ASSUME NEW M \in Nat \ {0}, NEW n \in 0 .. M - 1
  PROVE  (n + 1) % M = Turn(n, M)
<1>1. CASE n + 1 = M
  BY <1>1 DEF Turn
<1>2. CASE n + 1 # M
  <2>1. n + 1 \in 0 .. M - 1
    BY <1>2
  <2>2. (n + 1) % M = n + 1
    BY <2>1
  <2>3. QED
    BY <1>2, <2>2 DEF Turn
<1>3. QED
  BY <1>1, <1>2

LEMMA OneOnTurn ==
  ASSUME NEW n \in Slot
  PROVE  OneOn(n) = Turn(n, NSlots) /\ OneOn(n) \in Slot
<1>1. NSlots \in Nat \ {0} /\ n \in 0 .. NSlots - 1
  BY FormatAssumption DEF Slot
<1>2. OneOn(n) = Turn(n, NSlots)
  BY <1>1, ModOnce DEF OneOn
<1>3. QED
  BY <1>1, <1>2, DistTurn DEF Slot

LEMMA PredTurn ==
  ASSUME NEW n \in Slot
  PROVE  /\ Pred(n) \in Slot /\ Turn(Pred(n), NSlots) = n
         /\ (n + NSlots - 1) % NSlots = Pred(n)
<1>1. NSlots \in Nat \ {0} /\ n \in 0 .. NSlots - 1
  BY FormatAssumption DEF Slot
<1>2. Pred(n) \in Slot /\ Turn(Pred(n), NSlots) = n
  BY <1>1 DEF Pred, Turn, Slot
<1>3. CASE n = 0
  <2>1. n + NSlots - 1 = NSlots - 1 /\ NSlots - 1 \in 0 .. NSlots - 1
    BY <1>1, <1>3
  <2>2. (NSlots - 1) % NSlots = NSlots - 1
    BY <1>1, <2>1
  <2>3. QED
    BY <1>2, <1>3, <2>1, <2>2 DEF Pred
<1>4. CASE n # 0
  <2>1. n + NSlots - 1 = NSlots + (n - 1) /\ n - 1 \in 0 .. NSlots - 1
    BY <1>1, <1>4
  <2> DEFINE x == n - 1
  <2>2. (NSlots + x) % NSlots = x
    <3>1. x \in 0 .. NSlots - 1
      BY <2>1
    <3> HIDE DEF x
    <3>2. QED
      BY <1>1, <3>1
  <2>3. QED
    BY <1>2, <1>4, <2>1, <2>2 DEF Pred
<1>5. QED
  BY <1>3, <1>4

LEMMA PredOne ==
  ASSUME NEW n \in Slot
  PROVE  Pred(OneOn(n)) = n
<1>1. NSlots \in Nat \ {0} /\ n \in 0 .. NSlots - 1
  BY FormatAssumption DEF Slot
<1>2. OneOn(n) = Turn(n, NSlots)
  BY OneOnTurn
<1>3. QED
  BY <1>1, <1>2 DEF Turn, Pred

LEMMA MovedTurn ==
  ASSUME NEW b \in Super
  PROVE  /\ Moved(b) \in Super /\ b.wptr \in Chunk
         /\ Moved(b).wptr = Turn(b.wptr, NChunks)
         /\ ~Moved(b).wrapped => ~b.wrapped /\ Moved(b).wptr = b.wptr + 1
<1>1. Moved(b) \in Super /\ b.wptr \in Chunk
  BY MovedSuper
<1>2. NChunks \in Nat \ {0} /\ b.wptr \in 0 .. NChunks - 1
  BY <1>1, FormatAssumption DEF Chunk
<1>3. Moved(b).wptr = Turn(b.wptr, NChunks)
  BY <1>2, ModOnce DEF Moved
<1>4. Moved(b).wrapped = (b.wrapped \/ b.wptr + 1 >= NChunks)
  BY DEF Moved
<1>5. ASSUME ~Moved(b).wrapped PROVE ~b.wrapped /\ Moved(b).wptr = b.wptr + 1
  <2>1. ~b.wrapped /\ ~(b.wptr + 1 >= NChunks)
    BY <1>4, <1>5
  <2>2. Turn(b.wptr, NChunks) = b.wptr + 1
    BY <1>2, <2>1 DEF Turn
  <2>3. QED
    BY <1>3, <2>1, <2>2
<1>6. QED
  BY <1>1, <1>3, <1>5

LEMMA ChunkDist ==
  ASSUME NEW x \in Chunk, NEW k \in Chunk
  PROVE  /\ Dist(x, k, NChunks) \in 1 .. NChunks /\ NChunks \in Nat
         /\ Dist(x, k, NChunks) = NChunks <=> x = k
         /\ x # k => Dist(x, Turn(k, NChunks), NChunks) = Dist(x, k, NChunks) + 1
         /\ Dist(k, Turn(k, NChunks), NChunks) = 1
         /\ Turn(k, NChunks) \in Chunk
<1>1. NChunks \in Nat \ {0} /\ x \in 0 .. NChunks - 1 /\ k \in 0 .. NChunks - 1
  BY FormatAssumption DEF Chunk
<1>2. Dist(x, k, NChunks) \in 1 .. NChunks /\ (Dist(x, k, NChunks) = NChunks <=> x = k)
  BY <1>1, DistNat
<1>3. /\ Turn(k, NChunks) \in 0 .. NChunks - 1
      /\ Dist(k, Turn(k, NChunks), NChunks) = 1
      /\ x # k => Dist(x, Turn(k, NChunks), NChunks) = Dist(x, k, NChunks) + 1
  BY <1>1, DistTurn, Zenon
<1>4. QED
  BY <1>1, <1>2, <1>3 DEF Chunk

LEMMA SlotDist ==
  ASSUME NEW i \in Slot, NEW n \in Slot
  PROVE  /\ Dist(i, n, NSlots) \in 1 .. NSlots /\ NSlots \in Nat
         /\ Dist(i, n, NSlots) = NSlots <=> i = n
         /\ Dist(i, OneOn(n), NSlots) <= Dist(i, n, NSlots) + 1
         /\ Dist(Pred(n), n, NSlots) = 1
<1>1. NSlots \in Nat \ {0} /\ i \in 0 .. NSlots - 1 /\ n \in 0 .. NSlots - 1
  BY FormatAssumption DEF Slot
<1>2. OneOn(n) = Turn(n, NSlots) /\ Pred(n) \in 0 .. NSlots - 1 /\ Turn(Pred(n), NSlots) = n
  BY OneOnTurn, PredTurn DEF Slot
<1>3. Dist(Pred(n), Turn(Pred(n), NSlots), NSlots) = 1
  BY <1>1, <1>2, DistTurn, Zenon
<1>4. Dist(i, n, NSlots) \in 1 .. NSlots /\ (Dist(i, n, NSlots) = NSlots <=> i = n)
  BY <1>1, DistNat
<1>5. Dist(i, Turn(n, NSlots), NSlots) <= Dist(i, n, NSlots) + 1
  BY <1>1, DistTurn, Zenon
<1>6. QED
  BY <1>1, <1>2, <1>3, <1>4, <1>5

-----------------------------------------------------------------------------
(* Runs of disk operations, with the finished segments. *)

Does(Z, o) ==
  [f    |-> IF o.op \in {"put", "frame"} THEN Over(Z.f, o.vals) ELSE Z.f,
   p    |-> IF o.op = "sync" THEN Z.f ELSE Z.p,
   kept |-> IF o.op = "finished" THEN Append(Z.kept, o.seg)
            ELSE IF o.op = "taken"
            THEN [i \in 1 .. Len(Z.kept) |-> IF Z.kept[i].chunk = o.chunk THEN Idle ELSE Z.kept[i]]
            ELSE Z.kept]

\* The chunk that is given away is the one at the write pointer of the disk.
MayDo(Z, o) == o.op = "taken" => o.chunk = RingOn(Z.f)

\* Leads, for what the disk keeps.
Goes(r, calm, X, s, Y) ==
  \E S, tr :
    /\ s \in Seq(S)
    /\ tr[0] = X /\ tr[Len(s)] = Y
    /\ \A j \in 0 .. Len(s) : KSound(r, calm, tr[j])
    /\ \A j \in 1 .. Len(s) : tr[j] = Does(tr[j - 1], s[j]) /\ MayDo(tr[j - 1], s[j])

LEMMA GoesNowhere ==
  ASSUME NEW r, NEW calm, NEW X, KSound(r, calm, X)
  PROVE  Goes(r, calm, X, <<>>, X)
<1> DEFINE tr == [j \in {0} |-> X]
<1>1. <<>> \in Seq({}) /\ Len(<<>>) = 0
  OBVIOUS
<1>2. tr[0] = X /\ tr[Len(<<>>)] = X
  BY <1>1
<1>3. \A j \in 0 .. Len(<<>>) : KSound(r, calm, tr[j])
  BY <1>1, <1>2
<1>4. \A j \in 1 .. Len(<<>>) : tr[j] = Does(tr[j - 1], <<>>[j]) /\ MayDo(tr[j - 1], <<>>[j])
  BY <1>1
<1>5. QED
  BY <1>1, <1>2, <1>3, <1>4, Zenon DEF Goes

LEMMA GoesOne ==
  ASSUME NEW r, NEW calm, NEW X, NEW o, KSound(r, calm, X), MayDo(X, o), KSound(r, calm, Does(X, o))
  PROVE  Goes(r, calm, X, <<o>>, Does(X, o))
<1> DEFINE Y == Does(X, o)
           tr == [j \in 0 .. 1 |-> IF j = 0 THEN X ELSE Y]
<1> HIDE DEF Y
<1>1. <<o>> \in Seq({o}) /\ Len(<<o>>) = 1 /\ <<o>>[1] = o
  OBVIOUS
<1>2. tr[0] = X /\ tr[1] = Y /\ 0 \in 0 .. 1
  OBVIOUS
<1>3. \A j \in 0 .. 1 : KSound(r, calm, tr[j])
  BY DEF Y
<1>4. \A j \in 1 .. 1 : j = 1 /\ j - 1 = 0
  OBVIOUS
<1> HIDE DEF tr
<1>5. \A j \in 1 .. 1 : tr[j] = Does(tr[j - 1], <<o>>[j]) /\ MayDo(tr[j - 1], <<o>>[j])
  BY <1>1, <1>2, <1>4, Zenon DEF Y
<1>6. QED
  BY <1>1, <1>2, <1>3, <1>5, Zenon DEF Goes, Y

LEMMA GoesOn ==
  ASSUME NEW r, NEW calm, NEW X, NEW Y, NEW Z, NEW s, NEW t, Goes(r, calm, X, s, Y), Goes(r, calm, Y, t, Z)
  PROVE  Goes(r, calm, X, s \o t, Z)
<1>1. PICK S, a : /\ s \in Seq(S) /\ a[0] = X /\ a[Len(s)] = Y
                  /\ \A j \in 0 .. Len(s) : KSound(r, calm, a[j])
                  /\ \A j \in 1 .. Len(s) : a[j] = Does(a[j - 1], s[j]) /\ MayDo(a[j - 1], s[j])
  BY Zenon DEF Goes
<1>2. PICK T, b : /\ t \in Seq(T) /\ b[0] = Y /\ b[Len(t)] = Z
                  /\ \A j \in 0 .. Len(t) : KSound(r, calm, b[j])
                  /\ \A j \in 1 .. Len(t) : b[j] = Does(b[j - 1], t[j]) /\ MayDo(b[j - 1], t[j])
  BY Zenon DEF Goes
<1> DEFINE n == Len(s)
           m == Len(t)
           whole == s \o t
           tr == [j \in 0 .. n + m |-> IF j <= n THEN a[j] ELSE b[j - n]]
<1>3. n \in Nat /\ m \in Nat /\ s \in Seq(S \cup T) /\ t \in Seq(S \cup T)
  BY <1>1, <1>2
<1>4. /\ whole \in Seq(S \cup T) /\ Len(whole) = n + m
      /\ \A j \in 1 .. n + m : whole[j] = IF j <= n THEN s[j] ELSE t[j - n]
  BY <1>3, ConcatProperties, Zenon
<1> HIDE DEF n, m, whole
<1>5. \A j \in 0 .. n + m : KSound(r, calm, tr[j])
  BY <1>1, <1>2, <1>3 DEF n, m
<1>6. tr[0] = X
  BY <1>1, <1>3
<1>7. tr[n + m] = Z
  <2>1. CASE m = 0
    BY <1>1, <1>2, <1>3, <2>1 DEF n, m
  <2>2. CASE m # 0
    BY <1>2, <1>3, <2>2 DEF m
  <2>3. QED
    BY <2>1, <2>2
<1>8. \A j \in 1 .. n + m : tr[j] = Does(tr[j - 1], whole[j]) /\ MayDo(tr[j - 1], whole[j])
  <2> SUFFICES ASSUME NEW j \in 1 .. n + m
               PROVE  tr[j] = Does(tr[j - 1], whole[j]) /\ MayDo(tr[j - 1], whole[j])
    OBVIOUS
  <2>1. CASE j <= n
    <3>1. tr[j] = a[j] /\ tr[j - 1] = a[j - 1] /\ whole[j] = s[j] /\ j \in 1 .. n
      BY <1>3, <1>4, <2>1
    <3>2. QED
      BY <1>1, <3>1, Zenon DEF n
  <2>2. CASE j > n
    <3>1. tr[j] = b[j - n] /\ whole[j] = t[j - n] /\ j - n \in 1 .. m
      BY <1>3, <1>4, <2>2
    <3>2. tr[j - 1] = b[(j - n) - 1]
      <4>1. CASE j = n + 1
        BY <1>1, <1>2, <1>3, <4>1 DEF n
      <4>2. CASE j # n + 1
        BY <1>3, <2>2, <4>2
      <4>3. QED
        BY <4>1, <4>2
    <3>3. QED
      BY <1>2, <3>1, <3>2, Zenon DEF m
  <2>3. QED
    BY <1>3, <2>1, <2>2
<1> HIDE DEF tr
<1>9. QED
  BY <1>4, <1>5, <1>6, <1>7, <1>8, Zenon DEF Goes, whole

LEMMA GoesEnds ==
  ASSUME NEW r, NEW calm, NEW X, NEW Y, NEW s, Goes(r, calm, X, s, Y)
  PROVE  KSound(r, calm, X) /\ KSound(r, calm, Y) /\ (s = <<>> => Y = X)
<1>1. PICK S, a : /\ s \in Seq(S) /\ a[0] = X /\ a[Len(s)] = Y
                  /\ \A j \in 0 .. Len(s) : KSound(r, calm, a[j])
  BY Zenon DEF Goes
<1>2. Len(s) \in Nat /\ (s = <<>> => Len(s) = 0)
  BY <1>1
<1>3. 0 \in 0 .. Len(s) /\ Len(s) \in 0 .. Len(s)
  BY <1>2
<1>4. QED
  BY <1>1, <1>2, <1>3, Zenon

LEMMA GoesFirst ==
  ASSUME NEW r, NEW calm, NEW X, NEW Y, NEW s, Goes(r, calm, X, s, Y), s # <<>>
  PROVE  MayDo(X, Head(s)) /\ Goes(r, calm, Does(X, Head(s)), Tail(s), Y)
<1>1. PICK S, a : /\ s \in Seq(S) /\ a[0] = X /\ a[Len(s)] = Y
                  /\ \A j \in 0 .. Len(s) : KSound(r, calm, a[j])
                  /\ \A j \in 1 .. Len(s) : a[j] = Does(a[j - 1], s[j]) /\ MayDo(a[j - 1], s[j])
  BY Zenon DEF Goes
<1> DEFINE n == Len(s)
           tr == [j \in 0 .. n - 1 |-> a[j + 1]]
<1>2. n \in Nat \ {0}
  BY <1>1
<1>3. /\ Head(s) = s[1] /\ Tail(s) \in Seq(S) /\ Len(Tail(s)) = n - 1
      /\ \A j \in 1 .. n - 1 : Tail(s)[j] = s[j + 1]
  BY <1>1, HeadTailProperties
<1> HIDE DEF n
<1>4. 1 \in 1 .. n /\ 1 - 1 = 0
  BY <1>2
<1>5. a[1] = Does(X, Head(s)) /\ MayDo(X, Head(s))
  BY <1>1, <1>3, <1>4, Zenon DEF n
<1>6. tr[0] = a[1] /\ tr[n - 1] = Y
  BY <1>1, <1>2 DEF n
<1>7. \A j \in 0 .. n - 1 : KSound(r, calm, tr[j])
  BY <1>1, <1>2 DEF n
<1>8. \A j \in 1 .. n - 1 : tr[j] = Does(tr[j - 1], Tail(s)[j]) /\ MayDo(tr[j - 1], Tail(s)[j])
  <2> SUFFICES ASSUME NEW j \in 1 .. n - 1
               PROVE  tr[j] = Does(tr[j - 1], Tail(s)[j]) /\ MayDo(tr[j - 1], Tail(s)[j])
    OBVIOUS
  <2>1. j + 1 \in 1 .. n /\ (j + 1) - 1 = j /\ tr[j] = a[j + 1] /\ tr[j - 1] = a[j]
    BY <1>2
  <2>2. a[j + 1] = Does(a[(j + 1) - 1], s[j + 1]) /\ MayDo(a[(j + 1) - 1], s[j + 1])
    BY <1>1, <2>1, Zenon DEF n
  <2>3. QED
    BY <1>3, <2>1, <2>2, Zenon
<1> HIDE DEF tr
<1>9. QED
  BY <1>3, <1>5, <1>6, <1>7, <1>8, Zenon DEF Goes

-----------------------------------------------------------------------------
(* What a write changes on a disk. *)

HeadLike(g, f) == BootOn(g) = BootOn(f) /\ NextOn(g) = NextOn(f) /\ CountsOn(g) = CountsOn(f)
SameSlots(g, f) == \A j \in Slot : SlotOn(g, j) = SlotOn(f, j)
SameUnits(g, f) == \A k \in Chunk, u \in Unit : UnitOn(g, k, u) = UnitOn(f, k, u)

SlotVals(i, e) == [p \in {<<"slot", i>>} |-> e]
LEMMA SlotView ==
  ASSUME NEW f, Typed(f), NEW i \in Slot, NEW e \in IndexSlot
  PROVE  LET g == Over(f, SlotVals(i, e)) IN
         /\ Typed(g) /\ HeadLike(g, f) /\ SameUnits(g, f)
         /\ \A j \in Slot : SlotOn(g, j) = IF j = i THEN e ELSE SlotOn(f, j)
<1> DEFINE v == SlotVals(i, e)
           g == Over(f, v)
<1>1. DOMAIN v = {<<"slot", i>>} /\ v[<<"slot", i>>] = e
  BY DEF SlotVals
<1>2. \A p \in Place : g[p] = IF p \in DOMAIN v THEN v[p] ELSE f[p]
  BY OverAt
<1> HIDE DEF v
<1>3. TypedVals(v)
  BY <1>1 DEF TypedVals
<1>4. Typed(g)
  BY <1>3, OverTyped
<1> HIDE DEF g
<1>5. HeadLike(g, f)
  BY <1>1, <1>2, Places DEF HeadLike, BootOn, NextOn, CountsOn
<1>6. SameUnits(g, f)
  BY <1>1, <1>2, Places DEF SameUnits, UnitOn
<1>7. \A j \in Slot : SlotOn(g, j) = IF j = i THEN e ELSE SlotOn(f, j)
  BY <1>1, <1>2, Places DEF SlotOn
<1>8. QED
  BY <1>4, <1>5, <1>6, <1>7 DEF g, v

LEMMA FreeView ==
  ASSUME NEW f, Typed(f), NEW ix, NEW hit, hit \subseteq Slot,
         \A j \in Slot : ix.slot[j] = SlotOn(f, j)
  PROVE  LET g == Over(f, FreeVals(ix, hit)) IN
         /\ Typed(g) /\ HeadLike(g, f) /\ SameUnits(g, f)
         /\ \A j \in Slot : SlotOn(g, j) = IF j \in hit THEN Freed(SlotOn(f, j)) ELSE SlotOn(f, j)
<1> DEFINE v == FreeVals(ix, hit)
           g == Over(f, v)
<1>1. \A p \in DOMAIN v : p[1] = "slot"
  BY DEF FreeVals
<1>2. \A j \in Slot : /\ <<"slot", j>> \in DOMAIN v <=> j \in hit
                      /\ j \in hit => v[<<"slot", j>>] = Freed(SlotOn(f, j))
  BY DEF FreeVals
<1>3. \A p \in Place : g[p] = IF p \in DOMAIN v THEN v[p] ELSE f[p]
  BY OverAt
<1>4. \A j \in Slot : SlotOn(f, j) \in IndexSlot /\ Freed(SlotOn(f, j)) \in IndexSlot
  BY DEF Typed, SlotOn, Freed, IndexSlot
<1> HIDE DEF v
<1>5. /\ \A k \in Copy : /\ <<"sb", k>> \notin DOMAIN v /\ <<"next", k>> \notin DOMAIN v
                         /\ <<"seq", k>> \notin DOMAIN v
      /\ \A k \in Chunk, u \in Unit : <<"unit", k, u>> \notin DOMAIN v
  <2>1. \A k, u : /\ <<"sb", k>>[1] = "sb" /\ <<"next", k>>[1] = "next"
                  /\ <<"seq", k>>[1] = "seq" /\ <<"unit", k, u>>[1] = "unit"
    OBVIOUS
  <2>2. QED
    BY <1>1, <2>1
<1>6. TypedVals(v)
  BY <1>2, <1>4, <1>5, Zenon DEF TypedVals
<1>7. Typed(g)
  BY <1>6, OverTyped
<1> HIDE DEF g
<1>8. HeadLike(g, f)
  BY <1>3, <1>5, Places DEF HeadLike, BootOn, NextOn, CountsOn
<1>9. SameUnits(g, f)
  BY <1>3, <1>5, Places, Zenon DEF SameUnits, UnitOn
<1>10. \A j \in Slot : SlotOn(g, j) = IF j \in hit THEN Freed(SlotOn(f, j)) ELSE SlotOn(f, j)
  BY <1>2, <1>3, Places, Zenon DEF SlotOn
<1>11. QED
  BY <1>7, <1>8, <1>9, <1>10 DEF g, v

BootVals(k, b) == [p \in {<<"sb", k>>} |-> b]
LEMMA BootView ==
  ASSUME NEW f, Typed(f), NEW k \in Copy, NEW b \in Super
  PROVE  LET g == Over(f, BootVals(k, b)) IN
         /\ Typed(g) /\ SameSlots(g, f) /\ SameUnits(g, f)
         /\ NextOn(g) = NextOn(f) /\ CountsOn(g) = CountsOn(f)
         /\ BootOn(g) = IF k = "main" THEN b ELSE BootOn(f)
<1> DEFINE v == BootVals(k, b)
           g == Over(f, v)
<1>1. DOMAIN v = {<<"sb", k>>} /\ v[<<"sb", k>>] = b
  BY DEF BootVals
<1>2. \A p \in Place : g[p] = IF p \in DOMAIN v THEN v[p] ELSE f[p]
  BY OverAt
<1> HIDE DEF v
<1>3. TypedVals(v)
  BY <1>1 DEF TypedVals
<1>4. Typed(g)
  BY <1>3, OverTyped
<1> HIDE DEF g
<1>5. NextOn(g) = NextOn(f) /\ CountsOn(g) = CountsOn(f)
  BY <1>1, <1>2, Places DEF NextOn, CountsOn
<1>6. SameUnits(g, f)
  BY <1>1, <1>2, Places DEF SameUnits, UnitOn
<1>7. SameSlots(g, f)
  BY <1>1, <1>2, Places DEF SameSlots, SlotOn
<1>8. BootOn(g) = IF k = "main" THEN b ELSE BootOn(f)
  BY <1>1, <1>2, Places DEF BootOn
<1>9. QED
  BY <1>4, <1>5, <1>6, <1>7, <1>8 DEF g, v

LEMMA TabView ==
  ASSUME NEW f, Typed(f), NEW k \in Copy, NEW t \in Tab
  PROVE  LET g == Over(f, TabVals(k, t)) IN
         BootOn(g) = BootOn(f) /\ SameUnits(g, f)
<1> DEFINE v == TabVals(k, t)
           g == Over(f, v)
<1>1. \A p \in DOMAIN v : p[1] \in {"next", "seq"}
  BY DEF TabVals
<1>2. \A p \in Place : g[p] = IF p \in DOMAIN v THEN v[p] ELSE f[p]
  BY OverAt
<1> HIDE DEF v
<1>3. /\ <<"sb", "main">> \notin DOMAIN v
      /\ \A j \in Chunk, u \in Unit : <<"unit", j, u>> \notin DOMAIN v
  <2>1. \A j, u : <<"sb", "main">>[1] = "sb" /\ <<"unit", j, u>>[1] = "unit"
    OBVIOUS
  <2>2. QED
    BY <1>1, <2>1
<1> HIDE DEF g
<1>4. SameUnits(g, f)
  BY <1>2, <1>3, Places, Zenon DEF SameUnits, UnitOn
<1>5. BootOn(g) = BootOn(f)
  BY <1>2, <1>3, Places, Zenon DEF BootOn
<1>6. QED
  BY <1>4, <1>5 DEF g, v

FrameCell(w, n, u) == [seg |-> w.seg, seq |-> w.count, len |-> n,
                       hdr |-> IF u = w.off THEN "yes" ELSE "no"]
LEMMA FrameView ==
  ASSUME NEW f, Typed(f), NEW w \in Pen, NEW n \in FrameUnits
  PROVE  LET g == Over(f, FrameOp(w, n).vals) IN
         /\ Typed(g) /\ HeadLike(g, f) /\ SameSlots(g, f)
         /\ \A k \in Chunk, u \in Unit :
              UnitOn(g, k, u) = IF k = w.chunk /\ u \in w.off .. w.off + n - 1
                                THEN FrameCell(w, n, u) ELSE UnitOn(f, k, u)
<1> DEFINE v == FrameOp(w, n).vals
           g == Over(f, v)
<1>1. w.seg \in Seg \cup {NoSeg} /\ w.count \in Nat /\ n \in Nat
  BY FormatAssumption DEF Pen
<1>2. \A p \in DOMAIN v : p[1] = "unit" /\ v[p] \in Cell
  BY <1>1 DEF FrameOp, Cell
<1>3. \A p \in Place : g[p] = IF p \in DOMAIN v THEN v[p] ELSE f[p]
  BY OverAt
<1>4. \A k, u : /\ <<"unit", k, u>> \in DOMAIN v <=> k = w.chunk /\ u \in w.off .. w.off + n - 1
                /\ <<"unit", k, u>> \in DOMAIN v => v[<<"unit", k, u>>] = FrameCell(w, n, u)
  BY DEF FrameOp, FrameCell
<1> HIDE DEF v
<1>5. /\ \A k \in Copy : /\ <<"sb", k>> \notin DOMAIN v /\ <<"next", k>> \notin DOMAIN v
                         /\ <<"seq", k>> \notin DOMAIN v
      /\ \A j \in Slot : <<"slot", j>> \notin DOMAIN v
  <2>1. \A k : /\ <<"sb", k>>[1] = "sb" /\ <<"next", k>>[1] = "next"
               /\ <<"seq", k>>[1] = "seq" /\ <<"slot", k>>[1] = "slot"
    OBVIOUS
  <2>2. QED
    BY <1>2, <2>1
<1>6. TypedVals(v)
  BY <1>2, <1>5, Zenon DEF TypedVals
<1>7. Typed(g)
  BY <1>6, OverTyped
<1> HIDE DEF g
<1>8. HeadLike(g, f)
  BY <1>3, <1>5, Places DEF HeadLike, BootOn, NextOn, CountsOn
<1>9. SameSlots(g, f)
  BY <1>3, <1>5, Places, Zenon DEF SameSlots, SlotOn
<1>10. ASSUME NEW k \in Chunk, NEW u \in Unit
       PROVE  UnitOn(g, k, u) = IF k = w.chunk /\ u \in w.off .. w.off + n - 1
                                THEN FrameCell(w, n, u) ELSE UnitOn(f, k, u)
  <2>1. <<"unit", k, u>> \in Place
    BY Places
  <2>2. UnitOn(g, k, u) = IF <<"unit", k, u>> \in DOMAIN v THEN v[<<"unit", k, u>>] ELSE UnitOn(f, k, u)
    BY <1>3, <2>1, Zenon DEF UnitOn
  <2>3. QED
    BY <1>4, <2>2, Zenon
<1>11. QED
  BY <1>7, <1>8, <1>9, <1>10 DEF g, v

-----------------------------------------------------------------------------
(* What keeps the disk sound. *)

LEMMA PlacesTyped ==
  ASSUME NEW f, Typed(f)
  PROVE  /\ BootOn(f) \in Super /\ RingOn(f) \in Chunk /\ NextOn(f) \in Slot
         /\ \A i \in Slot : SlotOn(f, i) \in IndexSlot
         /\ \A k \in Chunk : CellsOn(f, k) \in [Unit -> Cell]
<1>1. BootOn(f) \in Super /\ NextOn(f) \in Slot
  BY Places DEF Typed, BootOn, NextOn
<1>2. \A i \in Slot : SlotOn(f, i) \in IndexSlot
  BY DEF Typed, SlotOn
<1>3. \A k \in Chunk, u \in Unit : UnitOn(f, k, u) \in Cell
  BY Zenon DEF Typed, UnitOn
<1>4. \A k \in Chunk : CellsOn(f, k) \in [Unit -> Cell]
  BY <1>3, Zenon DEF CellsOn
<1>5. RingOn(f) \in Chunk
  BY <1>1 DEF RingOn, Super
<1>6. QED
  BY <1>1, <1>2, <1>4, <1>5

LEMMA CellsSame ==
  ASSUME NEW f, NEW g, NEW k \in Chunk, \A u \in Unit : UnitOn(g, k, u) = UnitOn(f, k, u)
  PROVE  CellsOn(g, k) = CellsOn(f, k)
BY Zenon DEF CellsOn

LEMMA PenTypes ==
  ASSUME NEW w \in Pen
  PROVE  w.chunk \in Chunk /\ w.count \in Nat /\ w.off \in 0 .. ChunkUnits
BY DEF Pen

\* The slots that change hold no finished segment.
LEMMA SlotsKeep ==
  ASSUME NEW r, NEW calm, NEW Z, KSound(r, calm, Z), NEW g, Typed(g),
         BootOn(g) = BootOn(Z.f), NextOn(g) = NextOn(Z.f), SameUnits(g, Z.f),
         \A j \in Slot : \/ SlotOn(g, j) = SlotOn(Z.f, j)
                         \/ \A i : Standing(Z.kept, i) => ~KeptAt(r, Z.f, Z.kept[i], j),
         calm => \A j \in Slot : SlotOn(g, j).st = "valid" =>
                   SlotOn(g, j) = SlotOn(Z.f, j) \/ SlotOK(Z.f, SlotOn(g, j))
  PROVE  KSound(r, calm, [f |-> g, p |-> Z.p, kept |-> Z.kept])
<1> DEFINE Y == [f |-> g, p |-> Z.p, kept |-> Z.kept]
<1>1. Y.f = g /\ Y.p = Z.p /\ Y.kept = Z.kept
  OBVIOUS
<1>2. /\ Typed(Z.f) /\ Typed(Z.p) /\ Z.kept \in Seq(Pen)
      /\ KeptPart(r, Z) /\ RingPart(Z) /\ NextPart(Z) /\ CalmPart(calm, Z)
  BY Zenon DEF KSound, TypedPart
<1>3. RingOn(g) = RingOn(Z.f)
  BY DEF RingOn
<1> HIDE DEF Y
<1>4. \A k \in Chunk : CellsOn(g, k) = CellsOn(Z.f, k)
  BY CellsSame, Zenon DEF SameUnits
<1>5. KeptPart(r, Y)
  <2> SUFFICES ASSUME NEW n, Standing(Z.kept, n)
               PROVE  KeptOK(r, Y, Z.kept[n])
    BY <1>1, Zenon DEF KeptPart
  <2> DEFINE w == Z.kept[n]
  <2>1. KeptOK(r, Z, w)
    BY <1>2, Zenon DEF KeptPart
  <2>2. w \in Pen /\ w.count > 0 /\ w.chunk \in Chunk
    BY <2>1, PenTypes DEF KeptOK
  <2>3. PICK i \in Slot : KeptAt(r, Z.f, w, i) /\ KeptAt(r, Z.p, w, i)
    BY <2>1, Zenon DEF KeptOK
  <2>4. SlotOn(g, i) = SlotOn(Z.f, i)
    BY <2>3, Zenon
  <2> HIDE DEF w
  <2>5. KeptAt(r, g, w, i)
    BY <1>3, <2>3, <2>4, Zenon DEF KeptAt
  <2>6. Tiled(CellsOn(g, w.chunk), SlotOf(w, "valid"))
    BY <1>4, <2>1, <2>2, Zenon DEF KeptOK
  <2>7. \A u \in Unit : u < w.off => UnitOn(Z.p, w.chunk, u) = UnitOn(g, w.chunk, u)
    BY <2>1, <2>2, Zenon DEF KeptOK, SameUnits
  <2>8. KeptOK(r, Y, w)
    BY <1>1, <2>2, <2>3, <2>5, <2>6, <2>7, Zenon DEF KeptOK
  <2>9. QED
    BY <2>8 DEF w
<1>6. RingPart(Y)
  BY <1>1, <1>2, <1>3, Zenon DEF RingPart
<1>7. NextPart(Y)
  BY <1>1, <1>2, Zenon DEF NextPart
<1>8. CalmPart(calm, Y)
  <2> SUFFICES ASSUME calm, NEW j \in Slot, SlotOn(g, j).st = "valid"
               PROVE  SlotOK(g, SlotOn(g, j))
    BY <1>1, Zenon DEF CalmPart
  <2>1. SlotOK(Z.f, SlotOn(g, j))
    BY <1>2, Zenon DEF CalmPart
  <2>2. SlotOn(g, j) \in IndexSlot
    BY PlacesTyped
  <2>3. SlotOn(g, j).chunk \in Chunk
    BY <2>2 DEF IndexSlot
  <2>4. QED
    BY <1>3, <1>4, <2>1, <2>3, Zenon DEF SlotOK
<1>9. QED
  BY <1>1, <1>2, <1>5, <1>6, <1>7, <1>8, Zenon DEF KSound, TypedPart, Y

LEMMA SyncKeeps ==
  ASSUME NEW r, NEW calm, NEW Z, KSound(r, calm, Z)
  PROVE  KSound(r, calm, [f |-> Z.f, p |-> Z.f, kept |-> Z.kept])
<1> DEFINE Y == [f |-> Z.f, p |-> Z.f, kept |-> Z.kept]
<1>1. Y.f = Z.f /\ Y.p = Z.f /\ Y.kept = Z.kept
  OBVIOUS
<1>2. /\ Typed(Z.f) /\ Typed(Z.p) /\ Z.kept \in Seq(Pen)
      /\ KeptPart(r, Z) /\ RingPart(Z) /\ NextPart(Z) /\ CalmPart(calm, Z)
  BY Zenon DEF KSound, TypedPart
<1> HIDE DEF Y
<1>3. KeptPart(r, Y)
  <2> SUFFICES ASSUME NEW n, Standing(Z.kept, n)
               PROVE  KeptOK(r, Y, Z.kept[n])
    BY <1>1, Zenon DEF KeptPart
  <2>1. KeptOK(r, Z, Z.kept[n])
    BY <1>2, Zenon DEF KeptPart
  <2>2. QED
    BY <1>1, <2>1, Zenon DEF KeptOK
<1>4. RingPart(Y) /\ NextPart(Y) /\ CalmPart(calm, Y)
  BY <1>1, <1>2, Zenon DEF RingPart, NextPart, CalmPart
<1>5. QED
  BY <1>1, <1>2, <1>3, <1>4, Zenon DEF KSound, TypedPart, Y

\* The write pointer moves on from a chunk without finished segments.
RingMoves(b, h, s) == b = BootOn(h) \/ (b = Moved(BootOn(h)) /\ NoneOn(s, RingOn(h)))

LEMMA RingMoved ==
  ASSUME NEW h, Typed(h), NEW b, NEW s, s \in Seq(Pen), RingMoves(b, h, s), NEW g, BootOn(g) = b
  PROVE  /\ RingOn(g) = RingOn(h) \/ (RingOn(g) = Turn(RingOn(h), NChunks) /\ NoneOn(s, RingOn(h)))
         /\ ~BootOn(g).wrapped => ~BootOn(h).wrapped /\ RingOn(h) <= RingOn(g)
<1>1. BootOn(h) \in Super /\ RingOn(h) \in Chunk
  BY PlacesTyped
<1>2. /\ Moved(BootOn(h)).wptr = Turn(RingOn(h), NChunks)
      /\ ~Moved(BootOn(h)).wrapped => ~BootOn(h).wrapped /\ Moved(BootOn(h)).wptr = RingOn(h) + 1
  BY <1>1, MovedTurn DEF RingOn
<1>3. RingOn(h) <= RingOn(h) + 1 /\ RingOn(h) <= RingOn(h)
  BY <1>1 DEF Chunk
<1>4. CASE b = BootOn(h)
  BY <1>3, <1>4 DEF RingOn
<1>5. CASE b = Moved(BootOn(h)) /\ NoneOn(s, RingOn(h))
  <2>1. RingOn(g) = Moved(BootOn(h)).wptr
    BY <1>5 DEF RingOn
  <2>2. QED
    BY <1>2, <1>3, <1>5, <2>1
<1>6. QED
  BY <1>4, <1>5 DEF RingMoves

\* Finished segments are no nearer to the write pointer when it has moved.
LEMMA RingFar ==
  ASSUME NEW s, s \in Seq(Pen), NEW k \in Chunk, NEW m,
         m = k \/ (m = Turn(k, NChunks) /\ NoneOn(s, k)), InOrder(s, k)
  PROVE  /\ InOrder(s, m)
         /\ \A i : Standing(s, i) => Dist(s[i].chunk, k, NChunks) <= Dist(s[i].chunk, m, NChunks)
<1>1. \A i : Standing(s, i) => s[i] \in Pen /\ s[i].chunk \in Chunk
  BY PenTypes DEF Standing
<1>2. \A i : Standing(s, i) => Dist(s[i].chunk, k, NChunks) \in Nat
  BY <1>1, ChunkDist
<1>3. CASE m = k
  BY <1>2, <1>3
<1>4. CASE m = Turn(k, NChunks) /\ NoneOn(s, k)
  <2>1. \A i : Standing(s, i) => Dist(s[i].chunk, m, NChunks) = Dist(s[i].chunk, k, NChunks) + 1
    BY <1>1, <1>4, ChunkDist, SMTT(30) DEF NoneOn
  <2>2. InOrder(s, m)
    <3> SUFFICES ASSUME NEW i, NEW j, Standing(s, i), Standing(s, j), i < j
                 PROVE  Dist(s[j].chunk, m, NChunks) < Dist(s[i].chunk, m, NChunks)
      BY Zenon DEF InOrder
    <3>1. Dist(s[j].chunk, k, NChunks) < Dist(s[i].chunk, k, NChunks)
      BY Zenon DEF InOrder
    <3>2. QED
      BY <1>2, <2>1, <3>1
  <2>3. QED
    BY <1>2, <2>1, <2>2
<1>5. QED
  BY <1>3, <1>4

LEMMA BootKeeps ==
  ASSUME NEW r \in Nat, NEW calm, NEW h, NEW s, KSound(r, calm, [f |-> h, p |-> h, kept |-> s]),
         NEW g, Typed(g), NextOn(g) = NextOn(h), SameSlots(g, h), SameUnits(g, h),
         RingMoves(BootOn(g), h, s)
  PROVE  KSound(r, calm, [f |-> g, p |-> h, kept |-> s])
<1> DEFINE Z == [f |-> h, p |-> h, kept |-> s]
           Y == [f |-> g, p |-> h, kept |-> s]
<1>1. Y.f = g /\ Y.p = h /\ Y.kept = s /\ Z.f = h /\ Z.p = h /\ Z.kept = s
  OBVIOUS
<1> HIDE DEF Y, Z
<1>2. /\ Typed(h) /\ s \in Seq(Pen)
      /\ KeptPart(r, Z) /\ RingPart(Z) /\ CalmPart(calm, Z)
  BY <1>1, Zenon DEF KSound, TypedPart, Z
<1>3. /\ RingOn(g) = RingOn(h) \/ (RingOn(g) = Turn(RingOn(h), NChunks) /\ NoneOn(s, RingOn(h)))
      /\ ~BootOn(g).wrapped => ~BootOn(h).wrapped /\ RingOn(h) <= RingOn(g)
  BY <1>2, RingMoved, Zenon
<1>4. RingOn(h) \in Chunk /\ RingOn(g) \in Chunk /\ NextOn(h) \in Slot
  BY <1>2, PlacesTyped
<1>5. InOrder(s, RingOn(h))
  BY <1>1, <1>2, Zenon DEF RingPart
<1>6. /\ InOrder(s, RingOn(g))
      /\ \A i : Standing(s, i) =>
           Dist(s[i].chunk, RingOn(h), NChunks) <= Dist(s[i].chunk, RingOn(g), NChunks)
  BY <1>2, <1>3, <1>4, <1>5, RingFar
<1>7. \A k \in Chunk : CellsOn(g, k) = CellsOn(h, k)
  BY CellsSame, Zenon DEF SameUnits
<1>8. KeptPart(r, Y)
  <2> SUFFICES ASSUME NEW n, Standing(s, n)
               PROVE  KeptOK(r, Y, s[n])
    BY <1>1, Zenon DEF KeptPart
  <2> DEFINE w == s[n]
  <2>1. KeptOK(r, Z, w)
    BY <1>1, <1>2, Zenon DEF KeptPart
  <2>2. w \in Pen /\ w.count > 0 /\ w.chunk \in Chunk
    BY <2>1, PenTypes DEF KeptOK
  <2>3. PICK i \in Slot : KeptAt(r, h, w, i)
    BY <1>1, <2>1, Zenon DEF KeptOK
  <2>4. Dist(w.chunk, RingOn(h), NChunks) <= Dist(w.chunk, RingOn(g), NChunks)
    BY <1>6
  <2> HIDE DEF w
  <2>5. /\ Dist(i, NextOn(h), NSlots) \in Nat
        /\ Dist(w.chunk, RingOn(h), NChunks) \in Nat /\ Dist(w.chunk, RingOn(g), NChunks) \in Nat
    BY <1>4, <2>2, SlotDist, ChunkDist
  <2>6. Dist(i, NextOn(h), NSlots) <= Dist(w.chunk, RingOn(h), NChunks) + r
    BY <2>3, Zenon DEF KeptAt
  <2>7. Dist(i, NextOn(g), NSlots) <= Dist(w.chunk, RingOn(g), NChunks) + r
    BY <2>4, <2>5, <2>6
  <2>8. KeptAt(r, g, w, i)
    BY <2>3, <2>7, Zenon DEF KeptAt, SameSlots
  <2>9. Tiled(CellsOn(g, w.chunk), SlotOf(w, "valid"))
    BY <1>1, <1>7, <2>1, <2>2, Zenon DEF KeptOK
  <2>10. \A u \in Unit : u < w.off => UnitOn(h, w.chunk, u) = UnitOn(g, w.chunk, u)
    BY <2>2, Zenon DEF SameUnits
  <2>11. KeptOK(r, Y, w)
    BY <1>1, <2>2, <2>3, <2>8, <2>9, <2>10, Zenon DEF KeptOK
  <2>12. QED
    BY <2>11 DEF w
<1>9. RingPart(Y)
  BY <1>1, <1>3, <1>5, <1>6, Zenon DEF RingPart
<1>10. NextPart(Y)
  BY <1>1, Zenon DEF NextPart
<1>11. CalmPart(calm, Y)
  <2> SUFFICES ASSUME calm, NEW j \in Slot, SlotOn(g, j).st = "valid"
               PROVE  SlotOK(g, SlotOn(g, j))
    BY <1>1, Zenon DEF CalmPart
  <2> DEFINE e == SlotOn(g, j)
  <2>1. SlotOK(h, e)
    BY <1>1, <1>2, Zenon DEF CalmPart, SameSlots
  <2>2. e \in IndexSlot
    BY PlacesTyped
  <2>3. e.chunk \in Chunk
    BY <2>2 DEF IndexSlot
  <2> HIDE DEF e
  <2>4. Tiled(CellsOn(g, e.chunk), e)
    BY <1>7, <2>1, <2>3, Zenon DEF SlotOK
  <2>5. ~BootOn(g).wrapped => e.chunk < RingOn(g)
    <3> SUFFICES ASSUME ~BootOn(g).wrapped PROVE e.chunk < RingOn(g)
      OBVIOUS
    <3>1. e.chunk < RingOn(h)
      BY <1>3, <2>1, Zenon DEF SlotOK
    <3>2. RingOn(h) <= RingOn(g)
      BY <1>3, Zenon
    <3>3. QED
      BY <1>4, <2>3, <3>1, <3>2 DEF Chunk
  <2>6. QED
    BY <2>4, <2>5, Zenon DEF SlotOK, e
<1>12. QED
  BY <1>1, <1>2, <1>8, <1>9, <1>10, <1>11, Zenon DEF KSound, TypedPart, Y

\* The next slot of the index moves on, if the write pointer did.
LEMMA NextKeeps ==
  ASSUME NEW r \in Nat, NEW calm, NEW Z, KSound(r, calm, Z), NextOn(Z.f) = NextOn(Z.p),
         NEW g, Typed(g), BootOn(g) = BootOn(Z.f), SameSlots(g, Z.f), SameUnits(g, Z.f),
         \/ NextOn(g) = NextOn(Z.f)
         \/ /\ NextOn(g) = OneOn(NextOn(Z.f))
            /\ RingOn(Z.f) = Turn(RingOn(Z.p), NChunks) /\ NoneOn(Z.kept, RingOn(Z.p))
  PROVE  KSound(r, calm, [f |-> g, p |-> Z.p, kept |-> Z.kept])
<1> DEFINE Y == [f |-> g, p |-> Z.p, kept |-> Z.kept]
<1>1. Y.f = g /\ Y.p = Z.p /\ Y.kept = Z.kept
  OBVIOUS
<1>2. /\ Typed(Z.f) /\ Typed(Z.p) /\ Z.kept \in Seq(Pen)
      /\ KeptPart(r, Z) /\ RingPart(Z) /\ CalmPart(calm, Z)
  BY Zenon DEF KSound, TypedPart
<1> HIDE DEF Y
<1>3. RingOn(g) = RingOn(Z.f)
  BY DEF RingOn
<1>4. RingOn(Z.f) \in Chunk /\ RingOn(Z.p) \in Chunk /\ NextOn(Z.f) \in Slot /\ NextOn(g) \in Slot
  BY <1>2, PlacesTyped
<1>5. \A k \in Chunk : CellsOn(g, k) = CellsOn(Z.f, k)
  BY CellsSame, Zenon DEF SameUnits
<1>6. KeptPart(r, Y)
  <2> SUFFICES ASSUME NEW n, Standing(Z.kept, n)
               PROVE  KeptOK(r, Y, Z.kept[n])
    BY <1>1, Zenon DEF KeptPart
  <2> DEFINE w == Z.kept[n]
  <2>1. KeptOK(r, Z, w)
    BY <1>2, Zenon DEF KeptPart
  <2>2. w \in Pen /\ w.count > 0 /\ w.chunk \in Chunk
    BY <2>1, PenTypes DEF KeptOK
  <2>3. PICK i \in Slot : KeptAt(r, Z.f, w, i) /\ KeptAt(r, Z.p, w, i)
    BY <2>1, Zenon DEF KeptOK
  <2>4. NoneOn(Z.kept, RingOn(Z.p)) => w.chunk # RingOn(Z.p)
    BY Zenon DEF NoneOn
  <2> HIDE DEF w
  <2>5. Dist(i, NextOn(g), NSlots) <= Dist(w.chunk, RingOn(g), NChunks) + r
    <3>1. CASE NextOn(g) = NextOn(Z.f)
      BY <1>3, <2>3, <3>1, Zenon DEF KeptAt
    <3>2. CASE /\ NextOn(g) = OneOn(NextOn(Z.f))
               /\ RingOn(Z.f) = Turn(RingOn(Z.p), NChunks) /\ NoneOn(Z.kept, RingOn(Z.p))
      <4>1. Dist(w.chunk, RingOn(g), NChunks) = Dist(w.chunk, RingOn(Z.p), NChunks) + 1
        BY <1>3, <1>4, <2>2, <2>4, <3>2, ChunkDist
      <4>2. Dist(i, NextOn(g), NSlots) <= Dist(i, NextOn(Z.p), NSlots) + 1
        BY <1>4, <3>2, SlotDist
      <4>3. Dist(i, NextOn(Z.p), NSlots) <= Dist(w.chunk, RingOn(Z.p), NChunks) + r
        BY <2>3, Zenon DEF KeptAt
      <4>4. /\ Dist(i, NextOn(g), NSlots) \in Nat /\ Dist(i, NextOn(Z.p), NSlots) \in Nat
            /\ Dist(w.chunk, RingOn(Z.p), NChunks) \in Nat
        BY <1>4, <2>2, SlotDist, ChunkDist
      <4>5. QED
        BY <4>1, <4>2, <4>3, <4>4
    <3>3. QED
      BY <3>1, <3>2
  <2>6. KeptAt(r, g, w, i)
    BY <2>3, <2>5, Zenon DEF KeptAt, SameSlots
  <2>7. Tiled(CellsOn(g, w.chunk), SlotOf(w, "valid"))
    BY <1>5, <2>1, <2>2, Zenon DEF KeptOK
  <2>8. \A u \in Unit : u < w.off => UnitOn(Z.p, w.chunk, u) = UnitOn(g, w.chunk, u)
    BY <2>1, <2>2, Zenon DEF KeptOK, SameUnits
  <2>9. KeptOK(r, Y, w)
    BY <1>1, <2>2, <2>3, <2>6, <2>7, <2>8, Zenon DEF KeptOK
  <2>10. QED
    BY <2>9 DEF w
<1>7. RingPart(Y)
  BY <1>1, <1>2, <1>3, Zenon DEF RingPart
<1>8. NextPart(Y)
  BY <1>1, Zenon DEF NextPart
<1>9. CalmPart(calm, Y)
  <2> SUFFICES ASSUME calm, NEW j \in Slot, SlotOn(g, j).st = "valid"
               PROVE  SlotOK(g, SlotOn(g, j))
    BY <1>1, Zenon DEF CalmPart
  <2>1. SlotOK(Z.f, SlotOn(g, j))
    BY <1>2, Zenon DEF CalmPart, SameSlots
  <2>2. SlotOn(g, j) \in IndexSlot
    BY PlacesTyped
  <2>3. SlotOn(g, j).chunk \in Chunk
    BY <2>2 DEF IndexSlot
  <2>4. QED
    BY <1>3, <1>5, <2>1, <2>3, Zenon DEF SlotOK
<1>10. QED
  BY <1>1, <1>2, <1>6, <1>7, <1>8, <1>9, Zenon DEF KSound, TypedPart, Y

\* Frames are written to a chunk without finished segments.
LEMMA UnitsKeep ==
  ASSUME NEW r, NEW calm, NEW Z, KSound(r, calm, Z), NEW k \in Chunk, CleanOn(calm, Z, k),
         NEW g, Typed(g), BootOn(g) = BootOn(Z.f), NextOn(g) = NextOn(Z.f), SameSlots(g, Z.f),
         \A m \in Chunk, u \in Unit : m # k => UnitOn(g, m, u) = UnitOn(Z.f, m, u)
  PROVE  KSound(r, calm, [f |-> g, p |-> Z.p, kept |-> Z.kept])
<1> DEFINE Y == [f |-> g, p |-> Z.p, kept |-> Z.kept]
<1>1. Y.f = g /\ Y.p = Z.p /\ Y.kept = Z.kept
  OBVIOUS
<1>2. /\ Typed(Z.f) /\ Typed(Z.p) /\ Z.kept \in Seq(Pen)
      /\ KeptPart(r, Z) /\ RingPart(Z) /\ NextPart(Z) /\ CalmPart(calm, Z)
  BY Zenon DEF KSound, TypedPart
<1> HIDE DEF Y
<1>3. RingOn(g) = RingOn(Z.f)
  BY DEF RingOn
<1>4. \A m \in Chunk : m # k => CellsOn(g, m) = CellsOn(Z.f, m)
  BY CellsSame, Zenon
<1>5. KeptPart(r, Y)
  <2> SUFFICES ASSUME NEW n, Standing(Z.kept, n)
               PROVE  KeptOK(r, Y, Z.kept[n])
    BY <1>1, Zenon DEF KeptPart
  <2> DEFINE w == Z.kept[n]
  <2>1. KeptOK(r, Z, w)
    BY <1>2, Zenon DEF KeptPart
  <2>2. w \in Pen /\ w.count > 0 /\ w.chunk \in Chunk
    BY <2>1, PenTypes DEF KeptOK
  <2>3. w.chunk # k
    BY Zenon DEF CleanOn, NoneOn
  <2>4. PICK i \in Slot : KeptAt(r, Z.f, w, i) /\ KeptAt(r, Z.p, w, i)
    BY <2>1, Zenon DEF KeptOK
  <2> HIDE DEF w
  <2>5. KeptAt(r, g, w, i)
    BY <1>3, <2>4, Zenon DEF KeptAt, SameSlots
  <2>6. Tiled(CellsOn(g, w.chunk), SlotOf(w, "valid"))
    BY <1>4, <2>1, <2>2, <2>3, Zenon DEF KeptOK
  <2>7. \A u \in Unit : u < w.off => UnitOn(Z.p, w.chunk, u) = UnitOn(g, w.chunk, u)
    BY <2>1, <2>2, <2>3, Zenon DEF KeptOK
  <2>8. KeptOK(r, Y, w)
    BY <1>1, <2>2, <2>4, <2>5, <2>6, <2>7, Zenon DEF KeptOK
  <2>9. QED
    BY <2>8 DEF w
<1>6. RingPart(Y)
  BY <1>1, <1>2, <1>3, Zenon DEF RingPart
<1>7. NextPart(Y)
  BY <1>1, <1>2, Zenon DEF NextPart
<1>8. CalmPart(calm, Y)
  <2> SUFFICES ASSUME calm, NEW j \in Slot, SlotOn(g, j).st = "valid"
               PROVE  SlotOK(g, SlotOn(g, j))
    BY <1>1, Zenon DEF CalmPart
  <2>1. SlotOK(Z.f, SlotOn(g, j)) /\ SlotOn(g, j).chunk # k
    BY <1>2, Zenon DEF CalmPart, SameSlots, CleanOn
  <2>2. SlotOn(g, j) \in IndexSlot
    BY PlacesTyped
  <2>3. SlotOn(g, j).chunk \in Chunk
    BY <2>2 DEF IndexSlot
  <2>4. QED
    BY <1>3, <1>4, <2>1, <2>3, Zenon DEF SlotOK
<1>9. QED
  BY <1>1, <1>2, <1>5, <1>6, <1>7, <1>8, Zenon DEF KSound, TypedPart, Y

\* A segment is finished: its slot is on the disk, just before the next one.
LEMMA AppendStands ==
  ASSUME NEW s, s \in Seq(Pen), NEW w, w \in Pen
  PROVE  /\ Append(s, w) \in Seq(Pen) /\ Len(s) \in Nat
         /\ \A i : Standing(Append(s, w), i) =>
              \/ Standing(s, i) /\ Append(s, w)[i] = s[i] /\ i <= Len(s) /\ i \in Nat
              \/ i = Len(s) + 1 /\ Append(s, w)[i] = w
<1>1. /\ Append(s, w) \in Seq(Pen) /\ Len(s) \in Nat /\ Len(Append(s, w)) = Len(s) + 1
      /\ \A i \in 1 .. Len(s) : Append(s, w)[i] = s[i]
      /\ Append(s, w)[Len(s) + 1] = w
  OBVIOUS
<1>2. ASSUME NEW i, Standing(Append(s, w), i)
      PROVE  \/ Standing(s, i) /\ Append(s, w)[i] = s[i] /\ i <= Len(s) /\ i \in Nat
             \/ i = Len(s) + 1 /\ Append(s, w)[i] = w
  <2> DEFINE t == Append(s, w)
  <2>1. i \in 1 .. Len(s) + 1 /\ t[i] # Idle
    BY <1>1, <1>2 DEF Standing
  <2> HIDE DEF t
  <2>2. CASE i = Len(s) + 1
    BY <1>1, <2>2
  <2>3. CASE i # Len(s) + 1
    <3>1. i \in 1 .. Len(s) /\ i <= Len(s) /\ i \in Nat
      BY <1>1, <2>1, <2>3
    <3>2. t[i] = s[i]
      BY <1>1, <3>1 DEF t
    <3>3. QED
      BY <2>1, <3>1, <3>2 DEF Standing, t
  <2>4. QED
    BY <2>2, <2>3
<1>3. QED
  BY <1>1, <1>2

LEMMA FinishKeeps ==
  ASSUME NEW r \in Nat, NEW calm, NEW h, NEW s, KSound(r, calm, [f |-> h, p |-> h, kept |-> s]),
         NEW w, w \in Pen, w.count > 0,
         SlotOn(h, Pred(NextOn(h))) = SlotOf(w, "valid"),
         Tiled(CellsOn(h, w.chunk), SlotOf(w, "valid")),
         RingOn(h) = Turn(w.chunk, NChunks), NoneOn(s, w.chunk)
  PROVE  KSound(r, calm, [f |-> h, p |-> h, kept |-> Append(s, w)])
<1> DEFINE Z == [f |-> h, p |-> h, kept |-> s]
           v == Append(s, w)
           Y == [f |-> h, p |-> h, kept |-> v]
<1>1. Y.f = h /\ Y.p = h /\ Y.kept = v /\ Z.f = h /\ Z.p = h /\ Z.kept = s
  OBVIOUS
<1> HIDE DEF Y, Z
<1>2. /\ Typed(h) /\ s \in Seq(Pen)
      /\ KeptPart(r, Z) /\ RingPart(Z) /\ CalmPart(calm, Z)
  BY <1>1, Zenon DEF KSound, TypedPart, Z
<1>3. /\ v \in Seq(Pen) /\ Len(s) \in Nat
      /\ \A i : Standing(v, i) =>
           \/ Standing(s, i) /\ v[i] = s[i] /\ i <= Len(s) /\ i \in Nat
           \/ i = Len(s) + 1 /\ v[i] = w
  BY <1>2, AppendStands
<1> HIDE DEF v
<1>4. NextOn(h) \in Slot /\ w.chunk \in Chunk /\ RingOn(h) \in Chunk
  BY <1>2, PlacesTyped, PenTypes
<1>5. Dist(w.chunk, RingOn(h), NChunks) = 1
  BY <1>4, ChunkDist
<1>6. KeptOK(r, Y, w)
  <2>1. Pred(NextOn(h)) \in Slot /\ Dist(Pred(NextOn(h)), NextOn(h), NSlots) = 1
    BY <1>4, PredTurn, SlotDist
  <2>2. 1 <= 1 + r
    OBVIOUS
  <2>3. KeptAt(r, h, w, Pred(NextOn(h)))
    BY <1>5, <2>1, <2>2 DEF KeptAt
  <2>4. QED
    BY <1>1, <2>1, <2>3, Zenon DEF KeptOK
<1>7. KeptPart(r, Y)
  <2> SUFFICES ASSUME NEW n, Standing(v, n)
               PROVE  KeptOK(r, Y, v[n])
    BY <1>1, Zenon DEF KeptPart
  <2>1. CASE Standing(s, n) /\ v[n] = s[n]
    <3>1. KeptOK(r, Z, s[n])
      BY <1>1, <1>2, <2>1, Zenon DEF KeptPart
    <3>2. QED
      BY <1>1, <2>1, <3>1, Zenon DEF KeptOK
  <2>2. CASE v[n] = w
    BY <1>6, <2>2
  <2>3. QED
    BY <1>3, <2>1, <2>2, Zenon
<1>8. InOrder(v, RingOn(h))
  <2>1. InOrder(s, RingOn(h))
    BY <1>1, <1>2, Zenon DEF RingPart
  <2> SUFFICES ASSUME NEW i, NEW j, Standing(v, i), Standing(v, j), i < j
               PROVE  Dist(v[j].chunk, RingOn(h), NChunks) < Dist(v[i].chunk, RingOn(h), NChunks)
    BY Zenon DEF InOrder
  <2>2. CASE Standing(s, j) /\ v[j] = s[j] /\ j <= Len(s) /\ j \in Nat
    <3>1. i # Len(s) + 1
      BY <1>3, <2>2
    <3>2. Standing(s, i) /\ v[i] = s[i]
      BY <1>3, <3>1
    <3>3. QED
      BY <2>1, <2>2, <3>2, Zenon DEF InOrder
  <2>3. CASE j = Len(s) + 1 /\ v[j] = w
    <3>1. i # Len(s) + 1
      BY <1>3, <2>3
    <3>2. Standing(s, i) /\ v[i] = s[i]
      BY <1>3, <3>1
    <3>3. s[i].chunk \in Chunk /\ s[i].chunk # w.chunk
      BY <1>2, <3>2, PenTypes DEF Standing, NoneOn
    <3>4. Dist(s[i].chunk, RingOn(h), NChunks) = Dist(s[i].chunk, w.chunk, NChunks) + 1
          /\ Dist(s[i].chunk, w.chunk, NChunks) \in 1 .. NChunks
      BY <1>4, <3>3, ChunkDist
    <3>5. QED
      BY <1>5, <2>3, <3>2, <3>4, FormatAssumption
  <2>4. QED
    BY <1>3, <2>2, <2>3, Zenon
<1>9. RingPart(Y)
  BY <1>1, <1>8, Zenon DEF RingPart
<1>10. NextPart(Y)
  BY <1>1, Zenon DEF NextPart
<1>11. CalmPart(calm, Y)
  BY <1>1, <1>2, Zenon DEF CalmPart
<1>12. QED
  BY <1>1, <1>2, <1>3, <1>7, <1>9, <1>10, <1>11, Zenon DEF KSound, TypedPart, Y, v

\* A chunk is taken from its segments.
Bare(s, k) == [i \in 1 .. Len(s) |-> IF s[i].chunk = k THEN Idle ELSE s[i]]

LEMMA BareStands ==
  ASSUME NEW s, s \in Seq(Pen), NEW k
  PROVE  /\ Bare(s, k) \in Seq(Pen) /\ Len(Bare(s, k)) = Len(s)
         /\ \A i : Standing(Bare(s, k), i) <=> Standing(s, i) /\ s[i].chunk # k
         /\ \A i : Standing(Bare(s, k), i) => Bare(s, k)[i] = s[i]
<1> DEFINE v == Bare(s, k)
<1>1. Len(s) \in Nat /\ \A i \in 1 .. Len(s) : s[i] \in Pen
  OBVIOUS
<1>2. v \in [1 .. Len(s) -> Pen] /\ \A i \in 1 .. Len(s) : v[i] = IF s[i].chunk = k THEN Idle ELSE s[i]
  BY <1>1, IdlePen DEF Bare
<1> HIDE DEF v
<1>3. v \in Seq(Pen) /\ Len(v) = Len(s)
  BY <1>1, <1>2
<1>4. \A i : Standing(v, i) <=> Standing(s, i) /\ s[i].chunk # k
  BY <1>2, <1>3, Zenon DEF Standing
<1>5. \A i : Standing(v, i) => v[i] = s[i]
  BY <1>2, <1>3, Zenon DEF Standing
<1>6. QED
  BY <1>3, <1>4, <1>5 DEF v

LEMMA TakeKeeps ==
  ASSUME NEW r, NEW calm, NEW Z, KSound(r, calm, Z), NEW k
  PROVE  /\ KSound(r, calm, [f |-> Z.f, p |-> Z.p, kept |-> Bare(Z.kept, k)])
         /\ NoneOn(Bare(Z.kept, k), k)
<1> DEFINE v == Bare(Z.kept, k)
           Y == [f |-> Z.f, p |-> Z.p, kept |-> v]
<1>1. Y.f = Z.f /\ Y.p = Z.p /\ Y.kept = v
  OBVIOUS
<1>2. /\ Typed(Z.f) /\ Typed(Z.p) /\ Z.kept \in Seq(Pen)
      /\ KeptPart(r, Z) /\ RingPart(Z) /\ NextPart(Z) /\ CalmPart(calm, Z)
  BY Zenon DEF KSound, TypedPart
<1> HIDE DEF Y
<1>3. /\ v \in Seq(Pen)
      /\ \A i : Standing(v, i) => Standing(Z.kept, i) /\ v[i] = Z.kept[i] /\ Z.kept[i].chunk # k
  BY <1>2, BareStands
<1> HIDE DEF v
<1>4. KeptPart(r, Y)
  <2> SUFFICES ASSUME NEW n, Standing(v, n)
               PROVE  KeptOK(r, Y, v[n])
    BY <1>1, Zenon DEF KeptPart
  <2>1. KeptOK(r, Z, Z.kept[n]) /\ v[n] = Z.kept[n]
    BY <1>2, <1>3, Zenon DEF KeptPart
  <2>2. QED
    BY <1>1, <2>1, Zenon DEF KeptOK
<1>5. ASSUME NEW m, InOrder(Z.kept, m) PROVE InOrder(v, m)
  <2> SUFFICES ASSUME NEW i, NEW j, Standing(v, i), Standing(v, j), i < j
               PROVE  Dist(v[j].chunk, m, NChunks) < Dist(v[i].chunk, m, NChunks)
    BY Zenon DEF InOrder
  <2>1. /\ Standing(Z.kept, i) /\ v[i] = Z.kept[i]
        /\ Standing(Z.kept, j) /\ v[j] = Z.kept[j]
    BY <1>3, Zenon
  <2>2. Dist(Z.kept[j].chunk, m, NChunks) < Dist(Z.kept[i].chunk, m, NChunks)
    BY <1>5, <2>1, Zenon DEF InOrder
  <2>3. QED
    BY <2>1, <2>2, Zenon
<1>6. \A m : NoneOn(Z.kept, m) => NoneOn(v, m)
  BY <1>3, Zenon DEF NoneOn
<1>7. RingPart(Y)
  BY <1>1, <1>2, <1>5, <1>6, Zenon DEF RingPart
<1>8. NextPart(Y) /\ CalmPart(calm, Y)
  BY <1>1, <1>2, Zenon DEF NextPart, CalmPart
<1>9. NoneOn(v, k)
  BY <1>3, Zenon DEF NoneOn
<1>10. KSound(r, calm, Y)
  BY <1>1, <1>2, <1>3, <1>4, <1>7, <1>8, Zenon DEF KSound, TypedPart
<1>11. QED
  BY <1>9, <1>10 DEF Y, v

-----------------------------------------------------------------------------
(* Crashes. *)

LEMMA DiskNumbers ==
  ASSUME NEW f, Typed(f), NEW w \in Pen, NEW i \in Slot
  PROVE  /\ Dist(i, NextOn(f), NSlots) \in Nat /\ Dist(w.chunk, RingOn(f), NChunks) \in Nat
         /\ RingOn(f) \in Chunk /\ NextOn(f) \in Slot /\ w.chunk \in Chunk
<1>1. RingOn(f) \in Chunk /\ NextOn(f) \in Slot /\ w.chunk \in Chunk
  BY PlacesTyped, PenTypes
<1>2. QED
  BY <1>1, SlotDist, ChunkDist

\* One more crash leaves one more slot unused.
LEMMA OneMore ==
  ASSUME NEW r \in Nat, NEW calm, NEW Z, KSound(r, calm, Z)
  PROVE  KSound(r + 1, calm, Z)
<1>1. /\ Typed(Z.f) /\ Typed(Z.p) /\ Z.kept \in Seq(Pen)
      /\ KeptPart(r, Z) /\ RingPart(Z) /\ NextPart(Z) /\ CalmPart(calm, Z)
  BY Zenon DEF KSound, TypedPart
<1>2. ASSUME NEW f, Typed(f), NEW w \in Pen, NEW i \in Slot, KeptAt(r, f, w, i)
      PROVE  KeptAt(r + 1, f, w, i)
  <2>1. Dist(i, NextOn(f), NSlots) <= Dist(w.chunk, RingOn(f), NChunks) + r
    BY <1>2, Zenon DEF KeptAt
  <2>2. Dist(i, NextOn(f), NSlots) \in Nat /\ Dist(w.chunk, RingOn(f), NChunks) \in Nat
    BY <1>2, DiskNumbers
  <2>3. Dist(i, NextOn(f), NSlots) <= Dist(w.chunk, RingOn(f), NChunks) + (r + 1)
    BY <2>1, <2>2
  <2>4. QED
    BY <1>2, <2>3, Zenon DEF KeptAt
<1>3. KeptPart(r + 1, Z)
  <2> SUFFICES ASSUME NEW n, Standing(Z.kept, n)
               PROVE  KeptOK(r + 1, Z, Z.kept[n])
    BY Zenon DEF KeptPart
  <2> DEFINE w == Z.kept[n]
  <2>1. KeptOK(r, Z, w)
    BY <1>1, Zenon DEF KeptPart
  <2>2. w \in Pen
    BY <2>1, Zenon DEF KeptOK
  <2>3. PICK i \in Slot : KeptAt(r, Z.f, w, i) /\ KeptAt(r, Z.p, w, i)
    BY <2>1, Zenon DEF KeptOK
  <2> HIDE DEF w
  <2>4. KeptAt(r + 1, Z.f, w, i) /\ KeptAt(r + 1, Z.p, w, i)
    BY <1>1, <1>2, <2>2, <2>3, Zenon
  <2>5. KeptOK(r + 1, Z, w)
    BY <2>1, <2>3, <2>4, Zenon DEF KeptOK
  <2>6. QED
    BY <2>5 DEF w
<1>4. QED
  BY <1>1, <1>3, Zenon DEF KSound, TypedPart

\* A power cut mixes what pread returned and what was synced.
Mixed(f, p, g) ==
  /\ BootOn(g) \in {BootOn(f), BootOn(p)} /\ NextOn(g) \in {NextOn(f), NextOn(p)}
  /\ \A i \in Slot : SlotOn(g, i) \in {SlotOn(f, i), SlotOn(p, i)}
  /\ \A k \in Chunk, u \in Unit : UnitOn(g, k, u) \in {UnitOn(f, k, u), UnitOn(p, k, u)}

LEMMA MixedNear ==
  ASSUME NEW r \in Nat, NEW f, NEW p, Typed(f), Typed(p), NEW g, Typed(g), Mixed(f, p, g),
         NEW w \in Pen, NEW i \in Slot, KeptAt(r, f, w, i), KeptAt(r, p, w, i),
         NextOn(f) = NextOn(p) \/ NextOn(f) = OneOn(NextOn(p)),
         Dist(w.chunk, RingOn(p), NChunks) <= Dist(w.chunk, RingOn(f), NChunks)
  PROVE  KeptAt(r + 1, g, w, i)
<1> DEFINE a == Dist(i, NextOn(f), NSlots)
           b == Dist(i, NextOn(p), NSlots)
           c == Dist(i, NextOn(g), NSlots)
           x == Dist(w.chunk, RingOn(f), NChunks)
           y == Dist(w.chunk, RingOn(p), NChunks)
           z == Dist(w.chunk, RingOn(g), NChunks)
<1>1. a \in Nat /\ b \in Nat /\ c \in Nat /\ x \in Nat /\ y \in Nat /\ z \in Nat
  BY DiskNumbers
<1>2. NextOn(p) \in Slot
  BY PlacesTyped
<1>3. a <= x + r /\ b <= y + r /\ y <= x
  BY DEF KeptAt
<1>4. a <= b + 1
  <2>1. CASE NextOn(f) = NextOn(p)
    BY <1>1, <2>1
  <2>2. CASE NextOn(f) = OneOn(NextOn(p))
    BY <1>2, <2>2, SlotDist
  <2>3. QED
    BY <2>1, <2>2
<1>5. c = a \/ c = b
  BY DEF Mixed
<1>6. z = x \/ z = y
  BY DEF Mixed, RingOn
<1> HIDE DEF a, b, c, x, y, z
<1>7. c <= z + (r + 1)
  BY <1>1, <1>3, <1>4, <1>5, <1>6
<1>8. SlotOn(g, i) = SlotOf(w, "valid")
  <2>1. SlotOn(g, i) \in {SlotOn(f, i), SlotOn(p, i)}
    BY Zenon DEF Mixed
  <2>2. QED
    BY <2>1, Zenon DEF KeptAt
<1>9. QED
  BY <1>7, <1>8, Zenon DEF KeptAt, c, z

LEMMA MixedKeeps ==
  ASSUME NEW r \in Nat, NEW calm, NEW Z, KSound(r, calm, Z), NEW g, Typed(g), Mixed(Z.f, Z.p, g)
  PROVE  KSound(r + 1, FALSE, [f |-> g, p |-> g, kept |-> Z.kept])
<1> DEFINE Y == [f |-> g, p |-> g, kept |-> Z.kept]
<1>1. Y.f = g /\ Y.p = g /\ Y.kept = Z.kept
  OBVIOUS
<1>2. /\ Typed(Z.f) /\ Typed(Z.p) /\ Z.kept \in Seq(Pen)
      /\ KeptPart(r, Z) /\ RingPart(Z) /\ NextPart(Z)
  BY Zenon DEF KSound, TypedPart
<1> HIDE DEF Y
<1>3. RingOn(Z.p) \in Chunk /\ RingOn(Z.f) \in Chunk
  BY <1>2, PlacesTyped
<1>4. \A n : Standing(Z.kept, n) =>
        Dist(Z.kept[n].chunk, RingOn(Z.p), NChunks) <= Dist(Z.kept[n].chunk, RingOn(Z.f), NChunks)
  BY <1>2, <1>3, RingFar DEF RingPart
<1>5. RingOn(g) = RingOn(Z.f) \/ RingOn(g) = RingOn(Z.p)
  BY DEF Mixed, RingOn
<1>6. KeptPart(r + 1, Y)
  <2> SUFFICES ASSUME NEW n, Standing(Z.kept, n)
               PROVE  KeptOK(r + 1, Y, Z.kept[n])
    BY <1>1, Zenon DEF KeptPart
  <2> DEFINE w == Z.kept[n]
             e == SlotOf(w, "valid")
  <2>1. KeptOK(r, Z, w)
    BY <1>2, Zenon DEF KeptPart
  <2>2. w \in Pen /\ w.count > 0 /\ w.chunk \in Chunk /\ w.off \in 0 .. ChunkUnits
    BY <2>1, PenTypes DEF KeptOK
  <2>3. PICK i \in Slot : KeptAt(r, Z.f, w, i) /\ KeptAt(r, Z.p, w, i)
    BY <2>1, Zenon DEF KeptOK
  <2>4. Dist(w.chunk, RingOn(Z.p), NChunks) <= Dist(w.chunk, RingOn(Z.f), NChunks)
    BY <1>4
  <2>5. NextOn(Z.f) = NextOn(Z.p) \/ NextOn(Z.f) = OneOn(NextOn(Z.p))
    BY <1>2, Zenon DEF NextPart
  <2> HIDE DEF w
  <2>6. KeptAt(r + 1, g, w, i)
    BY <1>2, <2>2, <2>3, <2>4, <2>5, MixedNear
  <2>7. \A u \in Unit : u < w.off => UnitOn(g, w.chunk, u) = UnitOn(Z.f, w.chunk, u)
    BY <2>1, <2>2, Zenon DEF KeptOK, Mixed
  <2>8. Tiled(CellsOn(g, w.chunk), e)
    <3>1. e \in IndexSlot
      BY <2>2, PenSlot
    <3>2. e.bytes = w.off
      BY DEF SlotOf
    <3>3. Tiled(CellsOn(Z.f, w.chunk), e)
      BY <2>1, Zenon DEF KeptOK
    <3>4. e.endOff < e.bytes
      BY <3>3, Zenon DEF Tiled
    <3>5. CellsOn(g, w.chunk) \in [Unit -> Cell] /\ CellsOn(Z.f, w.chunk) \in [Unit -> Cell]
      BY <1>2, <2>2, PlacesTyped
    <3>6. \A u \in Unit : u < w.off => CellsOn(g, w.chunk)[u] = CellsOn(Z.f, w.chunk)[u]
      BY <2>7, Zenon DEF CellsOn
    <3>7. w.off \in Nat /\ e.bytes <= w.off
      BY <2>2, <3>2, FormatAssumption
    <3> HIDE DEF e
    <3>8. QED
      BY <3>1, <3>3, <3>4, <3>5, <3>6, <3>7, TiledSame
  <2>9. KeptOK(r + 1, Y, w)
    BY <1>1, <2>2, <2>3, <2>6, <2>8, Zenon DEF KeptOK
  <2>10. QED
    BY <2>9 DEF w
<1>7. RingPart(Y) /\ NextPart(Y) /\ CalmPart(FALSE, Y)
  BY <1>1, <1>2, <1>5, Zenon DEF RingPart, NextPart, CalmPart
<1>8. QED
  BY <1>1, <1>2, <1>6, <1>7, Zenon DEF KSound, TypedPart, Y

-----------------------------------------------------------------------------
(* The disk operations of the calls. *)

LEMMA PutGoes ==
  ASSUME NEW r, NEW calm, NEW Z, KSound(r, calm, Z), NEW v,
         KSound(r, calm, [f |-> Over(Z.f, v), p |-> Z.p, kept |-> Z.kept])
  PROVE  Goes(r, calm, Z, <<Put(v)>>, [f |-> Over(Z.f, v), p |-> Z.p, kept |-> Z.kept])
<1>1. Put(v).op = "put" /\ Put(v).vals = v
  BY DEF Put
<1>2. Does(Z, Put(v)) = [f |-> Over(Z.f, v), p |-> Z.p, kept |-> Z.kept] /\ MayDo(Z, Put(v))
  BY <1>1 DEF Does, MayDo
<1>3. QED
  BY <1>2, GoesOne, Zenon

LEMMA SyncGoes ==
  ASSUME NEW r, NEW calm, NEW Z, KSound(r, calm, Z)
  PROVE  Goes(r, calm, Z, <<Sync>>, [f |-> Z.f, p |-> Z.f, kept |-> Z.kept])
<1>1. Does(Z, Sync) = [f |-> Z.f, p |-> Z.f, kept |-> Z.kept] /\ MayDo(Z, Sync)
  BY DEF Does, MayDo, Sync
<1>2. KSound(r, calm, [f |-> Z.f, p |-> Z.f, kept |-> Z.kept])
  BY SyncKeeps, Zenon
<1>3. QED
  BY <1>1, <1>2, GoesOne, Zenon

LEMMA PairSeq == ASSUME NEW o, NEW q PROVE <<o>> \o <<q>> = <<o, q>>
<1>1. /\ <<o>> \in Seq({o, q}) /\ Len(<<o>>) = 1 /\ <<o>>[1] = o
      /\ <<q>> \in Seq({o, q}) /\ Len(<<q>>) = 1 /\ <<q>>[1] = q
      /\ <<o, q>> \in Seq({o, q}) /\ Len(<<o, q>>) = 2 /\ <<o, q>>[1] = o /\ <<o, q>>[2] = q
  OBVIOUS
<1> DEFINE s == <<o>> \o <<q>>
<1>2. /\ s \in Seq({o, q}) /\ Len(s) = 1 + 1
      /\ \A i \in 1 .. 1 + 1 : s[i] = IF i <= 1 THEN <<o>>[i] ELSE <<q>>[i - 1]
  BY <1>1, ConcatProperties
<1> HIDE DEF s
<1>3. Len(s) = 2 /\ s[1] = o /\ s[2] = q
  BY <1>1, <1>2
<1>4. \A i \in 1 .. 2 : i = 1 \/ i = 2
  OBVIOUS
<1>5. \A i \in 1 .. Len(s) : s[i] = <<o, q>>[i]
  BY <1>1, <1>3, <1>4, Zenon
<1>6. s = <<o, q>>
  BY <1>1, <1>2, <1>3, <1>5, SeqEqual
<1>7. QED
  BY <1>6 DEF s

LEMMA GoesTwo ==
  ASSUME NEW r, NEW calm, NEW X, NEW Y, NEW Z, NEW o, NEW q,
         Goes(r, calm, X, <<o>>, Y), Goes(r, calm, Y, <<q>>, Z)
  PROVE  Goes(r, calm, X, <<o, q>>, Z)
<1>1. Goes(r, calm, X, <<o>> \o <<q>>, Z)
  BY GoesOn, Zenon
<1>2. QED
  BY <1>1, PairSeq

\* A slot, then the sync of rsdk_index_write.
SlotPut(i, e, h, g) ==
  /\ Typed(g) /\ HeadLike(g, h) /\ SameUnits(g, h)
  /\ \A j \in Slot : SlotOn(g, j) = IF j = i THEN e ELSE SlotOn(h, j)

LEMMA SlotGoes ==
  ASSUME NEW r, NEW calm, NEW Z, KSound(r, calm, Z), NEW i \in Slot, NEW e \in IndexSlot,
         \A n : Standing(Z.kept, n) => ~KeptAt(r, Z.f, Z.kept[n], i),
         calm /\ e.st = "valid" => SlotOK(Z.f, e)
  PROVE  \E g : /\ Goes(r, calm, Z, <<PutAt(<<"slot", i>>, e), Sync>>,
                        [f |-> g, p |-> g, kept |-> Z.kept])
                /\ SlotPut(i, e, Z.f, g)
<1> DEFINE v == SlotVals(i, e)
           g == Over(Z.f, v)
           Z1 == [f |-> g, p |-> Z.p, kept |-> Z.kept]
           Z2 == [f |-> g, p |-> g, kept |-> Z.kept]
<1>1. PutAt(<<"slot", i>>, e) = Put(v)
  BY DEF PutAt, SlotVals
<1>2. Typed(Z.f)
  BY Zenon DEF KSound, TypedPart
<1>3. SlotPut(i, e, Z.f, g)
  BY <1>2, SlotView DEF SlotPut
<1>4. Z1.f = g /\ Z1.kept = Z.kept
  OBVIOUS
<1> HIDE DEF v, Z1, Z2
<1>5. KSound(r, calm, Z1)
  <2> HIDE DEF g
  <2>1. Typed(g) /\ BootOn(g) = BootOn(Z.f) /\ NextOn(g) = NextOn(Z.f) /\ SameUnits(g, Z.f)
    BY <1>3, Zenon DEF SlotPut, HeadLike
  <2>2. \A j \in Slot : \/ SlotOn(g, j) = SlotOn(Z.f, j)
                        \/ \A n : Standing(Z.kept, n) => ~KeptAt(r, Z.f, Z.kept[n], j)
    BY <1>3, Zenon DEF SlotPut
  <2>3. calm => \A j \in Slot : SlotOn(g, j).st = "valid" =>
                  SlotOn(g, j) = SlotOn(Z.f, j) \/ SlotOK(Z.f, SlotOn(g, j))
    BY <1>3, Zenon DEF SlotPut
  <2>4. QED
    BY <2>1, <2>2, <2>3, SlotsKeep, Zenon DEF Z1
<1>6. Goes(r, calm, Z, <<Put(v)>>, Z1)
  BY <1>5, PutGoes, Zenon DEF Z1
<1>7. Goes(r, calm, Z1, <<Sync>>, Z2)
  BY <1>4, <1>5, SyncGoes DEF Z2
<1>8. Goes(r, calm, Z, <<PutAt(<<"slot", i>>, e), Sync>>, Z2)
  BY <1>1, <1>6, <1>7, GoesTwo, Zenon
<1>9. QED
  BY <1>3, <1>8, Zenon DEF Z2

\* rsdk_dev_flush: first the backup, which no mount reads.
Alike(g, h) == Typed(g) /\ HeadLike(g, h) /\ SameSlots(g, h) /\ SameUnits(g, h)

LEMMA AlikeKeeps ==
  ASSUME NEW r, NEW calm, NEW Z, KSound(r, calm, Z), NEW g, Alike(g, Z.f)
  PROVE  KSound(r, calm, [f |-> g, p |-> Z.p, kept |-> Z.kept])
<1>1. Typed(g) /\ BootOn(g) = BootOn(Z.f) /\ NextOn(g) = NextOn(Z.f) /\ SameUnits(g, Z.f)
  BY Zenon DEF Alike, HeadLike
<1>2. \A j \in Slot : SlotOn(g, j) = SlotOn(Z.f, j)
  BY Zenon DEF Alike, SameSlots
<1>3. QED
  BY <1>1, <1>2, SlotsKeep, Zenon

LEMMA BackupGoes ==
  ASSUME NEW r, NEW calm, NEW Z, KSound(r, calm, Z), NEW b \in Super, NEW t \in Tab
  PROVE  \E g : /\ Goes(r, calm, Z, PutCopy("bak", b, t), [f |-> g, p |-> Z.p, kept |-> Z.kept])
                /\ Alike(g, Z.f)
<1> DEFINE v == BootVals("bak", b)
           h == Over(Z.f, v)
           u == TabVals("bak", t)
           g == Over(h, u)
           Z1 == [f |-> h, p |-> Z.p, kept |-> Z.kept]
           Z2 == [f |-> g, p |-> Z.p, kept |-> Z.kept]
<1>1. PutCopy("bak", b, t) = <<Put(v), Put(u)>>
  BY DEF PutCopy, PutAt, BootVals, TabVals
<1>2. Typed(Z.f) /\ "bak" \in Copy /\ "bak" # "main"
  BY Places, Zenon DEF KSound, TypedPart
<1>3. Alike(h, Z.f)
  <2>1. /\ Typed(h) /\ SameSlots(h, Z.f) /\ SameUnits(h, Z.f)
        /\ NextOn(h) = NextOn(Z.f) /\ CountsOn(h) = CountsOn(Z.f)
        /\ BootOn(h) = IF "bak" = "main" THEN b ELSE BootOn(Z.f)
    BY <1>2, BootView
  <2>2. QED
    BY <1>2, <2>1, Zenon DEF Alike, HeadLike
<1>4. Z1.f = h /\ Z1.p = Z.p /\ Z1.kept = Z.kept
  OBVIOUS
<1> HIDE DEF v, u, h, Z1
<1>5. Alike(g, h)
  <2>1. Typed(h)
    BY <1>3, Zenon DEF Alike
  <2>2. /\ Typed(g) /\ \A j \in Slot : SlotOn(g, j) = SlotOn(h, j)
        /\ NextOn(g) = IF "bak" = "main" THEN t.next ELSE NextOn(h)
        /\ CountsOn(g) = IF "bak" = "main" THEN t.seq ELSE CountsOn(h)
    BY <1>2, <2>1, TabOver DEF u
  <2>3. BootOn(g) = BootOn(h) /\ SameUnits(g, h)
    BY <1>2, <2>1, TabView DEF u
  <2>4. QED
    BY <1>2, <2>2, <2>3, Zenon DEF Alike, HeadLike, SameSlots
<1>6. KSound(r, calm, Z1)
  BY <1>3, AlikeKeeps, Zenon DEF Z1
<1>7. Goes(r, calm, Z, <<Put(v)>>, Z1)
  BY <1>6, PutGoes, Zenon DEF Z1, h
<1>8. Z2 = [f |-> Over(Z1.f, u), p |-> Z1.p, kept |-> Z1.kept]
  BY <1>4, Zenon
<1>9. KSound(r, calm, Z2)
  BY <1>4, <1>5, <1>6, <1>8, AlikeKeeps, Zenon
<1>10. Goes(r, calm, Z1, <<Put(u)>>, Z2)
  BY <1>6, <1>8, <1>9, PutGoes, Zenon
<1>11. Goes(r, calm, Z, PutCopy("bak", b, t), Z2)
  <2>1. Goes(r, calm, Z, <<Put(v), Put(u)>>, Z2)
    <3> HIDE DEF Z2
    <3>1. QED
      BY <1>7, <1>10, GoesTwo, Zenon
  <2>2. QED
    BY <1>1, <2>1, Zenon
<1>12. Alike(g, Z.f)
  BY <1>3, <1>5, Zenon DEF Alike, HeadLike, SameSlots, SameUnits
<1>13. QED
  BY <1>11, <1>12, Zenon

\* Then the main copy, behind a sync.
NextMoves(b, n, h, s) ==
  \/ n = NextOn(h)
  \/ n = OneOn(NextOn(h)) /\ b = Moved(BootOn(h)) /\ NoneOn(s, RingOn(h))
HeadPut(b, t, h, g) ==
  /\ Typed(g) /\ SameSlots(g, h) /\ SameUnits(g, h)
  /\ BootOn(g) = b /\ NextOn(g) = t.next /\ CountsOn(g) = t.seq

LEMMA MainGoes ==
  ASSUME NEW r \in Nat, NEW calm, NEW h, NEW s, KSound(r, calm, [f |-> h, p |-> h, kept |-> s]),
         NEW b \in Super, NEW t \in Tab, RingMoves(b, h, s), NextMoves(b, t.next, h, s)
  PROVE  \E g : /\ Goes(r, calm, [f |-> h, p |-> h, kept |-> s], PutCopy("main", b, t),
                        [f |-> g, p |-> h, kept |-> s])
                /\ HeadPut(b, t, h, g)
<1> DEFINE Z == [f |-> h, p |-> h, kept |-> s]
           v == BootVals("main", b)
           d == Over(h, v)
           u == TabVals("main", t)
           g == Over(d, u)
           Z1 == [f |-> d, p |-> h, kept |-> s]
           Z2 == [f |-> g, p |-> h, kept |-> s]
<1>1. PutCopy("main", b, t) = <<Put(v), Put(u)>>
  BY DEF PutCopy, PutAt, BootVals, TabVals
<1>2. Z.f = h /\ Z.p = h /\ Z.kept = s
  OBVIOUS
<1>3. Z1.f = d /\ Z1.p = h /\ Z1.kept = s
  OBVIOUS
<1> HIDE DEF Z, Z1
<1>4. KSound(r, calm, Z)
  BY DEF Z
<1>5. Typed(h) /\ s \in Seq(Pen) /\ "main" \in Copy
  BY <1>2, <1>4, Places, Zenon DEF KSound, TypedPart
<1>6. /\ Typed(d) /\ SameSlots(d, h) /\ SameUnits(d, h)
      /\ NextOn(d) = NextOn(h) /\ CountsOn(d) = CountsOn(h) /\ BootOn(d) = b
  BY <1>5, BootView
<1> HIDE DEF v, u, d
<1>7. KSound(r, calm, Z1)
  BY <1>4, <1>6, BootKeeps, Zenon DEF Z, Z1
<1>8. /\ Typed(g) /\ NextOn(g) = t.next /\ CountsOn(g) = t.seq
      /\ \A j \in Slot : SlotOn(g, j) = SlotOn(d, j)
  BY <1>5, <1>6, TabOver DEF u
<1>9. BootOn(g) = BootOn(d) /\ SameUnits(g, d)
  BY <1>5, <1>6, TabView DEF u
<1> HIDE DEF g
<1>10. \/ NextOn(g) = NextOn(d)
       \/ /\ NextOn(g) = OneOn(NextOn(d))
          /\ RingOn(d) = Turn(RingOn(h), NChunks) /\ NoneOn(s, RingOn(h))
  <2>1. CASE t.next = NextOn(h)
    BY <1>6, <1>8, <2>1
  <2>2. CASE t.next = OneOn(NextOn(h)) /\ b = Moved(BootOn(h)) /\ NoneOn(s, RingOn(h))
    <3>1. BootOn(h) \in Super
      BY <1>5, PlacesTyped
    <3>2. Moved(BootOn(h)).wptr = Turn(BootOn(h).wptr, NChunks)
      BY <3>1, MovedTurn
    <3>3. RingOn(d) = Turn(RingOn(h), NChunks)
      BY <1>6, <2>2, <3>2, Zenon DEF RingOn
    <3>4. QED
      BY <1>6, <1>8, <2>2, <3>3
  <2>3. QED
    BY <2>1, <2>2 DEF NextMoves
<1>11. KSound(r, calm, Z2)
  <2>1. NextOn(Z1.f) = NextOn(Z1.p) /\ BootOn(g) = BootOn(Z1.f) /\ SameSlots(g, Z1.f) /\ SameUnits(g, Z1.f)
    BY <1>3, <1>6, <1>8, <1>9, Zenon DEF SameSlots
  <2>2. \/ NextOn(g) = NextOn(Z1.f)
        \/ /\ NextOn(g) = OneOn(NextOn(Z1.f))
           /\ RingOn(Z1.f) = Turn(RingOn(Z1.p), NChunks) /\ NoneOn(Z1.kept, RingOn(Z1.p))
    BY <1>3, <1>10, Zenon
  <2>3. KSound(r, calm, [f |-> g, p |-> Z1.p, kept |-> Z1.kept])
    BY <1>7, <1>8, <2>1, <2>2, NextKeeps, Zenon
  <2>4. QED
    BY <1>3, <2>3, Zenon
<1>12. Goes(r, calm, Z, <<Put(v)>>, Z1)
  BY <1>2, <1>4, <1>7, PutGoes, Zenon DEF Z1, d
<1>13. Goes(r, calm, Z1, <<Put(u)>>, Z2)
  BY <1>3, <1>7, <1>11, PutGoes, Zenon DEF g
<1>14. Goes(r, calm, Z, PutCopy("main", b, t), Z2)
  <2>1. Goes(r, calm, Z, <<Put(v), Put(u)>>, Z2)
    <3> HIDE DEF Z2
    <3>1. QED
      BY <1>12, <1>13, GoesTwo, Zenon
  <2>2. QED
    BY <1>1, <2>1, Zenon
<1>15. HeadPut(b, t, h, g)
  BY <1>6, <1>8, <1>9, Zenon DEF HeadPut, SameSlots, SameUnits
<1>16. QED
  BY <1>14, <1>15, Zenon DEF Z

LEMMA FlushGoes ==
  ASSUME NEW r \in Nat, NEW calm, NEW Z, KSound(r, calm, Z), NEW b \in Super, NEW t \in Tab,
         RingMoves(b, Z.f, Z.kept), NextMoves(b, t.next, Z.f, Z.kept)
  PROVE  \E g : /\ Goes(r, calm, Z, Flush(b, t), [f |-> g, p |-> g, kept |-> Z.kept])
                /\ HeadPut(b, t, Z.f, g)
<1> DEFINE s == Z.kept
<1>1. PICK h : /\ Goes(r, calm, Z, PutCopy("bak", b, t), [f |-> h, p |-> Z.p, kept |-> s])
               /\ Alike(h, Z.f)
  BY BackupGoes, Zenon
<1> DEFINE Z1 == [f |-> h, p |-> Z.p, kept |-> s]
           Z2 == [f |-> h, p |-> h, kept |-> s]
<1>2. Z1.f = h /\ Z1.kept = s /\ Goes(r, calm, Z, PutCopy("bak", b, t), Z1)
  BY <1>1
<1> HIDE DEF s, Z1
<1>3. KSound(r, calm, Z1)
  BY <1>2, GoesEnds, ZenonT(30)
<1>4. Goes(r, calm, Z1, <<Sync>>, Z2)
  BY <1>2, <1>3, SyncGoes, Zenon
<1> HIDE DEF Z2
<1>5. KSound(r, calm, Z2)
  BY <1>4, GoesEnds, ZenonT(30)
<1>6. RingMoves(b, h, s) /\ NextMoves(b, t.next, h, s)
  BY <1>1, Zenon DEF RingMoves, NextMoves, Alike, HeadLike, RingOn, s
<1>7. PICK g : /\ Goes(r, calm, Z2, PutCopy("main", b, t), [f |-> g, p |-> h, kept |-> s])
               /\ HeadPut(b, t, h, g)
  BY <1>5, <1>6, MainGoes, Zenon DEF Z2
<1> DEFINE Z5 == [f |-> g, p |-> h, kept |-> s]
           Z4 == [f |-> g, p |-> g, kept |-> s]
<1>8. Z5.f = g /\ Z5.kept = s /\ Goes(r, calm, Z2, PutCopy("main", b, t), Z5)
  BY <1>7
<1> HIDE DEF Z5
<1>9. KSound(r, calm, Z5)
  BY <1>8, GoesEnds, ZenonT(30)
<1>10. Goes(r, calm, Z5, <<Sync>>, Z4)
  BY <1>8, <1>9, SyncGoes, Zenon
<1> HIDE DEF Z4
<1>11. Goes(r, calm, Z, PutCopy("bak", b, t) \o <<Sync>>, Z2)
  BY <1>2, <1>4, GoesOn, Zenon
<1>12. Goes(r, calm, Z, PutCopy("bak", b, t) \o <<Sync>> \o PutCopy("main", b, t), Z5)
  BY <1>8, <1>11, GoesOn, Zenon
<1>13. Goes(r, calm, Z, PutCopy("bak", b, t) \o <<Sync>> \o PutCopy("main", b, t) \o <<Sync>>, Z4)
  BY <1>10, <1>12, GoesOn, Zenon
<1>14. HeadPut(b, t, Z.f, g)
  BY <1>1, <1>7, Zenon DEF HeadPut, Alike, SameSlots, SameUnits
<1>15. QED
  BY <1>13, <1>14, Zenon DEF Flush, Z4, s

\* rsdk_index_write of an open slot, behind a write pointer that moved.
OpenPut(b, t, e, h, g) ==
  /\ Typed(g) /\ SameUnits(g, h)
  /\ BootOn(g) = b /\ NextOn(g) = OneOn(NextOn(h)) /\ CountsOn(g) = t.seq
  /\ \A j \in Slot : SlotOn(g, j) = IF j = NextOn(h) THEN e ELSE SlotOn(h, j)

LEMMA NextIsFree ==
  ASSUME WideIndex, NEW r \in Nat, r <= MaxCrashes, NEW calm, NEW Z, KSound(r, calm, Z),
         NoneOn(Z.kept, RingOn(Z.f)), NEW n, Standing(Z.kept, n)
  PROVE  ~KeptAt(r, Z.f, Z.kept[n], NextOn(Z.f))
<1> DEFINE w == Z.kept[n]
           i == NextOn(Z.f)
<1>1. /\ Typed(Z.f) /\ Z.kept \in Seq(Pen)
  BY Zenon DEF KSound, TypedPart
<1>2. w \in Pen /\ w.chunk # RingOn(Z.f)
  BY <1>1 DEF Standing, NoneOn
<1>3. w.chunk \in Chunk /\ RingOn(Z.f) \in Chunk /\ i \in Slot
  BY <1>1, <1>2, PlacesTyped, PenTypes
<1> DEFINE d == Dist(w.chunk, RingOn(Z.f), NChunks)
<1>4. d \in 1 .. NChunks /\ d # NChunks /\ NChunks \in Nat
  BY <1>2, <1>3, ChunkDist
<1>5. Dist(i, i, NSlots) = NSlots /\ NSlots \in Nat
  BY <1>3, SlotDist
<1> HIDE DEF d
<1>6. ~(NSlots <= d + r)
  BY <1>4, <1>5 DEF WideIndex
<1>7. QED
  BY <1>5, <1>6 DEF KeptAt, d

Opened(r, calm, Z, ix, e, b, t, g) ==
  /\ Goes(r, calm, Z, IndexOps(ix, e, b, t), [f |-> g, p |-> g, kept |-> Z.kept])
  /\ OpenPut(b, t, e, Z.f, g) /\ NextOn(g) = IndexWrite(ix, e).next

LEMMA OpenSlotGoes ==
  ASSUME WideIndex, NEW r \in Nat, r <= MaxCrashes, NEW calm, NEW Z, KSound(r, calm, Z),
         NoneOn(Z.kept, RingOn(Z.f)),
         NEW ix, IndexOf(Z, ix), NEW e \in IndexSlot, e.st = "open", Found(ix, e.seg) = {},
         NEW b \in Super, b = Moved(BootOn(Z.f)), NEW t \in Tab
  PROVE  \E g : Opened(r, calm, Z, ix, e, b, t, g)
<1> DEFINE s == Z.kept
           i == NextOn(Z.f)
           t2 == [t EXCEPT !.next = IndexWrite(ix, e).next]
<1>1. Typed(Z.f)
  BY Zenon DEF KSound, TypedPart
<1>2. i \in Slot /\ ix.next = i /\ ix.slot \in [Slot -> IndexSlot]
  BY <1>1, PlacesTyped DEF IndexOf
<1>3. Target(ix, e) = i /\ IndexWrite(ix, e).next = OneOn(i) /\ OneOn(i) \in Slot
  BY <1>2, WriteSlot, OneOnTurn
<1>4. t2 \in Tab /\ t2.next = OneOn(i) /\ t2.seq = t.seq
  BY <1>3 DEF Tab
<1>5. IndexOps(ix, e, b, t) = <<PutAt(<<"slot", i>>, e), Sync>> \o Flush(b, t2)
  BY <1>3 DEF IndexOps
<1> HIDE DEF t2
<1>6. \A n : Standing(Z.kept, n) => ~KeptAt(r, Z.f, Z.kept[n], i)
  BY NextIsFree, Zenon
<1>7. ~(calm /\ e.st = "valid")
  OBVIOUS
<1> HIDE DEF i
<1>8. PICK h : /\ Goes(r, calm, Z, <<PutAt(<<"slot", i>>, e), Sync>>, [f |-> h, p |-> h, kept |-> Z.kept])
               /\ SlotPut(i, e, Z.f, h)
  BY <1>2, <1>6, <1>7, SlotGoes, Zenon
<1> DEFINE Z1 == [f |-> h, p |-> h, kept |-> s]
<1>9. Z1.f = h /\ Z1.kept = s /\ Goes(r, calm, Z, <<PutAt(<<"slot", i>>, e), Sync>>, Z1)
  BY <1>8
<1> HIDE DEF Z1, s
<1>10. KSound(r, calm, Z1)
  BY <1>9, GoesEnds, ZenonT(30)
<1>11. BootOn(h) = BootOn(Z.f) /\ NextOn(h) = i /\ RingOn(h) = RingOn(Z.f)
  BY <1>8, Zenon DEF SlotPut, HeadLike, RingOn, i
<1>12. NoneOn(s, RingOn(h)) /\ b = Moved(BootOn(h))
  BY <1>11, Zenon DEF s
<1>13. RingMoves(b, h, s) /\ NextMoves(b, t2.next, h, s)
  BY <1>4, <1>11, <1>12, Zenon DEF RingMoves, NextMoves
<1>14. PICK g : /\ Goes(r, calm, Z1, Flush(b, t2), [f |-> g, p |-> g, kept |-> Z1.kept])
                /\ HeadPut(b, t2, Z1.f, g)
  BY <1>4, <1>9, <1>10, <1>13, FlushGoes, Zenon
<1> DEFINE Z2 == [f |-> g, p |-> g, kept |-> s]
<1>15. Goes(r, calm, Z1, Flush(b, t2), Z2)
  BY <1>9, <1>14, Zenon
<1> HIDE DEF Z2
<1>16. Goes(r, calm, Z, IndexOps(ix, e, b, t), Z2)
  <2>1. Goes(r, calm, Z, <<PutAt(<<"slot", i>>, e), Sync>> \o Flush(b, t2), Z2)
    BY <1>9, <1>15, GoesOn, Zenon
  <2>2. QED
    BY <1>5, <2>1, Zenon
<1>17. OpenPut(b, t, e, Z.f, g) /\ NextOn(g) = IndexWrite(ix, e).next
  BY <1>3, <1>4, <1>8, <1>9, <1>14, Zenon DEF OpenPut, HeadPut, SlotPut, SameSlots, SameUnits, i
<1>18. QED
  BY <1>16, <1>17, Zenon DEF Z2, s, Opened

\* rsdk_index_write of the valid slot, over the open one before the next.
LEMMA FoundFirst ==
  ASSUME NEW ix, ix.next \in Slot, NEW s, Names(ix.slot[Pred(ix.next)], s)
  PROVE  Found(ix, s) # {} /\ \A k \in Found(ix, s) : Back(ix, k) = Pred(ix.next)
<1>1. 1 \in 1 .. Scan
  BY FormatAssumption DEF Scan
<1>2. Back(ix, 1) = Pred(ix.next)
  BY PredTurn DEF Back
<1>3. 1 \in Found(ix, s)
  <2>1. \A j \in 1 .. 1 - 1 : FALSE
    OBVIOUS
  <2>2. QED
    BY <1>1, <1>2, <2>1 DEF Found
<1>4. ASSUME NEW k \in Found(ix, s) PROVE k = 1
  <2>1. k \in 1 .. Scan /\ \A j \in 1 .. k - 1 : ~Names(ix.slot[Back(ix, j)], s)
    BY <1>4 DEF Found
  <2>2. k # 1 => 1 \in 1 .. k - 1
    BY <2>1, FormatAssumption DEF Scan
  <2>3. QED
    BY <1>2, <2>1, <2>2
<1>5. QED
  BY <1>2, <1>3, <1>4

ValidPut(r, calm, Z, ix, e, b, t, g) ==
  /\ Goes(r, calm, Z, IndexOps(ix, e, b, t), [f |-> g, p |-> g, kept |-> Z.kept])
  /\ SlotPut(Pred(NextOn(Z.f)), e, Z.f, g)
  /\ NextOn(g) = IndexWrite(ix, e).next
  /\ \A j \in Slot : SlotOn(g, j) = IndexWrite(ix, e).slot[j]

LEMMA ValidSlotGoes ==
  ASSUME NEW r \in Nat, NEW calm, NEW Z, KSound(r, calm, Z),
         NEW ix, IndexOf(Z, ix), NEW e \in IndexSlot,
         Names(SlotOn(Z.f, Pred(NextOn(Z.f))), e.seg), SlotOn(Z.f, Pred(NextOn(Z.f))).st = "open",
         calm => SlotOK(Z.f, e), NEW b, NEW t
  PROVE  \E g : ValidPut(r, calm, Z, ix, e, b, t, g)
<1> DEFINE n == NextOn(Z.f)
           i == Pred(n)
<1>1. Typed(Z.f)
  BY Zenon DEF KSound, TypedPart
<1>2. n \in Slot /\ ix.next = n /\ ix.slot \in [Slot -> IndexSlot]
      /\ \A j \in Slot : ix.slot[j] = SlotOn(Z.f, j)
  BY <1>1, PlacesTyped DEF IndexOf
<1>3. i \in Slot
  BY <1>2, PredTurn
<1>4. Found(ix, e.seg) # {} /\ \A k \in Found(ix, e.seg) : Back(ix, k) = i
  BY <1>2, <1>3, FoundFirst
<1>5. Target(ix, e) = i
  BY <1>4 DEF Target
<1>6. /\ IndexWrite(ix, e).next = n
      /\ \A j \in Slot : IndexWrite(ix, e).slot[j] = IF j = i THEN e ELSE SlotOn(Z.f, j)
  <2>1. /\ Found(ix, e.seg) # {} => IndexWrite(ix, e).next = ix.next
        /\ \A j \in Slot : IndexWrite(ix, e).slot[j] = IF j = Target(ix, e) THEN e ELSE ix.slot[j]
    BY <1>2, WriteSlot, Zenon
  <2>2. QED
    BY <1>2, <1>4, <1>5, <2>1, Zenon
<1>7. IndexOps(ix, e, b, t) = <<PutAt(<<"slot", i>>, e), Sync>> \o <<>>
  BY <1>4, <1>5 DEF IndexOps
<1>8. \A m : Standing(Z.kept, m) => ~KeptAt(r, Z.f, Z.kept[m], i)
  <2>1. \A w : SlotOf(w, "valid").st = "valid"
    BY DEF SlotOf
  <2>2. QED
    BY <2>1 DEF KeptAt
<1> HIDE DEF i
<1>9. PICK g : /\ Goes(r, calm, Z, <<PutAt(<<"slot", i>>, e), Sync>>, [f |-> g, p |-> g, kept |-> Z.kept])
               /\ SlotPut(i, e, Z.f, g)
  BY <1>3, <1>8, SlotGoes, Zenon
<1> DEFINE Z1 == [f |-> g, p |-> g, kept |-> Z.kept]
<1>10. Goes(r, calm, Z, <<PutAt(<<"slot", i>>, e), Sync>>, Z1)
  BY <1>9
<1> HIDE DEF Z1
<1>11. Goes(r, calm, Z1, <<>>, Z1)
  <2>1. KSound(r, calm, Z1)
    BY <1>10, GoesEnds, ZenonT(30)
  <2>2. QED
    BY <2>1, GoesNowhere, Zenon
<1>12. Goes(r, calm, Z, <<PutAt(<<"slot", i>>, e), Sync>> \o <<>>, Z1)
  BY <1>10, <1>11, GoesOn, Zenon
<1>13. Goes(r, calm, Z, IndexOps(ix, e, b, t), Z1)
  BY <1>7, <1>12, Zenon
<1>14. /\ NextOn(g) = IndexWrite(ix, e).next
       /\ \A j \in Slot : SlotOn(g, j) = IndexWrite(ix, e).slot[j]
  BY <1>6, <1>9, Zenon DEF SlotPut, HeadLike
<1>15. QED
  BY <1>9, <1>13, <1>14, Zenon DEF Z1, i, ValidPut

\* finalize_seg.
AtFinish(w, calm, Z) ==
  /\ w \in Pen /\ w.count > 0
  /\ NoneOn(Z.kept, w.chunk)
  /\ \E a \in Super : BootOn(Z.f) = Moved(a) /\ w.chunk = a.wptr
  /\ Names(SlotOn(Z.f, Pred(NextOn(Z.f))), w.seg) /\ SlotOn(Z.f, Pred(NextOn(Z.f))).st = "open"
  /\ Tiled(CellsOn(Z.f, w.chunk), SlotOf(w, "valid"))

LEMMA ClosingGoes ==
  ASSUME NEW r \in Nat, NEW calm, NEW Z, KSound(r, calm, Z), NEW ix, IndexOf(Z, ix),
         NEW w, AtFinish(w, calm, Z)
  PROVE  \E Y : /\ Goes(r, calm, Z, ClosingOps(ix, w), Y)
                /\ IndexOf(Y, Closing(ix, w)) /\ HeadLike(Y.f, Z.f)
<1> DEFINE e == SlotOf(w, "valid")
           s == Z.kept
           i == Pred(NextOn(Z.f))
<1>1. Typed(Z.f) /\ s \in Seq(Pen)
  BY Zenon DEF KSound, TypedPart
<1>2. w \in Pen /\ w.count > 0 /\ w.count # 0
  BY DEF AtFinish
<1>3. w.chunk \in Chunk /\ NextOn(Z.f) \in Slot
  BY <1>1, <1>2, PenTypes, PlacesTyped
<1>4. e \in IndexSlot /\ e.seg = w.seg /\ e.chunk = w.chunk
  BY <1>2, PenSlot DEF SlotOf
<1>5. PICK a \in Super : BootOn(Z.f) = Moved(a) /\ w.chunk = a.wptr
  BY Zenon DEF AtFinish
<1>6. /\ RingOn(Z.f) = Turn(w.chunk, NChunks)
      /\ ~BootOn(Z.f).wrapped => RingOn(Z.f) = w.chunk + 1
  BY <1>5, MovedTurn DEF RingOn
<1>7. ClosingOps(ix, w) = IndexOps(ix, e, sb, st) \o <<Finished(w)>> /\ Closing(ix, w) = IndexWrite(ix, e)
  BY <1>2 DEF ClosingOps, Closing
<1> HIDE DEF e
<1>8. SlotOK(Z.f, e)
  <2>1. Tiled(CellsOn(Z.f, e.chunk), e)
    BY <1>4, Zenon DEF AtFinish, e
  <2>2. ~BootOn(Z.f).wrapped => e.chunk < RingOn(Z.f)
    BY <1>3, <1>4, <1>6 DEF Chunk
  <2>3. QED
    BY <2>1, <2>2 DEF SlotOK
<1>9. Names(SlotOn(Z.f, i), e.seg) /\ SlotOn(Z.f, i).st = "open"
  BY <1>4, Zenon DEF AtFinish
<1>10. PICK g : ValidPut(r, calm, Z, ix, e, sb, st, g)
  <2>1. calm => SlotOK(Z.f, e)
    BY <1>8
  <2>2. e \in IndexSlot
    BY <1>4
  <2>3. Names(SlotOn(Z.f, Pred(NextOn(Z.f))), e.seg)
    BY <1>9
  <2>4. SlotOn(Z.f, Pred(NextOn(Z.f))).st = "open"
    BY <1>9
  <2> HIDE DEF i
  <2>5. QED
    BY <2>1, <2>2, <2>3, <2>4, ValidSlotGoes, Zenon
<1>10a. /\ Goes(r, calm, Z, IndexOps(ix, e, sb, st), [f |-> g, p |-> g, kept |-> s])
       /\ SlotPut(i, e, Z.f, g) /\ NextOn(g) = IndexWrite(ix, e).next
       /\ \A j \in Slot : SlotOn(g, j) = IndexWrite(ix, e).slot[j]
  BY <1>10, Zenon DEF ValidPut
<1> DEFINE Z1 == [f |-> g, p |-> g, kept |-> s]
           Y == [f |-> g, p |-> g, kept |-> Append(s, w)]
<1>11. Z1.f = g /\ Z1.p = g /\ Z1.kept = s /\ Y.f = g
  OBVIOUS
<1>12. Goes(r, calm, Z, IndexOps(ix, e, sb, st), Z1)
  BY <1>10a
<1> HIDE DEF Z1, Y
<1>13. KSound(r, calm, Z1)
  BY <1>12, GoesEnds, ZenonT(30)
<1>14. KSound(r, calm, Y)
  <2>1. NextOn(g) = NextOn(Z.f) /\ RingOn(g) = RingOn(Z.f)
    BY <1>10a, Zenon DEF SlotPut, HeadLike, RingOn
  <2>2. i \in Slot
    BY <1>3, PredTurn
  <2>3. SlotOn(g, Pred(NextOn(g))) = SlotOf(w, "valid")
    BY <1>10a, <2>1, <2>2, Zenon DEF SlotPut, e
  <2>4. CellsOn(g, w.chunk) = CellsOn(Z.f, w.chunk)
    BY <1>3, <1>10a, CellsSame, Zenon DEF SlotPut, SameUnits
  <2>5. Tiled(CellsOn(g, w.chunk), SlotOf(w, "valid"))
    BY <2>4, Zenon DEF AtFinish
  <2>6. RingOn(g) = Turn(w.chunk, NChunks) /\ NoneOn(s, w.chunk)
    BY <1>6, <2>1, Zenon DEF AtFinish
  <2>7. KSound(r, calm, [f |-> g, p |-> g, kept |-> s])
    BY <1>13 DEF Z1
  <2> HIDE DEF s
  <2>8. KSound(r, calm, [f |-> g, p |-> g, kept |-> Append(s, w)])
    BY <1>2, <2>3, <2>5, <2>6, <2>7, FinishKeeps, Zenon
  <2>9. QED
    BY <2>8 DEF Y
<1>15. Goes(r, calm, Z1, <<Finished(w)>>, Y)
  <2>1. Finished(w).op = "finished" /\ Finished(w).seg = w
    BY DEF Finished
  <2>2. Does(Z1, Finished(w)) = Y /\ MayDo(Z1, Finished(w))
    BY <1>11, <2>1 DEF Does, MayDo, Y
  <2>3. QED
    BY <1>13, <1>14, <2>2, GoesOne, Zenon
<1>16. Goes(r, calm, Z, ClosingOps(ix, w), Y)
  <2>1. Goes(r, calm, Z, IndexOps(ix, e, sb, st) \o <<Finished(w)>>, Y)
    BY <1>12, <1>15, GoesOn, Zenon
  <2>2. QED
    BY <1>7, <2>1, Zenon
<1>17. IndexOf(Y, Closing(ix, w))
  <2>1. IndexWrite(ix, e).slot \in [Slot -> IndexSlot]
    BY <1>3, <1>4, WriteSlot DEF IndexOf
  <2>2. QED
    BY <1>7, <1>10a, <1>11, <2>1 DEF IndexOf
<1>18. HeadLike(Y.f, Z.f)
  BY <1>10a, <1>11, Zenon DEF SlotPut
<1>19. QED
  BY <1>16, <1>17, <1>18, Zenon

\* rsdk_index_invalidate_chunk for the chunk at the write pointer.
ClearedTo(calm, Z, ix, b, k, Y) ==
  IndexOf(Y, Reclaimed(ix, b, k)) /\ HeadLike(Y.f, Z.f) /\ CleanOn(calm, Y, k)

LEMMA TakenGoes ==
  ASSUME NEW r, NEW calm, NEW Z, KSound(r, calm, Z), NEW k, k = RingOn(Z.f)
  PROVE  /\ Goes(r, calm, Z, <<Taken(k)>>, [f |-> Z.f, p |-> Z.p, kept |-> Bare(Z.kept, k)])
         /\ NoneOn(Bare(Z.kept, k), k)
<1>1. Taken(k).op = "taken" /\ Taken(k).chunk = k
  BY DEF Taken
<1>2. Does(Z, Taken(k)) = [f |-> Z.f, p |-> Z.p, kept |-> Bare(Z.kept, k)] /\ MayDo(Z, Taken(k))
  BY <1>1 DEF Does, MayDo, Bare
<1>3. /\ KSound(r, calm, [f |-> Z.f, p |-> Z.p, kept |-> Bare(Z.kept, k)])
      /\ NoneOn(Bare(Z.kept, k), k)
  BY TakeKeeps, Zenon
<1>4. QED
  BY <1>2, <1>3, GoesOne, Zenon

FreePut(hit, h, g) ==
  /\ HeadLike(g, h)
  /\ \A j \in Slot : SlotOn(g, j) = IF j \in hit THEN Freed(SlotOn(h, j)) ELSE SlotOn(h, j)

LEMMA FreeKeeps ==
  ASSUME NEW r, NEW calm, NEW Z, KSound(r, calm, Z), NEW k, NoneOn(Z.kept, k),
         NEW ix, NEW hit, hit \subseteq Slot, \A j \in hit : SlotOn(Z.f, j).chunk = k,
         \A j \in Slot : ix.slot[j] = SlotOn(Z.f, j)
  PROVE  \E g : /\ Goes(r, calm, Z, <<Put(FreeVals(ix, hit)), Sync>>, [f |-> g, p |-> g, kept |-> Z.kept])
                /\ FreePut(hit, Z.f, g)
<1> DEFINE v == FreeVals(ix, hit)
           g == Over(Z.f, v)
           Z1 == [f |-> g, p |-> Z.p, kept |-> Z.kept]
           Z2 == [f |-> g, p |-> g, kept |-> Z.kept]
<1>1. Typed(Z.f) /\ Z.kept \in Seq(Pen)
  BY Zenon DEF KSound, TypedPart
<1>2. /\ Typed(g) /\ HeadLike(g, Z.f) /\ SameUnits(g, Z.f)
      /\ \A j \in Slot : SlotOn(g, j) = IF j \in hit THEN Freed(SlotOn(Z.f, j)) ELSE SlotOn(Z.f, j)
  BY <1>1, FreeView
<1>3. Z1.f = g /\ Z1.kept = Z.kept
  OBVIOUS
<1> HIDE DEF v, Z1, Z2
<1>4. KSound(r, calm, Z1)
  <2> HIDE DEF g
  <2>1. BootOn(g) = BootOn(Z.f) /\ NextOn(g) = NextOn(Z.f)
    BY <1>2, Zenon DEF HeadLike
  <2>2. ASSUME NEW j \in Slot
        PROVE  \/ SlotOn(g, j) = SlotOn(Z.f, j)
               \/ \A i : Standing(Z.kept, i) => ~KeptAt(r, Z.f, Z.kept[i], j)
    <3>1. CASE j \in hit
      <4> SUFFICES ASSUME NEW i, Standing(Z.kept, i), KeptAt(r, Z.f, Z.kept[i], j)
                   PROVE  FALSE
        BY Zenon
      <4>1. SlotOn(Z.f, j).chunk = Z.kept[i].chunk
        BY DEF KeptAt, SlotOf
      <4>2. QED
        BY <3>1, <4>1, Zenon DEF NoneOn
    <3>2. CASE j \notin hit
      BY <1>2, <3>2, Zenon
    <3>3. QED
      BY <3>1, <3>2
  <2>3. ASSUME NEW j \in Slot, SlotOn(g, j).st = "valid"
        PROVE  SlotOn(g, j) = SlotOn(Z.f, j)
    <3>1. SlotOn(Z.f, j) \in IndexSlot
      BY <1>1, PlacesTyped
    <3>2. Freed(SlotOn(Z.f, j)).st # "valid"
      BY <3>1 DEF Freed, IndexSlot
    <3>3. QED
      BY <1>2, <2>3, <3>2, Zenon
  <2>4. QED
    BY <1>2, <2>1, <2>2, <2>3, SlotsKeep, Zenon DEF Z1
<1>5. Goes(r, calm, Z, <<Put(v)>>, Z1)
  BY <1>4, PutGoes, Zenon DEF Z1
<1>6. Goes(r, calm, Z1, <<Sync>>, Z2)
  BY <1>3, <1>4, SyncGoes DEF Z2
<1>7. Goes(r, calm, Z, <<Put(v), Sync>>, Z2)
  BY <1>5, <1>6, GoesTwo, Zenon
<1>8. QED
  BY <1>2, <1>7, Zenon DEF Z2, v, FreePut

LEMMA ReclaimGoes ==
  ASSUME NEW r \in Nat, NEW calm, NEW Z, KSound(r, calm, Z), NEW ix, IndexOf(Z, ix),
         NEW b, b = Moved(BootOn(Z.f)), NEW k, k = RingOn(Z.f)
  PROVE  \E Y : Goes(r, calm, Z, ReclaimOps(ix, b, k), Y) /\ ClearedTo(calm, Z, ix, b, k, Y)
<1> DEFINE hit == {i \in Slot : Live(ix.slot[i]) /\ ix.slot[i].chunk = k}
           op == Put(FreeVals(ix, hit))
           rx == Reclaimed(ix, b, k)
           v == Bare(Z.kept, k)
           Z1 == [f |-> Z.f, p |-> Z.p, kept |-> v]
<1>1. Typed(Z.f) /\ ix.next = NextOn(Z.f) /\ \A j \in Slot : ix.slot[j] = SlotOn(Z.f, j)
  BY DEF KSound, TypedPart, IndexOf
<1>2. \A j \in Slot : SlotOn(Z.f, j) \in IndexSlot /\ Freed(SlotOn(Z.f, j)) \in IndexSlot
  <2>1. \A j \in Slot : SlotOn(Z.f, j) \in IndexSlot
    BY <1>1, PlacesTyped
  <2>2. QED
    BY <2>1 DEF Freed, IndexSlot
<1>3. /\ rx.next = ix.next /\ rx.slot \in [Slot -> IndexSlot]
      /\ \A j \in Slot : rx.slot[j] = IF b.wrapped /\ j \in hit THEN Freed(SlotOn(Z.f, j)) ELSE SlotOn(Z.f, j)
  <2>1. rx.next = ix.next /\ rx.slot \in [Slot -> IndexSlot]
    BY <1>1, <1>2 DEF Reclaimed, InvalidateChunk, IndexOf
  <2>2. \A j \in Slot : rx.slot[j] = IF b.wrapped /\ j \in hit THEN Freed(ix.slot[j]) ELSE ix.slot[j]
    BY DEF Reclaimed, InvalidateChunk
  <2>3. QED
    BY <1>1, <2>1, <2>2
<1>4. /\ hit \subseteq Slot
      /\ \A j \in hit : SlotOn(Z.f, j).chunk = k
      /\ \A j \in Slot : j \notin hit => ~(SlotOn(Z.f, j).st = "valid" /\ SlotOn(Z.f, j).chunk = k)
  BY <1>1 DEF Live
<1>5. ReclaimOps(ix, b, k) = <<Taken(k)>> \o IF ~b.wrapped \/ hit = {} THEN <<>> ELSE <<op, Sync>>
  BY DEF ReclaimOps, FreeVals
<1>6. Goes(r, calm, Z, <<Taken(k)>>, Z1) /\ NoneOn(v, k)
  BY TakenGoes, Zenon
<1>7. Z1.f = Z.f /\ Z1.p = Z.p /\ Z1.kept = v
  OBVIOUS
<1> HIDE DEF hit, rx, v, Z1
<1>8. KSound(r, calm, Z1)
  BY <1>6, GoesEnds, ZenonT(30)
<1>9. CASE ~b.wrapped \/ hit = {}
  <2>1. Goes(r, calm, Z, <<Taken(k)>> \o <<>>, Z1)
    <3>1. Goes(r, calm, Z1, <<>>, Z1)
      BY <1>8, GoesNowhere, Zenon
    <3>2. QED
      BY <1>6, <3>1, GoesOn, Zenon
  <2>2. Goes(r, calm, Z, ReclaimOps(ix, b, k), Z1)
    <3>1. ReclaimOps(ix, b, k) = <<Taken(k)>> \o <<>>
      BY <1>5, <1>9
    <3>2. QED
      BY <2>1, <3>1, Zenon
  <2>3. IndexOf(Z1, rx)
    <3>1. \A j \in Slot : rx.slot[j] = SlotOn(Z1.f, j)
      BY <1>3, <1>7, <1>9
    <3>2. QED
      BY <1>1, <1>3, <1>7, <3>1, Zenon DEF IndexOf
  <2>4. HeadLike(Z1.f, Z.f)
    BY <1>7 DEF HeadLike
  <2>5. ASSUME calm, NEW j \in Slot, SlotOn(Z1.f, j).st = "valid", SlotOn(Z1.f, j).chunk = k
        PROVE  FALSE
    <3>1. CASE hit = {}
      BY <1>4, <1>7, <2>5, <3>1
    <3>2. CASE ~b.wrapped
      <4>1. ~BootOn(Z.f).wrapped
        BY <3>2 DEF Moved
      <4>2. SlotOn(Z.f, j).chunk < RingOn(Z.f)
        BY <1>7, <2>5, <4>1, Zenon DEF KSound, CalmPart, SlotOK
      <4>3. RingOn(Z.f) \in Nat
        BY <1>1, PlacesTyped DEF Chunk
      <4>4. QED
        BY <1>7, <2>5, <4>2, <4>3
    <3>3. QED
      BY <1>9, <3>1, <3>2
  <2>6. CleanOn(calm, Z1, k)
    BY <1>6, <1>7, <2>5, Zenon DEF CleanOn
  <2>7. QED
    BY <2>2, <2>3, <2>4, <2>6, Zenon DEF ClearedTo, rx
<1>10. CASE ~(~b.wrapped \/ hit = {})
  <2>1. PICK g : /\ Goes(r, calm, Z1, <<op, Sync>>, [f |-> g, p |-> g, kept |-> Z1.kept])
                 /\ FreePut(hit, Z1.f, g)
    <3>1. NoneOn(Z1.kept, k)
      BY <1>6, <1>7
    <3>2. \A j \in hit : SlotOn(Z1.f, j).chunk = k
      BY <1>4, <1>7
    <3>3. \A j \in Slot : ix.slot[j] = SlotOn(Z1.f, j)
      BY <1>1, <1>7
    <3>4. hit \subseteq Slot
      BY <1>4
    <3>5. QED
      BY <1>8, <3>1, <3>2, <3>3, <3>4, FreeKeeps, Zenon DEF op
  <2>12. /\ HeadLike(g, Z1.f)
         /\ \A j \in Slot : SlotOn(g, j) = IF j \in hit THEN Freed(SlotOn(Z1.f, j))
                                            ELSE SlotOn(Z1.f, j)
    BY <2>1, Zenon DEF FreePut
  <2> DEFINE Z2 == [f |-> g, p |-> g, kept |-> v]
  <2>2. Z2.f = g /\ Z2.kept = v
    OBVIOUS
  <2>3. Goes(r, calm, Z1, <<op, Sync>>, Z2)
    BY <1>7, <2>1, Zenon
  <2> HIDE DEF Z2, op
  <2>4. Goes(r, calm, Z, <<Taken(k)>> \o <<op, Sync>>, Z2)
    BY <1>6, <2>3, GoesOn, Zenon
  <2>5. Goes(r, calm, Z, ReclaimOps(ix, b, k), Z2)
    <3>1. ReclaimOps(ix, b, k) = <<Taken(k)>> \o <<op, Sync>>
      BY <1>5, <1>10
    <3>2. QED
      BY <2>4, <3>1, Zenon
  <2>6. \A j \in Slot : rx.slot[j] = SlotOn(g, j)
    BY <1>3, <1>7, <1>10, <2>12
  <2>7. HeadLike(Z2.f, Z.f)
    BY <1>7, <2>12, <2>2
  <2>8. IndexOf(Z2, rx)
    BY <1>1, <1>3, <2>2, <2>6, <2>7, Zenon DEF IndexOf, HeadLike
  <2>9. ASSUME NEW j \in Slot PROVE ~(SlotOn(g, j).st = "valid" /\ SlotOn(g, j).chunk = k)
    <3>1. CASE j \in hit
      <4>1. SlotOn(g, j) = Freed(SlotOn(Z.f, j)) /\ SlotOn(Z.f, j) \in IndexSlot
        BY <1>2, <1>7, <2>12, <3>1
      <4>2. QED
        BY <4>1 DEF Freed, IndexSlot
    <3>2. CASE j \notin hit
      BY <1>4, <1>7, <2>12, <3>2
    <3>3. QED
      BY <3>1, <3>2
  <2>10. CleanOn(calm, Z2, k)
    BY <1>6, <2>2, <2>9, Zenon DEF CleanOn
  <2>11. QED
    BY <2>5, <2>7, <2>8, <2>10, Zenon DEF ClearedTo, rx
<1>11. QED
  BY <1>9, <1>10

\* A frame at the end of its segment.
FramePut(w, n, h, g) ==
  /\ Typed(g) /\ HeadLike(g, h) /\ SameSlots(g, h)
  /\ Tiled(CellsOn(g, w.chunk), SlotOf(After(w, n), "valid"))

LEMMA FrameGoes ==
  ASSUME NEW r, NEW calm, NEW Z, KSound(r, calm, Z), NEW w \in Pen, CleanOn(calm, Z, w.chunk),
         NEW n \in FrameUnits, w.off + n <= ChunkUnits,
         (w.count = 0 /\ w.off = 0) \/ Tiled(CellsOn(Z.f, w.chunk), SlotOf(w, "valid"))
  PROVE  \E g : /\ Goes(r, calm, Z, <<FrameOp(w, n)>>, [f |-> g, p |-> Z.p, kept |-> Z.kept])
                /\ FramePut(w, n, Z.f, g)
<1> DEFINE g == Over(Z.f, FrameOp(w, n).vals)
           Y == [f |-> g, p |-> Z.p, kept |-> Z.kept]
           e == SlotOf(w, "valid")
           h == SlotOf(After(w, n), "valid")
<1>1. Typed(Z.f)
  BY Zenon DEF KSound, TypedPart
<1>2. /\ w.chunk \in Chunk /\ w.off \in Nat /\ w.count \in Nat /\ w.endOff \in Nat
      /\ n \in Nat \ {0} /\ ChunkUnits \in Nat
  BY FormatAssumption DEF Pen
<1>3. /\ Typed(g) /\ HeadLike(g, Z.f) /\ SameSlots(g, Z.f)
      /\ \A k \in Chunk, u \in Unit :
           UnitOn(g, k, u) = IF k = w.chunk /\ u \in w.off .. w.off + n - 1
                             THEN FrameCell(w, n, u) ELSE UnitOn(Z.f, k, u)
  BY <1>1, FrameView
<1>4. FrameOp(w, n).op = "frame"
  BY DEF FrameOp
<1>5. Does(Z, FrameOp(w, n)) = Y /\ MayDo(Z, FrameOp(w, n))
  BY <1>4 DEF Does, MayDo
<1> HIDE DEF g
<1>6. KSound(r, calm, Y)
  <2>1. BootOn(g) = BootOn(Z.f) /\ NextOn(g) = NextOn(Z.f)
    BY <1>3, Zenon DEF HeadLike
  <2>2. \A m \in Chunk, u \in Unit : m # w.chunk => UnitOn(g, m, u) = UnitOn(Z.f, m, u)
    BY <1>3, Zenon
  <2>3. QED
    BY <1>2, <1>3, <2>1, <2>2, UnitsKeep, Zenon
<1>7. Goes(r, calm, Z, <<FrameOp(w, n)>>, Y)
  BY <1>5, <1>6, GoesOne, Zenon
<1>8. CellsOn(Z.f, w.chunk) \in [Unit -> Cell] /\ CellsOn(g, w.chunk) \in [Unit -> Cell]
  BY <1>1, <1>2, <1>3, PlacesTyped
<1> DEFINE p == CellsOn(Z.f, w.chunk)
           q == CellsOn(g, w.chunk)
<1>9. \A u \in Unit : q[u] = IF u \in w.off .. w.off + n - 1 THEN FrameCell(w, n, u) ELSE p[u]
  BY <1>2, <1>3, Zenon DEF CellsOn
<1> HIDE DEF Y, p, q
<1>10. /\ e.bytes = w.off /\ e.endOff = w.endOff /\ e.count = w.count /\ e.seg = w.seg
       /\ h.seg = w.seg /\ h.bytes = w.off + n /\ h.endOff = w.off /\ h.count = w.count + 1
  <2>1. /\ After(w, n).seg = w.seg /\ After(w, n).off = w.off + n
        /\ After(w, n).endOff = w.off /\ After(w, n).count = w.count + 1
    BY DEF After, Pen
  <2>2. QED
    BY <2>1 DEF SlotOf
<1>11. (e.count = 0 /\ e.bytes = 0) \/ Tiled(p, e)
  <2>1. (w.count = 0 /\ w.off = 0) \/ Tiled(p, e)
    BY Zenon DEF p, e
  <2>2. QED
    BY <1>10, <2>1, Zenon
<1> HIDE DEF e, h
<1>12. Tiled(q, h)
  <2>1. Lengthened(e, n, p, q)
    BY <1>9, <1>10, Zenon DEF Lengthened, Record, FrameCell
  <2>2. p \in [Unit -> Cell] /\ q \in [Unit -> Cell]
    BY <1>8 DEF p, q
  <2>3. Prolongs(e, h, n) /\ e.bytes \in Nat /\ e.endOff \in Nat /\ e.count \in Nat
    BY <1>2, <1>10 DEF Prolongs
  <2>4. e.bytes + n <= ChunkUnits
    BY <1>10
  <2>5. QED
    BY <1>2, <1>11, <2>1, <2>2, <2>3, <2>4, TilesOn, Zenon
<1>13. FramePut(w, n, Z.f, g)
  BY <1>3, <1>12, Zenon DEF FramePut, q, h
<1>14. QED
  BY <1>7, <1>13, Zenon DEF Y

-----------------------------------------------------------------------------
(* The calls. *)

(***************************************************************************)
(* The disk has one writer.  With several the ring may come round to the   *)
(* chunk of one that is still open, which then writes over a segment that  *)
(* was finished there since (the run that refutes SegmentIntact).          *)
(***************************************************************************)
OneWriter == \A a, b \in Chn : a = b

\* What the call that leaves b, t and ws in memory and the operations s keeps of the disk.
Carries(b, t, ws, r, calm, X, s) ==
  \E Y : Goes(r, calm, X, s, Y) /\ KRest(b, t, ws, calm, Y)

LEMMA RestOpen ==
  ASSUME OneWriter, NEW c \in Chn, NEW b, NEW t, NEW ws, NEW calm, NEW Y, ws[c].open,
         NextOn(Y.f) = t.next, AtWork(b, t, ws[c], c, calm, Y)
  PROVE  KRest(b, t, ws, calm, Y)
<1>1. \A a \in Chn : a = c
  BY DEF OneWriter
<1>2. QED
  BY <1>1, Zenon DEF KRest

LEMMA RestClosed ==
  ASSUME OneWriter, NEW c \in Chn, NEW b, NEW t, NEW ws, NEW calm, NEW Y, ~ws[c].open,
         NextOn(Y.f) = t.next, b = BootOn(Y.f)
  PROVE  KRest(b, t, ws, calm, Y)
<1>1. \A a \in Chn : a = c
  BY DEF OneWriter
<1>2. QED
  BY <1>1, Zenon DEF KRest

LEMMA CleanLike ==
  ASSUME NEW calm, NEW Z, NEW Y, NEW k, CleanOn(calm, Z, k), Y.kept = Z.kept,
         \A j \in Slot : SlotOn(Y.f, j) = SlotOn(Z.f, j) \/ SlotOn(Y.f, j).st = "open"
  PROVE  CleanOn(calm, Y, k)
<1>1. ASSUME calm, NEW j \in Slot PROVE ~(SlotOn(Y.f, j).st = "valid" /\ SlotOn(Y.f, j).chunk = k)
  <2>1. CASE SlotOn(Y.f, j) = SlotOn(Z.f, j)
    BY <1>1, <2>1, Zenon DEF CleanOn
  <2>2. CASE SlotOn(Y.f, j).st = "open"
    BY <2>2
  <2>3. QED
    BY <2>1, <2>2
<1>2. QED
  BY <1>1, Zenon DEF CleanOn

\* The first frame of a segment, behind its open slot.
Starts(r, calm, Z, ix, b, t, w, n, X, Y) ==
  /\ Goes(r, calm, Z, IndexOps(ix, SlotOf(w, "open"), b, t), X)
  /\ Goes(r, calm, X, <<FrameOp(w, n)>>, Y)
  /\ NextOn(Y.f) = IndexWrite(ix, SlotOf(w, "open")).next

LEMMA StartGoes ==
  ASSUME WideIndex, NEW r \in Nat, r <= MaxCrashes, NEW calm, NEW Z, KSound(r, calm, Z),
         NEW ix, IndexOf(Z, ix), NEW w \in Pen, w.count = 0, w.off = 0, Found(ix, w.seg) = {},
         w.chunk = RingOn(Z.f), CleanOn(calm, Z, w.chunk),
         NEW b \in Super, b = Moved(BootOn(Z.f)), NEW t \in Tab,
         NEW n \in FrameUnits, n <= ChunkUnits,
         NEW u, u.next = IndexWrite(ix, SlotOf(w, "open")).next, NEW c
  PROVE  \E X, Y : Starts(r, calm, Z, ix, b, t, w, n, X, Y) /\ AtWork(b, u, After(w, n), c, calm, Y)
<1> DEFINE e == SlotOf(w, "open")
           v == After(w, n)
           i == NextOn(Z.f)
<1>1. Typed(Z.f)
  BY Zenon DEF KSound, TypedPart
<1>2. BootOn(Z.f) \in Super /\ i \in Slot /\ w.chunk \in Chunk /\ RingOn(Z.f) = BootOn(Z.f).wptr
  BY <1>1, PlacesTyped, PenTypes DEF RingOn
<1>3. e \in IndexSlot /\ e.seg = w.seg /\ e.st = "open" /\ e.chunk = w.chunk
  BY PenSlot DEF SlotOf
<1>4. n \in Nat /\ w.off + n <= ChunkUnits
  BY FormatAssumption
<1>5. v.count = w.count + 1 /\ v.seg = w.seg /\ v.chunk = w.chunk
  BY DEF After, Pen
<1>6. v.count > 0 /\ v.count # 0
  BY <1>5
<1>7. NoneOn(Z.kept, RingOn(Z.f))
  BY Zenon DEF CleanOn
<1> HIDE DEF e, v, i
<1>8. Found(ix, e.seg) = {}
  BY <1>3
<1>9. PICK g : Opened(r, calm, Z, ix, e, b, t, g)
  <2>1. e \in IndexSlot
    BY <1>3
  <2>2. e.st = "open"
    BY <1>3
  <2>3. QED
    BY <1>7, <1>8, <2>1, <2>2, OpenSlotGoes, Zenon
<1>10. /\ Typed(g) /\ BootOn(g) = b /\ NextOn(g) = OneOn(i) /\ NextOn(g) = u.next
       /\ \A j \in Slot : SlotOn(g, j) = IF j = i THEN e ELSE SlotOn(Z.f, j)
  BY <1>9, Zenon DEF Opened, OpenPut, i, e
<1> DEFINE Z1 == [f |-> g, p |-> g, kept |-> Z.kept]
<1>11. Z1.f = g /\ Z1.p = g /\ Z1.kept = Z.kept /\ Goes(r, calm, Z, IndexOps(ix, e, b, t), Z1)
  BY <1>9 DEF Opened
<1> HIDE DEF Z1
<1>12. KSound(r, calm, Z1)
  BY <1>11, GoesEnds, ZenonT(30)
<1>13. CleanOn(calm, Z1, w.chunk)
  <2>1. \A j \in Slot : SlotOn(Z1.f, j) = SlotOn(Z.f, j) \/ SlotOn(Z1.f, j).st = "open"
    BY <1>3, <1>10, <1>11, Zenon
  <2>2. QED
    BY <1>11, <2>1, CleanLike, Zenon
<1>14. PICK h : /\ Goes(r, calm, Z1, <<FrameOp(w, n)>>, [f |-> h, p |-> Z1.p, kept |-> Z1.kept])
                /\ FramePut(w, n, Z1.f, h)
  BY <1>4, <1>12, <1>13, FrameGoes, Zenon
<1> DEFINE Z2 == [f |-> h, p |-> Z1.p, kept |-> Z1.kept]
<1>15. Z2.f = h /\ Z2.kept = Z.kept /\ Goes(r, calm, Z1, <<FrameOp(w, n)>>, Z2)
  BY <1>11, <1>14
<1> HIDE DEF Z2
<1>16. /\ BootOn(h) = b /\ NextOn(h) = u.next /\ SameSlots(h, g)
       /\ Tiled(CellsOn(h, w.chunk), SlotOf(v, "valid"))
  BY <1>10, <1>11, <1>14, Zenon DEF FramePut, HeadLike, v
<1>17. CleanOn(calm, Z2, v.chunk)
  <2>1. \A j \in Slot : SlotOn(Z2.f, j) = SlotOn(Z.f, j) \/ SlotOn(Z2.f, j).st = "open"
    BY <1>3, <1>10, <1>15, <1>16, Zenon DEF SameSlots
  <2>2. QED
    BY <1>5, <1>15, <2>1, CleanLike, Zenon
<1>18. SlotOn(h, Pred(u.next)) = e
  <2>1. Pred(OneOn(i)) = i
    BY <1>2, PredOne DEF i
  <2>2. QED
    BY <1>2, <1>10, <1>16, <2>1, Zenon DEF SameSlots, i
<1>19. AtWork(b, u, v, c, calm, Z2)
  <2>1. Names(e, v.seg) /\ e.chunk = v.chunk
    BY <1>3, <1>5 DEF Names, Live
  <2>2. /\ b = BootOn(Z2.f)
        /\ \E a \in Super : b = Moved(a) /\ v.chunk = a.wptr
        /\ Names(SlotOn(Z2.f, Pred(u.next)), v.seg) /\ SlotOn(Z2.f, Pred(u.next)).st = "open"
        /\ SlotOn(Z2.f, Pred(u.next)).chunk = v.chunk
        /\ Tiled(CellsOn(Z2.f, v.chunk), SlotOf(v, "valid"))
    BY <1>2, <1>3, <1>5, <1>15, <1>16, <1>18, <2>1, Zenon
  <2>3. QED
    BY <1>6, <1>17, <2>2, Zenon DEF AtWork
<1>20. Starts(r, calm, Z, ix, b, t, w, n, Z1, Z2)
  BY <1>11, <1>15, <1>16, Zenon DEF Starts, e
<1>21. QED
  BY <1>19, <1>20, Zenon DEF v

\* rsdk_dev_flush at the end of rsdk_rec_close.
LEMMA EndGoes ==
  ASSUME OneWriter, NEW r \in Nat, NEW calm, NEW Z, KSound(r, calm, Z), NEW b \in Super, NEW t \in Tab,
         RingMoves(b, Z.f, Z.kept), NextOn(Z.f) = t.next, NEW c \in Chn, NEW ws, ~ws[c].open
  PROVE  Carries(b, t, ws, r, calm, Z, Flush(b, t))
<1>1. NextMoves(b, t.next, Z.f, Z.kept)
  BY Zenon DEF NextMoves
<1>2. PICK g : /\ Goes(r, calm, Z, Flush(b, t), [f |-> g, p |-> g, kept |-> Z.kept])
               /\ HeadPut(b, t, Z.f, g)
  BY <1>1, FlushGoes, Zenon
<1> DEFINE Y == [f |-> g, p |-> g, kept |-> Z.kept]
<1>3. Y.f = g /\ Goes(r, calm, Z, Flush(b, t), Y)
  BY <1>2
<1> HIDE DEF Y
<1>4. NextOn(Y.f) = t.next /\ b = BootOn(Y.f)
  BY <1>2, <1>3, Zenon DEF HeadPut
<1>5. KRest(b, t, ws, calm, Y)
  BY <1>4, RestClosed, Zenon
<1>6. QED
  BY <1>3, <1>5, Zenon DEF Carries

-----------------------------------------------------------------------------
(* The invariant of what the disk keeps. *)

KInv ==
  /\ crashes \in Nat /\ crashes <= MaxCrashes
  /\ KSound(crashes, ~cut, Disk)
  /\ phase = "up" => Carries(sb, st, writer, crashes, ~cut, Disk, todo)

LEMMA DiskFields == Disk.f = file /\ Disk.p = platter /\ Disk.kept = kept
BY DEF Disk

LEMMA AtRest ==
  ASSUME NInv, KInv, Calling
  PROVE  /\ KSound(crashes, ~cut, Disk) /\ KRest(sb, st, writer, ~cut, Disk)
         /\ IndexOf(Disk, Ix) /\ NextOn(file) = st.next
         /\ st \in Tab /\ writer \in [Chn -> Pen] /\ sb \in Super
         /\ crashes \in Nat /\ crashes <= MaxCrashes
<1>1. Carries(sb, st, writer, crashes, ~cut, Disk, <<>>)
  BY DEF KInv, Calling
<1>2. PICK Y : Goes(crashes, ~cut, Disk, <<>>, Y) /\ KRest(sb, st, writer, ~cut, Y)
  BY <1>1, Zenon DEF Carries
<1>3. KSound(crashes, ~cut, Disk) /\ Y = Disk
  BY <1>2, GoesEnds, ZenonT(30)
<1>4. IndexOf(Now, Ix) /\ st \in Tab /\ writer \in [Chn -> Pen] /\ sb \in Super
  BY AtCall, Zenon
<1>5. IndexOf(Disk, Ix)
  BY <1>4, DiskFields, NowFields, Zenon DEF IndexOf
<1>6. NextOn(file) = st.next
  BY <1>2, <1>3, DiskFields, Zenon DEF KRest
<1>7. QED
  BY <1>2, <1>3, <1>4, <1>5, <1>6, Zenon DEF KInv

\* What NInv says of the writer c and of the counters.
LEMMA WriterAtRest ==
  ASSUME NInv, Calling, NEW c \in Chn
  PROVE  /\ CountsOn(file)[c] \in Nat /\ st.seq[c] \in Nat /\ CountsOn(file)[c] <= st.seq[c]
         /\ writer[c].open => /\ writer[c] \in Pen /\ writer[c].seg = <<c, st.seq[c]>>
                              /\ writer[c].count = 0 => writer[c].off = 0
<1>1. Sound(st.seq, Now) /\ Ready(st, writer, Now) /\ st \in Tab /\ writer \in [Chn -> Pen]
  BY AtCall, Zenon
<1>2. Typed(Now.f) /\ Below(Now, st.seq)
  BY <1>1, Zenon DEF Sound, Safe
<1>3. CountsOn(file)[c] \in Nat /\ CountsOn(file)[c] <= st.seq[c]
  BY <1>2, NowFields, CountsNat DEF Below
<1>4. st.seq[c] \in Nat
  BY <1>1, FormatAssumption DEF Tab, Counts
<1>5. writer[c].open => Held(st.seq[c], writer[c], c, Now)
  BY <1>1, Zenon DEF Ready
<1>6. writer[c] \in Pen
  BY <1>1
<1>7. QED
  BY <1>3, <1>4, <1>5, <1>6, Zenon DEF Held

LEMMA OpenCarries ==
  ASSUME OneWriter, NInv, KInv, NEW c \in Chn, OpenWriter(c)
  PROVE  Carries(sb', st', writer', crashes, ~cut, Disk, todo')
<1> DEFINE b == Moved(sb)
           t == Started(st, c)
           k == sb.wptr
           f == Fresh(t, c, k)
           ws == [writer EXCEPT ![c] = f]
           calm == ~cut
<1>1. Calling /\ ~writer[c].open /\ st.seq[c] < MaxSegSeq
      /\ sb' = b /\ st' = t /\ writer' = ws /\ todo' = ReclaimOps(Ix, b, k)
  BY DEF OpenWriter
<1>2. /\ KSound(crashes, calm, Disk) /\ KRest(sb, st, writer, calm, Disk)
      /\ IndexOf(Disk, Ix) /\ NextOn(file) = st.next
      /\ st \in Tab /\ writer \in [Chn -> Pen] /\ sb \in Super
      /\ crashes \in Nat /\ crashes <= MaxCrashes
  BY <1>1, AtRest, Zenon
<1>3. sb = BootOn(file)
  <2>1. \A a \in Chn : ~writer[a].open
    BY <1>1 DEF OneWriter
  <2>2. QED
    BY <1>2, <2>1, DiskFields, Zenon DEF KRest
<1>4. /\ t.next = st.next /\ t.seq[c] = st.seq[c] + 1 /\ <<c, t.seq[c]>> \in Seg
  BY <1>1, <1>2, StartedTab
<1>5. k \in Chunk /\ b = Moved(BootOn(Disk.f)) /\ k = RingOn(Disk.f)
  <2>1. k \in Chunk
    BY <1>2, MovedSuper
  <2>2. QED
    BY <1>3, <2>1, DiskFields DEF RingOn
<1>6. CountsOn(file)[c] < t.seq[c]
  BY <1>1, <1>4, WriterAtRest
<1> HIDE DEF b, t, k, calm
<1>7. f.open = TRUE /\ f.count = 0 /\ f.chunk = k /\ f \in Pen
  BY <1>4, <1>5, PenFresh DEF Fresh
<1> HIDE DEF f
<1>8. ws[c] = f
  BY <1>2, <1>7
<1> HIDE DEF ws
<1>9. PICK Y : Goes(crashes, calm, Disk, ReclaimOps(Ix, b, k), Y) /\ ClearedTo(calm, Disk, Ix, b, k, Y)
  BY <1>2, <1>5, ReclaimGoes, Zenon
<1>10. CleanOn(calm, Y, k) /\ BootOn(Y.f) = BootOn(Disk.f) /\ NextOn(Y.f) = NextOn(Disk.f)
       /\ CountsOn(Y.f) = CountsOn(Disk.f)
  BY <1>9, Zenon DEF ClearedTo, HeadLike
<1>11. AtWork(b, t, f, c, calm, Y)
  <2>1. CleanOn(calm, Y, f.chunk) /\ ~(f.count > 0)
    BY <1>7, <1>10
  <2>2. b = Moved(BootOn(Y.f)) /\ f.chunk = RingOn(Y.f) /\ CountsOn(Y.f)[c] < t.seq[c]
    BY <1>5, <1>6, <1>7, <1>10, DiskFields, Zenon DEF RingOn
  <2>3. QED
    BY <2>1, <2>2, Zenon DEF AtWork
<1>12. KRest(b, t, ws, calm, Y)
  <2>1. ws[c].open /\ NextOn(Y.f) = t.next /\ AtWork(b, t, ws[c], c, calm, Y)
    BY <1>2, <1>4, <1>7, <1>8, <1>10, <1>11, DiskFields
  <2>2. QED
    BY <2>1, RestOpen, Zenon
<1>13. Carries(b, t, ws, crashes, calm, Disk, ReclaimOps(Ix, b, k))
  BY <1>9, <1>12, Zenon DEF Carries
<1>14. QED
  BY <1>1, <1>13, Zenon DEF calm

LEMMA FirstCarries ==
  ASSUME LongRing, WideIndex, OneWriter, NInv, KInv, NEW c \in Chn, NEW n \in FrameUnits, FirstFrame(c, n)
  PROVE  Carries(sb', st', writer', crashes, ~cut, Disk, todo')
<1> DEFINE w == writer[c]
           e == SlotOf(w, "open")
           t == [st EXCEPT !.next = IndexWrite(Ix, e).next]
           ws == [writer EXCEPT ![c] = After(w, n)]
           calm == ~cut
<1>1. Calling /\ w.open /\ w.count = 0 /\ n <= ChunkUnits
      /\ sb' = sb /\ st' = t /\ writer' = ws
      /\ todo' = IndexOps(Ix, e, sb, st) \o <<FrameOp(w, n)>>
  BY DEF FirstFrame
<1>2. /\ KSound(crashes, calm, Disk) /\ KRest(sb, st, writer, calm, Disk)
      /\ IndexOf(Disk, Ix) /\ NextOn(file) = st.next
      /\ st \in Tab /\ writer \in [Chn -> Pen] /\ sb \in Super
      /\ crashes \in Nat /\ crashes <= MaxCrashes
  BY <1>1, AtRest, Zenon
<1>3. /\ w \in Pen /\ w.seg = <<c, st.seq[c]>> /\ w.off = 0
      /\ CountsOn(file)[c] \in Nat /\ st.seq[c] \in Nat
  BY <1>1, WriterAtRest
<1> HIDE DEF w
<1>4. AtWork(sb, st, w, c, calm, Disk)
  BY <1>1, <1>2, Zenon DEF KRest, w
<1>5. /\ CleanOn(calm, Disk, w.chunk) /\ sb = Moved(BootOn(Disk.f)) /\ w.chunk = RingOn(Disk.f)
      /\ CountsOn(file)[c] < st.seq[c]
  BY <1>1, <1>4, DiskFields, Zenon DEF AtWork
<1>6. Found(Ix, w.seg) = {}
  <2>1. ~(st.seq[c] <= CountsOn(file)[c])
    BY <1>3, <1>5
  <2>2. Safe(Now) /\ IndexOf(Now, Ix)
    BY <1>1, AtCall, Zenon DEF Sound
  <2>3. CountsOn(Now.f) = CountsOn(file)
    BY NowFields
  <2>4. QED
    BY <1>3, <2>1, <2>2, <2>3, NoGhostFound
<1> HIDE DEF e, calm
<1>7. t.next = IndexWrite(Ix, e).next
  BY <1>2 DEF Tab
<1> HIDE DEF t
<1>8. PICK X, Y : /\ Starts(crashes, calm, Disk, Ix, sb, st, w, n, X, Y)
                  /\ AtWork(sb, t, After(w, n), c, calm, Y)
  <2>1. t.next = IndexWrite(Ix, SlotOf(w, "open")).next
    BY <1>7 DEF e
  <2>2. QED
    BY <1>1, <1>2, <1>3, <1>5, <1>6, <2>1, StartGoes, Zenon
<1>9. /\ Goes(crashes, calm, Disk, IndexOps(Ix, e, sb, st), X)
      /\ Goes(crashes, calm, X, <<FrameOp(w, n)>>, Y)
      /\ NextOn(Y.f) = t.next
  BY <1>7, <1>8, Zenon DEF Starts, e
<1>10. Goes(crashes, calm, Disk, IndexOps(Ix, e, sb, st) \o <<FrameOp(w, n)>>, Y)
  BY <1>9, GoesOn, Zenon
<1>11. After(w, n).open = w.open
  BY <1>3 DEF After, Pen
<1>12. ws[c] = After(w, n)
  BY <1>2
<1> HIDE DEF ws
<1>13. KRest(sb, t, ws, calm, Y)
  <2>1. ws[c].open /\ AtWork(sb, t, ws[c], c, calm, Y)
    BY <1>1, <1>8, <1>11, <1>12
  <2>2. QED
    BY <1>9, <2>1, RestOpen, Zenon
<1>14. Carries(sb, t, ws, crashes, calm, Disk, IndexOps(Ix, e, sb, st) \o <<FrameOp(w, n)>>)
  BY <1>10, <1>13, Zenon DEF Carries
<1>15. QED
  BY <1>1, <1>14, Zenon DEF calm

LEMMA NextCarries ==
  ASSUME OneWriter, NInv, KInv, NEW c \in Chn, NEW n \in FrameUnits, NextFrame(c, n)
  PROVE  Carries(sb', st', writer', crashes, ~cut, Disk, todo')
<1> DEFINE w == writer[c]
           v == After(w, n)
           ws == [writer EXCEPT ![c] = v]
           calm == ~cut
<1>1. Calling /\ w.open /\ w.count > 0 /\ w.off + n <= ChunkUnits
      /\ sb' = sb /\ st' = st /\ writer' = ws /\ todo' = <<FrameOp(w, n)>>
  BY DEF NextFrame
<1>2. /\ KSound(crashes, calm, Disk) /\ KRest(sb, st, writer, calm, Disk)
      /\ NextOn(file) = st.next /\ writer \in [Chn -> Pen]
  BY <1>1, AtRest, Zenon
<1>3. w \in Pen
  BY <1>2
<1> HIDE DEF w, calm
<1>4. AtWork(sb, st, w, c, calm, Disk)
  BY <1>1, <1>2, Zenon DEF KRest, w
<1>5. /\ CleanOn(calm, Disk, w.chunk)
      /\ sb = BootOn(Disk.f)
      /\ \E a \in Super : sb = Moved(a) /\ w.chunk = a.wptr
      /\ Names(SlotOn(Disk.f, Pred(st.next)), w.seg) /\ SlotOn(Disk.f, Pred(st.next)).st = "open"
      /\ SlotOn(Disk.f, Pred(st.next)).chunk = w.chunk
      /\ Tiled(CellsOn(Disk.f, w.chunk), SlotOf(w, "valid"))
  BY <1>1, <1>4, Zenon DEF AtWork
<1>6. PICK g : /\ Goes(crashes, calm, Disk, <<FrameOp(w, n)>>, [f |-> g, p |-> Disk.p, kept |-> Disk.kept])
               /\ FramePut(w, n, Disk.f, g)
  BY <1>1, <1>2, <1>3, <1>5, FrameGoes, Zenon
<1> DEFINE Y == [f |-> g, p |-> Disk.p, kept |-> Disk.kept]
<1>7. Y.f = g /\ Y.kept = Disk.kept /\ Goes(crashes, calm, Disk, <<FrameOp(w, n)>>, Y)
  BY <1>6
<1> HIDE DEF Y
<1>8. /\ v.open = w.open /\ v.seg = w.seg /\ v.chunk = w.chunk
      /\ v.count > 0 /\ v.count # 0
  <2>1. v.open = w.open /\ v.seg = w.seg /\ v.chunk = w.chunk /\ v.count = w.count + 1 /\ w.count \in Nat
    BY <1>3 DEF After, Pen
  <2>2. QED
    BY <2>1
<1> HIDE DEF v
<1>9. ws[c] = v
  BY <1>2
<1> HIDE DEF ws
<1>10. /\ BootOn(g) = BootOn(Disk.f) /\ NextOn(g) = NextOn(Disk.f) /\ SameSlots(g, Disk.f)
       /\ Tiled(CellsOn(g, w.chunk), SlotOf(v, "valid"))
  BY <1>6, Zenon DEF FramePut, HeadLike, v
<1>11. CleanOn(calm, Y, v.chunk)
  <2>1. \A j \in Slot : SlotOn(Y.f, j) = SlotOn(Disk.f, j) \/ SlotOn(Y.f, j).st = "open"
    BY <1>7, <1>10, Zenon DEF SameSlots
  <2>2. QED
    BY <1>5, <1>7, <1>8, <2>1, CleanLike, Zenon
<1>12. SlotOn(g, Pred(st.next)) = SlotOn(Disk.f, Pred(st.next))
  <2>1. Typed(Disk.f)
    BY <1>2, Zenon DEF KSound, TypedPart
  <2>2. NextOn(Disk.f) \in Slot
    BY <2>1, PlacesTyped
  <2>3. Pred(st.next) \in Slot
    BY <1>2, <2>2, DiskFields, PredTurn
  <2>4. QED
    BY <1>10, <2>3, Zenon DEF SameSlots
<1>13. AtWork(sb, st, v, c, calm, Y)
  BY <1>5, <1>7, <1>8, <1>10, <1>11, <1>12, Zenon DEF AtWork
<1>14. KRest(sb, st, ws, calm, Y)
  <2>1. ws[c].open /\ AtWork(sb, st, ws[c], c, calm, Y)
    BY <1>1, <1>8, <1>9, <1>13
  <2>2. NextOn(Y.f) = st.next
    BY <1>2, <1>7, <1>10, DiskFields
  <2>3. QED
    BY <2>1, <2>2, RestOpen, Zenon
<1>15. Carries(sb, st, ws, crashes, calm, Disk, <<FrameOp(w, n)>>)
  BY <1>7, <1>14, Zenon DEF Carries
<1>16. QED
  BY <1>1, <1>15, Zenon DEF calm

\* A writer with frames is about to finish its segment.
LEMMA ToFinish ==
  ASSUME NEW calm, NEW b, NEW t, NEW w \in Pen, NEW c, AtWork(b, t, w, c, calm, Disk), w.count > 0,
         NextOn(Disk.f) = t.next
  PROVE  AtFinish(w, calm, Disk) /\ b = BootOn(Disk.f)
<1>1. /\ CleanOn(calm, Disk, w.chunk) /\ b = BootOn(Disk.f)
      /\ \E a \in Super : b = Moved(a) /\ w.chunk = a.wptr
      /\ Names(SlotOn(Disk.f, Pred(t.next)), w.seg) /\ SlotOn(Disk.f, Pred(t.next)).st = "open"
      /\ Tiled(CellsOn(Disk.f, w.chunk), SlotOf(w, "valid"))
  BY Zenon DEF AtWork
<1>2. NoneOn(Disk.kept, w.chunk)
  BY <1>1, Zenon DEF CleanOn
<1>3. \E a \in Super : BootOn(Disk.f) = Moved(a) /\ w.chunk = a.wptr
  BY <1>1, Zenon
<1>4. QED
  BY <1>1, <1>2, <1>3, Zenon DEF AtFinish

LEMMA CloseCarries ==
  ASSUME OneWriter, NInv, KInv, NEW c \in Chn, CloseWriter(c)
  PROVE  Carries(sb', st', writer', crashes, ~cut, Disk, todo')
<1> DEFINE w == writer[c]
           x1 == Closing(Ix, w)
           t == [st EXCEPT !.next = x1.next]
           ws == [writer EXCEPT ![c] = Idle]
           calm == ~cut
<1>1. Calling /\ w.open /\ sb' = sb /\ st' = t /\ writer' = ws
      /\ todo' = ClosingOps(Ix, w) \o Flush(sb, t)
  BY DEF CloseWriter
<1>2. /\ KSound(crashes, calm, Disk) /\ KRest(sb, st, writer, calm, Disk)
      /\ IndexOf(Disk, Ix) /\ NextOn(file) = st.next
      /\ st \in Tab /\ writer \in [Chn -> Pen] /\ sb \in Super
      /\ crashes \in Nat /\ crashes <= MaxCrashes
  BY <1>1, AtRest, Zenon
<1>3. w \in Pen
  BY <1>2
<1>4. ~ws[c].open
  BY <1>2, IdlePen
<1> HIDE DEF w, calm, ws
<1>5. AtWork(sb, st, w, c, calm, Disk) /\ NextOn(Disk.f) = st.next
  BY <1>1, <1>2, DiskFields, Zenon DEF KRest, w
<1>6. CASE w.count = 0
  <2>1. ClosingOps(Ix, w) = <<>> /\ x1 = Ix
    BY <1>6 DEF ClosingOps, Closing
  <2>2. x1.next = st.next
    BY <2>1 DEF Ix
  <2> HIDE DEF x1
  <2>3. t \in Tab /\ t.next = st.next
    BY <1>2, <2>2 DEF Tab
  <2> HIDE DEF t
  <2>4. sb = Moved(BootOn(Disk.f)) /\ NoneOn(Disk.kept, RingOn(Disk.f))
    BY <1>5, <1>6, Zenon DEF AtWork, CleanOn
  <2>5. RingMoves(sb, Disk.f, Disk.kept)
    BY <2>4, Zenon DEF RingMoves
  <2>6. Carries(sb, t, ws, crashes, calm, Disk, Flush(sb, t))
    BY <1>2, <1>4, <1>5, <2>3, <2>5, EndGoes, Zenon
  <2>7. PICK Y : Goes(crashes, calm, Disk, Flush(sb, t), Y) /\ KRest(sb, t, ws, calm, Y)
    BY <2>6, Zenon DEF Carries
  <2>8. Goes(crashes, calm, Disk, <<>>, Disk)
    BY <1>2, GoesNowhere, Zenon
  <2>9. Goes(crashes, calm, Disk, <<>> \o Flush(sb, t), Y)
    BY <2>7, <2>8, GoesOn, Zenon
  <2>10. Carries(sb, t, ws, crashes, calm, Disk, ClosingOps(Ix, w) \o Flush(sb, t))
    BY <2>1, <2>7, <2>9, Zenon DEF Carries
  <2>11. QED
    BY <1>1, <2>10, Zenon DEF calm
<1>7. CASE w.count # 0
  <2>1. w.count > 0
    BY <1>3, <1>7 DEF Pen
  <2>2. AtFinish(w, calm, Disk) /\ sb = BootOn(Disk.f)
    BY <1>3, <1>5, <2>1, ToFinish
  <2>3. PICK Y1 : /\ Goes(crashes, calm, Disk, ClosingOps(Ix, w), Y1)
                  /\ IndexOf(Y1, Closing(Ix, w)) /\ HeadLike(Y1.f, Disk.f)
    BY <1>2, <2>2, ClosingGoes, Zenon
  <2>4. KSound(crashes, calm, Y1)
    BY <2>3, GoesEnds, ZenonT(30)
  <2>5. x1.next = NextOn(Y1.f) /\ sb = BootOn(Y1.f)
    BY <2>2, <2>3, Zenon DEF IndexOf, HeadLike
  <2>6. NextOn(Y1.f) \in Slot
    <3>1. Typed(Y1.f)
      BY <2>4, Zenon DEF KSound, TypedPart
    <3>2. QED
      BY <3>1, PlacesTyped
  <2> HIDE DEF x1
  <2>7. t \in Tab /\ t.next = NextOn(Y1.f)
    BY <1>2, <2>5, <2>6 DEF Tab
  <2> HIDE DEF t
  <2>8. RingMoves(sb, Y1.f, Y1.kept)
    BY <2>5, Zenon DEF RingMoves
  <2>9. Carries(sb, t, ws, crashes, calm, Y1, Flush(sb, t))
    BY <1>2, <1>4, <2>4, <2>7, <2>8, EndGoes, Zenon
  <2>10. PICK Y : Goes(crashes, calm, Y1, Flush(sb, t), Y) /\ KRest(sb, t, ws, calm, Y)
    BY <2>9, Zenon DEF Carries
  <2>11. Goes(crashes, calm, Disk, ClosingOps(Ix, w) \o Flush(sb, t), Y)
    BY <2>3, <2>10, GoesOn, Zenon
  <2>12. Carries(sb, t, ws, crashes, calm, Disk, ClosingOps(Ix, w) \o Flush(sb, t))
    BY <2>10, <2>11, Zenon DEF Carries
  <2>13. QED
    BY <1>1, <2>12, Zenon DEF calm
<1>8. QED
  BY <1>6, <1>7

\* The segment that a rolling writer starts is in no slot of the scan.
LEMMA RollNotFound ==
  ASSUME LongRing, NInv, Calling, NEW c \in Chn, writer[c].open, NEW b, NEW k
  PROVE  Found(Reclaimed(Closing(Ix, writer[c]), b, k), <<c, st.seq[c] + 1>>) = {}
<1> DEFINE X == Now
           w == writer[c]
           x1 == Closing(Ix, w)
           x2 == Reclaimed(x1, b, k)
<1>1. /\ Sound(st.seq, X) /\ IndexOf(X, Ix) /\ Ready(st, writer, X) /\ StateLike(X)
      /\ st \in Tab /\ writer \in [Chn -> Pen] /\ sb \in Super
  BY AtCall, NowFields
<1>2. w \in Pen /\ Held(st.seq[c], w, c, X)
  BY <1>1 DEF Ready
<1>3. Between(st.seq, X, st)
  <2>1. \A a \in Chn : CountsOn(X.f)[a] <= st.seq[a] /\ st.seq[a] \in Nat
    BY <1>1 DEF Sound, Below, Tab, Counts
  <2>2. QED
    BY <2>1 DEF Between
<1> HIDE DEF X, w
<1>4. PICK Y1 : Closes(st.seq, X, Ix, w, Y1)
  BY <1>1, <1>2, <1>3, ClosesLeads, Zenon
<1>5. /\ Leads(st.seq, X, ClosingOps(Ix, w), Y1) /\ StateLike(Y1) /\ IndexOf(Y1, x1)
      /\ CountsOn(Y1.f)[c] <= st.seq[c]
  BY <1>4 DEF Closes
<1> HIDE DEF x1
<1>6. Sound(st.seq, Y1)
  BY <1>5, LeadsEnds, Zenon
<1>7. PICK Y2 : Reclaims(st.seq, Y1, x1, b, k, Y2)
  BY <1>5, <1>6, ReclaimsLeads, Zenon
<1>8. /\ Leads(st.seq, Y1, ReclaimOps(x1, b, k), Y2) /\ IndexOf(Y2, x2)
      /\ CountsOn(Y2.f) = CountsOn(Y1.f)
  BY <1>7 DEF Reclaims
<1>9. Safe(Y2)
  BY <1>8, LeadsEnds, Zenon DEF Sound
<1> HIDE DEF x2
<1>10. st.seq[c] \in Nat /\ st.seq[c] + 1 \in Nat /\ CountsOn(Y2.f)[c] \in Nat
  <2>1. st.seq[c] \in Nat
    BY <1>1, FormatAssumption DEF Tab, Counts
  <2>2. CountsOn(Y2.f)[c] \in Nat
    BY <1>9, CountsNat DEF Safe
  <2>3. QED
    BY <2>1, <2>2
<1>11. ~(st.seq[c] + 1 <= CountsOn(Y2.f)[c])
  BY <1>5, <1>8, <1>10
<1>12. Found(x2, <<c, st.seq[c] + 1>>) = {}
  BY <1>8, <1>9, <1>10, <1>11, NoGhostFound
<1>13. QED
  BY <1>12 DEF x2, x1, w

LEMMA RollCarries ==
  ASSUME LongRing, WideIndex, OneWriter, NInv, KInv, NEW c \in Chn, NEW n \in FrameUnits, RollFrame(c, n)
  PROVE  Carries(sb', st', writer', crashes, ~cut, Disk, todo')
<1> DEFINE w  == writer[c]
           k  == sb.wptr
           b  == Moved(sb)
           x1 == Closing(Ix, w)
           s1 == [st EXCEPT !.next = x1.next]
           t1 == Started(s1, c)
           f  == Fresh(t1, c, k)
           e  == SlotOf(f, "open")
           x2 == Reclaimed(x1, b, k)
           t  == [t1 EXCEPT !.next = IndexWrite(x2, e).next]
           ws == [writer EXCEPT ![c] = After(f, n)]
           calm == ~cut
<1>1. /\ Calling /\ sb' = b /\ st' = t /\ writer' = ws
      /\ todo' = ClosingOps(Ix, w) \o ReclaimOps(x1, b, k) \o IndexOps(x2, e, b, t1)
                 \o <<FrameOp(f, n)>>
      /\ w.open /\ w.count > 0 /\ n <= ChunkUnits /\ st.seq[c] < MaxSegSeq
  BY DEF RollFrame
<1>2. /\ KSound(crashes, calm, Disk) /\ KRest(sb, st, writer, calm, Disk)
      /\ IndexOf(Disk, Ix) /\ NextOn(file) = st.next
      /\ st \in Tab /\ writer \in [Chn -> Pen] /\ sb \in Super
      /\ crashes \in Nat /\ crashes <= MaxCrashes
  BY <1>1, AtRest, Zenon
<1>3. w \in Pen /\ b \in Super /\ k \in Chunk
  BY <1>2, MovedSuper
<1>4. Found(x2, <<c, st.seq[c] + 1>>) = {}
  BY <1>1, RollNotFound, Zenon
<1> HIDE DEF w, calm
<1>5. AtWork(sb, st, w, c, calm, Disk) /\ NextOn(Disk.f) = st.next
  BY <1>1, <1>2, DiskFields, Zenon DEF KRest, w
<1>6. AtFinish(w, calm, Disk) /\ sb = BootOn(Disk.f)
  BY <1>1, <1>3, <1>5, ToFinish
<1>7. b = Moved(BootOn(Disk.f)) /\ k = RingOn(Disk.f)
  BY <1>6 DEF RingOn
<1> HIDE DEF b, k
\* The closing slot.
<1>8. PICK Y1 : /\ Goes(crashes, calm, Disk, ClosingOps(Ix, w), Y1)
                /\ IndexOf(Y1, x1) /\ HeadLike(Y1.f, Disk.f)
  BY <1>2, <1>6, ClosingGoes, Zenon
<1> HIDE DEF x1
<1>9. KSound(crashes, calm, Y1) /\ b = Moved(BootOn(Y1.f)) /\ k = RingOn(Y1.f)
  <2>1. KSound(crashes, calm, Y1)
    BY <1>8, GoesEnds, ZenonT(30)
  <2>2. QED
    BY <1>7, <1>8, <2>1, Zenon DEF HeadLike, RingOn
\* The chunk.
<1>10. PICK Y2 : Goes(crashes, calm, Y1, ReclaimOps(x1, b, k), Y2) /\ ClearedTo(calm, Y1, x1, b, k, Y2)
  BY <1>2, <1>8, <1>9, ReclaimGoes, Zenon
<1>11. IndexOf(Y2, x2) /\ CleanOn(calm, Y2, k) /\ HeadLike(Y2.f, Y1.f)
  BY <1>10, Zenon DEF ClearedTo
<1>12. KSound(crashes, calm, Y2) /\ b = Moved(BootOn(Y2.f)) /\ k = RingOn(Y2.f)
  <2>1. KSound(crashes, calm, Y2)
    BY <1>10, GoesEnds, ZenonT(30)
  <2>2. QED
    BY <1>9, <1>11, <2>1, Zenon DEF HeadLike, RingOn
<1> HIDE DEF x2
\* The open slot and the frame.
<1>13. x1.next \in Slot
  <2>1. Typed(Y1.f) /\ x1.next = NextOn(Y1.f)
    BY <1>8, <1>9, Zenon DEF KSound, TypedPart, IndexOf
  <2>2. QED
    BY <2>1, PlacesTyped
<1>14. s1 \in Tab /\ s1.next = x1.next /\ s1.seq = st.seq
  BY <1>2, <1>13 DEF Tab
<1> HIDE DEF s1
<1>15. t1 \in Tab /\ t1.seq[c] = st.seq[c] + 1 /\ <<c, t1.seq[c]>> \in Seg
  <2>1. s1.seq[c] < MaxSegSeq
    BY <1>1, <1>14
  <2>2. t1 \in Tab /\ t1.seq[c] = s1.seq[c] + 1 /\ <<c, s1.seq[c] + 1>> \in Seg
    BY <1>14, <2>1, StartedTab
  <2> HIDE DEF t1
  <2>3. QED
    BY <1>14, <2>2
<1> HIDE DEF t1
<1>16. f \in Pen /\ f.open = TRUE /\ f.seg = <<c, t1.seq[c]>> /\ f.count = 0 /\ f.off = 0 /\ f.chunk = k
  BY <1>3, <1>15, PenFresh DEF Fresh
<1> HIDE DEF f
<1>17. Found(x2, f.seg) = {}
  BY <1>4, <1>15, <1>16
<1>18. t.next = IndexWrite(x2, e).next
  BY <1>15 DEF Tab
<1> HIDE DEF t
<1>19. PICK X, Y : /\ Starts(crashes, calm, Y2, x2, b, t1, f, n, X, Y)
                   /\ AtWork(b, t, After(f, n), c, calm, Y)
  <2>1. f.chunk = RingOn(Y2.f) /\ CleanOn(calm, Y2, f.chunk)
    BY <1>11, <1>12, <1>16
  <2>2. f \in Pen /\ f.count = 0 /\ f.off = 0
    BY <1>16
  <2>3. QED
    BY <1>1, <1>2, <1>3, <1>11, <1>12, <1>15, <1>17, <1>18, <2>1, <2>2, StartGoes, Zenon
<1>20. /\ Goes(crashes, calm, Y2, IndexOps(x2, e, b, t1), X)
       /\ Goes(crashes, calm, X, <<FrameOp(f, n)>>, Y)
       /\ NextOn(Y.f) = t.next
  BY <1>18, <1>19, Zenon DEF Starts
<1> HIDE DEF e
<1>21. Goes(crashes, calm, Disk, ClosingOps(Ix, w) \o ReclaimOps(x1, b, k), Y2)
  BY <1>8, <1>10, GoesOn, Zenon
<1>22. Goes(crashes, calm, Disk, ClosingOps(Ix, w) \o ReclaimOps(x1, b, k) \o IndexOps(x2, e, b, t1), X)
  BY <1>20, <1>21, GoesOn, Zenon
<1>23. Goes(crashes, calm, Disk, ClosingOps(Ix, w) \o ReclaimOps(x1, b, k) \o IndexOps(x2, e, b, t1)
                                 \o <<FrameOp(f, n)>>, Y)
  BY <1>20, <1>22, GoesOn, Zenon
<1>24. After(f, n).open = TRUE
  BY <1>16 DEF After, Pen
<1>25. ws[c] = After(f, n)
  BY <1>2
<1> HIDE DEF ws
<1>26. KRest(b, t, ws, calm, Y)
  <2>1. ws[c].open /\ AtWork(b, t, ws[c], c, calm, Y)
    BY <1>19, <1>24, <1>25
  <2>2. QED
    BY <1>20, <2>1, RestOpen, Zenon
<1>27. Carries(b, t, ws, crashes, calm, Disk, todo')
  BY <1>1, <1>23, <1>26, Zenon DEF Carries
<1>28. QED
  BY <1>1, <1>27, Zenon DEF calm

-----------------------------------------------------------------------------
(* The disk, crashes and mounts, for what the disk keeps. *)

LEMMA KInit == ASSUME Init, WideIndex PROVE KInv
<1> DEFINE zero == [c \in Chn |-> 0]
           super == [ok |-> TRUE, wptr |-> 0, wrapped |-> FALSE]
           D == Disk
<1>1. NInv
  BY NInit
<1>2. Typed(file) /\ Typed(platter)
  BY <1>1, NowFields DEF NInv, Safe
<1>3. /\ file = Formatted /\ platter = Formatted /\ todo = <<>> /\ sb = super
      /\ st = [next |-> 0, seq |-> zero] /\ writer = [c \in Chn |-> Idle]
      /\ crashes = 0 /\ kept = <<>>
  BY DEF Init
<1>4. \A p \in Place : /\ p[1] = "sb" => Formatted[p] = super
                       /\ p[1] = "next" => Formatted[p] = 0
                       /\ p[1] = "slot" => Formatted[p] = Unwritten
  BY DEF Formatted
<1> HIDE DEF zero, super
<1>5. BootOn(file) = sb /\ NextOn(file) = st.next
  BY <1>3, <1>4, Places DEF BootOn, NextOn
<1>6. \A i \in Slot : SlotOn(file, i) = Unwritten
  BY <1>3, <1>4, Places DEF SlotOn
<1>7. \A i \in Slot : SlotOn(file, i).st # "valid"
  BY <1>6 DEF Unwritten
<1>8. D.f = file /\ D.p = file /\ D.kept = <<>>
  BY <1>3, DiskFields
<1> HIDE DEF D
<1>9. \A i : ~Standing(<<>>, i)
  BY DEF Standing
<1>10. TypedPart(D)
  <2>1. <<>> \in Seq(Pen)
    OBVIOUS
  <2>2. QED
    BY <1>2, <1>8, <2>1, Zenon DEF TypedPart
<1>11. KeptPart(0, D) /\ NextPart(D)
  BY <1>8, <1>9, Zenon DEF KeptPart, NextPart
<1>12. RingPart(D)
  BY <1>8, <1>9, Zenon DEF RingPart, InOrder
<1>13. CalmPart(~cut, D)
  BY <1>7, <1>8, Zenon DEF CalmPart
<1>14. KSound(0, ~cut, D)
  BY <1>10, <1>11, <1>12, <1>13, Zenon DEF KSound
<1>15. \A c \in Chn : ~writer[c].open
  BY <1>3, IdlePen
<1>16. KRest(sb, st, writer, ~cut, D)
  BY <1>5, <1>8, <1>15, Zenon DEF KRest
<1>17. Carries(sb, st, writer, 0, ~cut, D, <<>>)
  BY <1>14, <1>16, GoesNowhere, Zenon DEF Carries
<1>18. 0 \in Nat /\ 0 <= MaxCrashes
  BY DEF WideIndex
<1>19. QED
  BY <1>3, <1>14, <1>17, <1>18 DEF KInv, D

\* A step of the disk does the next operation.
LEMMA DoesDisk ==
  ASSUME DiskStep
  PROVE  /\ Disk' = Does(Disk, Head(todo)) /\ todo # <<>> /\ todo' = Tail(todo)
         /\ UNCHANGED <<sb, st, writer, phase, crashes, cut>>
<1> DEFINE o == Head(todo)
<1>1. Disk' = [f |-> file', p |-> platter', kept |-> kept']
  BY DEF Disk
<1>2. \A v : Written(v) = Over(file, v)
  BY DEF Written, Over
<1>3. todo # <<>> /\ todo' = Tail(todo) /\ UNCHANGED <<sb, st, writer, phase, crashes, cut>>
  BY DEF DiskStep
<1>4. \/ o.op = "put" /\ file' = Written(o.vals) /\ UNCHANGED <<platter, kept>>
      \/ o.op = "frame" /\ file' = Written(o.vals) /\ UNCHANGED <<platter, kept>>
      \/ o.op = "sync" /\ platter' = file /\ UNCHANGED <<file, kept>>
      \/ o.op = "finished" /\ kept' = Append(kept, o.seg) /\ UNCHANGED <<file, platter>>
      \/ o.op = "taken" /\ kept' = Without(o.chunk) /\ UNCHANGED <<file, platter>>
  BY DEF DiskStep
<1>5. Without(o.chunk) = [i \in 1 .. Len(kept) |-> IF kept[i].chunk = o.chunk THEN Idle ELSE kept[i]]
  BY DEF Without
<1> HIDE DEF o
<1>6. CASE o.op \in {"put", "frame"} /\ file' = Written(o.vals) /\ UNCHANGED <<platter, kept>>
  <2>1. Does(Disk, o) = [f |-> Over(file, o.vals), p |-> platter, kept |-> kept]
    BY <1>6, DiskFields DEF Does
  <2>2. QED
    BY <1>1, <1>2, <1>3, <1>6, <2>1 DEF o
<1>7. CASE o.op = "sync" /\ platter' = file /\ UNCHANGED <<file, kept>>
  <2>1. Does(Disk, o) = [f |-> file, p |-> file, kept |-> kept]
    BY <1>7, DiskFields DEF Does
  <2>2. QED
    BY <1>1, <1>3, <1>7, <2>1 DEF o
<1>8. CASE o.op = "finished" /\ kept' = Append(kept, o.seg) /\ UNCHANGED <<file, platter>>
  <2>1. Does(Disk, o) = [f |-> file, p |-> platter, kept |-> Append(kept, o.seg)]
    BY <1>8, DiskFields DEF Does
  <2>2. QED
    BY <1>1, <1>3, <1>8, <2>1 DEF o
<1>9. CASE o.op = "taken" /\ kept' = Without(o.chunk) /\ UNCHANGED <<file, platter>>
  <2>1. Does(Disk, o) = [f |-> file, p |-> platter, kept |-> Without(o.chunk)]
    BY <1>5, <1>9, DiskFields DEF Does
  <2>2. QED
    BY <1>1, <1>3, <1>9, <2>1 DEF o
<1>10. QED
  BY <1>4, <1>6, <1>7, <1>8, <1>9

LEMMA DiskKeepsAll ==
  ASSUME KInv, DiskStep
  PROVE  KInv'
<1>1. phase = "up" /\ Carries(sb, st, writer, crashes, ~cut, Disk, todo)
  BY DEF DiskStep, KInv
<1>2. /\ Disk' = Does(Disk, Head(todo)) /\ todo # <<>> /\ todo' = Tail(todo)
      /\ UNCHANGED <<sb, st, writer, phase, crashes, cut>>
  BY DoesDisk
<1>3. PICK Y : Goes(crashes, ~cut, Disk, todo, Y) /\ KRest(sb, st, writer, ~cut, Y)
  BY <1>1, Zenon DEF Carries
<1>4. Goes(crashes, ~cut, Does(Disk, Head(todo)), Tail(todo), Y)
  BY <1>2, <1>3, GoesFirst, Zenon
<1> DEFINE X == Disk'
<1>5. X = Disk' /\ X = Does(Disk, Head(todo))
  BY <1>2
<1> HIDE DEF X
<1>6. Goes(crashes, ~cut, X, todo', Y)
  BY <1>2, <1>4, <1>5, Zenon
<1>7. KSound(crashes, ~cut, X)
  BY <1>6, GoesEnds, ZenonT(30)
<1>8. Carries(sb, st, writer, crashes, ~cut, X, todo')
  BY <1>3, <1>6, Zenon DEF Carries
<1>9. Carries(sb', st', writer', crashes', ~cut', Disk', todo') /\ KSound(crashes', ~cut', Disk')
  BY <1>2, <1>5, <1>7, <1>8
<1>10. crashes' \in Nat /\ crashes' <= MaxCrashes
  BY <1>2 DEF KInv
<1>11. QED
  BY <1>9, <1>10, Zenon DEF KInv

LEMMA CallCarries ==
  ASSUME KInv, UNCHANGED <<file, platter, kept, crashes, cut>>,
         Carries(sb', st', writer', crashes, ~cut, Disk, todo')
  PROVE  KInv'
<1>1. Disk' = Disk
  BY DEF Disk
<1>2. Carries(sb', st', writer', crashes', ~cut', Disk', todo') /\ KSound(crashes', ~cut', Disk')
  BY <1>1 DEF KInv
<1>3. crashes' \in Nat /\ crashes' <= MaxCrashes
  BY DEF KInv
<1>4. QED
  BY <1>2, <1>3, Zenon DEF KInv

LEMMA KillKeepsAll ==
  ASSUME WideIndex, KInv, Kill
  PROVE  KInv'
<1>1. /\ phase' = "down" /\ crashes < MaxCrashes /\ crashes' = crashes + 1
      /\ cut' = cut /\ UNCHANGED <<file, platter, kept>>
  BY DEF Kill, Down
<1>2. crashes \in Nat /\ KSound(crashes, ~cut, Disk)
  BY DEF KInv
<1>3. KSound(crashes + 1, ~cut, Disk)
  BY <1>2, OneMore
<1>4. Disk' = Disk
  BY <1>1 DEF Disk
<1>5. KSound(crashes', ~cut', Disk')
  BY <1>1, <1>3, <1>4
<1>6. crashes' \in Nat /\ crashes' <= MaxCrashes
  BY <1>1, <1>2 DEF WideIndex
<1>7. phase' # "up"
  BY <1>1
<1>8. QED
  BY <1>5, <1>6, <1>7, Zenon DEF KInv

\* What a power cut leaves is a mixture, when sectors reach the disk whole.
LEMMA CutMixes ==
  ASSUME NoTear, Typed(file), Typed(platter), PowerCut
  PROVE  Typed(file') /\ Mixed(file, platter, file')
<1>1. "tear" \notin Faults
  BY DEF NoTear
<1>2. PICK lost \in SUBSET Dirty, torn \in SUBSET {p \in Dirty : p[1] = "sb"} :
        /\ torn = {}
        /\ file' = [p \in Place |-> IF p \in lost THEN platter[p]
                                    ELSE IF p \in torn THEN [file[p] EXCEPT !.ok = FALSE]
                                    ELSE file[p]]
  BY <1>1 DEF PowerCut
<1> DEFINE g == [p \in Place |-> IF p \in lost THEN platter[p]
                                 ELSE IF p \in torn THEN [file[p] EXCEPT !.ok = FALSE]
                                 ELSE file[p]]
<1>3. \A p \in Place : g[p] = IF p \in lost THEN platter[p] ELSE file[p]
  BY <1>2
<1>4. file' = g
  BY <1>2
<1> HIDE DEF g
<1>5. \A p \in Place : g[p] \in {file[p], platter[p]}
  BY <1>3
<1>6. Typed(g)
  <2>1. ASSUME NEW k \in Copy
        PROVE  g[<<"sb", k>>] \in Super /\ g[<<"next", k>>] \in Slot /\ g[<<"seq", k>>] \in Counts
    BY <1>3, Places, Zenon DEF Typed
  <2>2. ASSUME NEW i \in Slot PROVE g[<<"slot", i>>] \in IndexSlot
    BY <1>3, Places, Zenon DEF Typed
  <2>3. ASSUME NEW k \in Chunk, NEW u \in Unit PROVE g[<<"unit", k, u>>] \in Cell
    BY <1>3, Places, Zenon DEF Typed
  <2>4. QED
    BY <2>1, <2>2, <2>3, Zenon DEF Typed
<1>7. BootOn(g) \in {BootOn(file), BootOn(platter)} /\ NextOn(g) \in {NextOn(file), NextOn(platter)}
  BY <1>5, Places, Zenon DEF BootOn, NextOn
<1>8. \A i \in Slot : SlotOn(g, i) \in {SlotOn(file, i), SlotOn(platter, i)}
  BY <1>5, Places, Zenon DEF SlotOn
<1>9. \A k \in Chunk, u \in Unit : UnitOn(g, k, u) \in {UnitOn(file, k, u), UnitOn(platter, k, u)}
  BY <1>5, Places, Zenon DEF UnitOn
<1>10. Mixed(file, platter, g)
  BY <1>7, <1>8, <1>9, Zenon DEF Mixed
<1>11. QED
  BY <1>4, <1>6, <1>10

LEMMA CutKeepsAll ==
  ASSUME NoTear, WideIndex, NInv, KInv, PowerCut
  PROVE  KInv'
<1>1. /\ phase' = "down" /\ crashes < MaxCrashes /\ crashes' = crashes + 1 /\ kept' = kept
  BY DEF PowerCut, Down
<1>2. platter' = file' /\ cut' = TRUE
  BY DEF PowerCut
<1>3. crashes \in Nat /\ KSound(crashes, ~cut, Disk)
  BY DEF KInv
<1>4. Typed(file) /\ Typed(platter)
  BY NowFields DEF NInv, Safe
<1>5. Typed(file') /\ Mixed(file, platter, file')
  BY <1>4, CutMixes
<1> DEFINE g == file'
<1>6. g = file' /\ Typed(g) /\ Mixed(Disk.f, Disk.p, g)
  BY <1>5, DiskFields
<1> HIDE DEF g
<1>7. KSound(crashes + 1, FALSE, [f |-> g, p |-> g, kept |-> Disk.kept])
  BY <1>3, <1>6, MixedKeeps
<1>8. Disk' = [f |-> g, p |-> g, kept |-> Disk.kept]
  BY <1>1, <1>2, <1>6, DiskFields DEF Disk
<1>9. KSound(crashes', ~cut', Disk')
  <2>1. KSound(crashes', FALSE, Disk')
    BY <1>1, <1>7, <1>8
  <2>2. ~cut' => FALSE
    BY <1>2
  <2>3. CalmPart(~cut', Disk')
    BY <2>2, Zenon DEF CalmPart
  <2>4. QED
    BY <2>1, <2>3, Zenon DEF KSound
<1>10. crashes' \in Nat /\ crashes' <= MaxCrashes
  BY <1>1, <1>3 DEF WideIndex
<1>11. phase' # "up"
  BY <1>1
<1>12. QED
  BY <1>9, <1>10, <1>11, Zenon DEF KInv

LEMMA MountKeepsAll ==
  ASSUME NInv, KInv, Mount
  PROVE  KInv'
<1>1. UNCHANGED <<file, platter, todo, writer, crashes, cut, kept>>
  BY DEF Mount
<1>2. Disk' = Disk
  BY <1>1 DEF Disk
<1>3. crashes' \in Nat /\ crashes' <= MaxCrashes /\ KSound(crashes', ~cut', Disk')
  BY <1>1, <1>2 DEF KInv
<1>4. todo = <<>> /\ writer = [c \in Chn |-> Idle]
  BY DEF NInv, Mount
<1>5. CASE ~file[<<"sb", "main">>].ok
  <2>1. phase' # "up"
    BY <1>5 DEF Mount
  <2>2. QED
    BY <1>3, <2>1, Zenon DEF KInv
<1>6. CASE file[<<"sb", "main">>].ok
  <2>1. sb' = BootOn(file) /\ st'.next = NextOn(file)
    BY <1>6 DEF Mount, NextOn, BootOn
  <2>2. \A c \in Chn : ~writer[c].open
    BY <1>4, IdlePen
  <2> DEFINE b == sb'
             t == st'
  <2>3. b = sb' /\ t = st' /\ b = BootOn(Disk.f) /\ NextOn(Disk.f) = t.next
    BY <2>1, DiskFields
  <2> HIDE DEF b, t
  <2>4. KRest(b, t, writer, ~cut, Disk)
    BY <2>2, <2>3, Zenon DEF KRest
  <2>5. KSound(crashes, ~cut, Disk)
    BY DEF KInv
  <2>6. Carries(b, t, writer, crashes, ~cut, Disk, <<>>)
    BY <2>4, <2>5, GoesNowhere, Zenon DEF Carries
  <2>7. Carries(sb', st', writer', crashes', ~cut', Disk', todo')
    BY <1>1, <1>2, <1>4, <2>3, <2>6
  <2>8. QED
    BY <1>3, <2>7, Zenon DEF KInv
<1>7. QED
  BY <1>5, <1>6

LEMMA KNext ==
  ASSUME LongRing, NoTear, OneWriter, WideIndex, NInv, KInv, [Next]_vars
  PROVE  KInv'
<1>1. ASSUME NEW c \in Chn, OpenWriter(c) PROVE KInv'
  <2>1. UNCHANGED <<file, platter, kept, crashes, cut>>
    BY <1>1 DEF OpenWriter
  <2>2. QED
    BY <1>1, <2>1, OpenCarries, CallCarries
<1>2. ASSUME NEW c \in Chn, CloseWriter(c) PROVE KInv'
  <2>1. UNCHANGED <<file, platter, kept, crashes, cut>>
    BY <1>2 DEF CloseWriter
  <2>2. QED
    BY <1>2, <2>1, CloseCarries, CallCarries
<1>3. ASSUME NEW c \in Chn, NEW n \in FrameUnits, FirstFrame(c, n) PROVE KInv'
  <2>1. UNCHANGED <<file, platter, kept, crashes, cut>>
    BY <1>3 DEF FirstFrame
  <2>2. QED
    BY <1>3, <2>1, FirstCarries, CallCarries
<1>4. ASSUME NEW c \in Chn, NEW n \in FrameUnits, NextFrame(c, n) PROVE KInv'
  <2>1. UNCHANGED <<file, platter, kept, crashes, cut>>
    BY <1>4 DEF NextFrame
  <2>2. QED
    BY <1>4, <2>1, NextCarries, CallCarries
<1>5. ASSUME NEW c \in Chn, NEW n \in FrameUnits, RollFrame(c, n) PROVE KInv'
  <2>1. UNCHANGED <<file, platter, kept, crashes, cut>>
    BY <1>5 DEF RollFrame
  <2>2. QED
    BY <1>5, <2>1, RollCarries, CallCarries
<1>6. CASE DiskStep
  BY <1>6, DiskKeepsAll
<1>7. CASE Kill
  BY <1>7, KillKeepsAll
<1>8. CASE PowerCut
  BY <1>8, CutKeepsAll
<1>9. CASE Mount
  BY <1>9, MountKeepsAll
<1>10. CASE UNCHANGED vars
  <2>1. UNCHANGED <<file, platter, todo, sb, st, writer, phase, crashes, cut, kept>>
    BY <1>10 DEF vars
  <2>2. Disk' = Disk
    BY <2>1 DEF Disk
  <2>3. /\ Carries(sb', st', writer', crashes', ~cut', Disk', todo')
             <=> Carries(sb, st, writer, crashes, ~cut, Disk, todo)
        /\ KSound(crashes', ~cut', Disk') <=> KSound(crashes, ~cut, Disk)
    BY <2>1, <2>2
  <2>4. QED
    BY <2>1, <2>3 DEF KInv
<1>11. QED
  BY <1>1, <1>2, <1>3, <1>4, <1>5, <1>6, <1>7, <1>8, <1>9, <1>10 DEF Next

-----------------------------------------------------------------------------
(* What a mount finds, and the order in which the ring gives chunks up. *)

LEMMA FoundOnDisk ==
  ASSUME Typed(file), NEW e \in IndexSlot, Tiled(CellsOn(file, e.chunk), e)
  PROVE  Replay(Cells(e.chunk), e) = Frames(e)
<1>1. e.chunk \in Chunk
  BY DEF IndexSlot
<1>2. CellsOn(file, e.chunk) \in [Unit -> Cell]
  BY <1>1, PlacesTyped
<1>3. Cells(e.chunk) = CellsOn(file, e.chunk)
  BY DEF Cells, CellsOn, UnitOn
<1>4. QED
  BY <1>2, <1>3, TiledReplays

LEMMA IxSlots == \A i \in Slot : Ix.slot[i] = SlotOn(file, i)
BY DEF Ix, SlotOn

LEMMA KeptFound ==
  ASSUME NInv, KInv
  PROVE  FinishedSurvive
<1>1. KSound(crashes, ~cut, Disk) /\ Typed(file)
  BY NowFields DEF KInv, NInv, Safe
<1>2. KeptPart(crashes, Disk) /\ kept \in Seq(Pen)
  BY <1>1, DiskFields DEF KSound, TypedPart
<1> SUFFICES ASSUME NEW n \in 1 .. Len(kept), kept[n] # Idle
             PROVE  \E e \in ValidIn(Ix) : /\ e.seg = kept[n].seg /\ e.count = kept[n].count
                                           /\ Replay(Cells(e.chunk), e) = Frames(e)
  BY DEF FinishedSurvive
<1> DEFINE w == kept[n]
           e == SlotOf(w, "valid")
<1>3. Standing(Disk.kept, n) /\ Disk.kept[n] = w
  BY DiskFields DEF Standing
<1>4. KeptOK(crashes, Disk, w)
  BY <1>2, <1>3, Zenon DEF KeptPart
<1>5. w \in Pen
  BY <1>4, Zenon DEF KeptOK
<1>6. PICK i \in Slot : KeptAt(crashes, Disk.f, w, i)
  BY <1>4, Zenon DEF KeptOK
<1>7. SlotOn(file, i) = e
  BY <1>6, DiskFields DEF KeptAt
<1>8. Tiled(CellsOn(file, w.chunk), e)
  BY <1>4, DiskFields DEF KeptOK
<1>9. e.seg = w.seg /\ e.count = w.count /\ e.st = "valid" /\ e.chunk = w.chunk
  BY DEF SlotOf
<1>10. e \in IndexSlot
  BY <1>5, PenSlot
<1>11. e \in ValidIn(Ix)
  <2>1. Ix.slot[i] = e
    BY <1>7, IxSlots
  <2>2. Live(e)
    BY <1>9 DEF Live
  <2> HIDE DEF e
  <2>3. QED
    BY <1>9, <2>1, <2>2 DEF ValidIn, LiveIn
<1> HIDE DEF e, w
<1>12. Replay(Cells(e.chunk), e) = Frames(e)
  BY <1>1, <1>8, <1>9, <1>10, FoundOnDisk
<1>13. QED
  BY <1>9, <1>11, <1>12 DEF w

LEMMA CalmReplays ==
  ASSUME NInv, KInv
  PROVE  KillReplays
<1>1. KSound(crashes, ~cut, Disk) /\ Typed(file)
  BY NowFields DEF KInv, NInv, Safe
<1>2. CalmPart(~cut, Disk)
  BY <1>1 DEF KSound
<1> SUFFICES ASSUME ~cut, NEW e \in ValidIn(Ix)
             PROVE  Replay(Cells(e.chunk), e) = Frames(e)
  BY DEF KillReplays, SearchReplays
<1>3. PICK i \in Slot : e = SlotOn(file, i) /\ e.st = "valid"
  BY IxSlots DEF ValidIn, LiveIn
<1>4. SlotOK(file, e)
  BY <1>2, <1>3, DiskFields DEF CalmPart
<1>5. Tiled(CellsOn(file, e.chunk), e)
  BY <1>4, Zenon DEF SlotOK
<1>6. e \in IndexSlot
  BY <1>1, <1>3, PlacesTyped
<1>7. QED
  BY <1>1, <1>5, <1>6, FoundOnDisk

(***************************************************************************)
(* What a mount finds after a crash at any point between the disk          *)
(* operations of rsdk_rec.c, rsdk_index.c and rsdk_dev.c: pointers on the  *)
(* ring, every segment whose finalize_seg returned until the ring takes    *)
(* its chunk, and, until the first power cut, only segments that replay.   *)
(* For any number of chunks, slots and crashes and any sizes of frames, of *)
(* a disk with one writer and with an index that is longer than the number *)
(* of chunks by the number of crashes.                                     *)
(***************************************************************************)
THEOREM CrashesAreSafe ==
  ASSUME LongRing, NoTear, OneWriter, WideIndex
  PROVE  Spec => []CrashSafe
<1>1. Init => NInv /\ KInv
  BY NInit, KInit
<1>2. NInv /\ KInv /\ [Next]_vars => NInv' /\ KInv'
  BY NNext, KNext
<1>3. NInv /\ KInv => FinishedSurvive /\ KillReplays
  BY KeptFound, CalmReplays
<1>4. TypeOK /\ FinishedSurvive /\ KillReplays => CrashSafe
  BY DEF CrashSafe
<1>5. Spec => []TypeOK
  BY DiskTyped
<1>6. QED
  BY <1>1, <1>2, <1>3, <1>4, <1>5, PTL DEF Spec

LEMMA TakesOldest ==
  ASSUME NInv, KInv, DiskStep,
         NEW i \in 1 .. Len(kept), NEW j \in 1 .. Len(kept), i < j, kept[i] # Idle, kept'[i] # Idle
  PROVE  kept'[j] = kept[j]
<1> DEFINE o == Head(todo)
<1>1. phase = "up" /\ Carries(sb, st, writer, crashes, ~cut, Disk, todo)
  BY DEF DiskStep, KInv
<1>2. Disk' = Does(Disk, o) /\ todo # <<>>
  BY DoesDisk
<1>3. PICK Y : Goes(crashes, ~cut, Disk, todo, Y)
  BY <1>1, Zenon DEF Carries
<1>4. MayDo(Disk, o)
  BY <1>2, <1>3, GoesFirst
<1>5. KSound(crashes, ~cut, Disk)
  BY <1>3, GoesEnds, ZenonT(30)
<1>6. kept \in Seq(Pen) /\ InOrder(kept, RingOn(file)) /\ Typed(file)
  BY <1>5, DiskFields DEF KSound, TypedPart, RingPart
<1>7. kept' = Does(Disk, o).kept
  <2>1. Disk'.kept = kept'
    BY DEF Disk
  <2>2. QED
    BY <1>2, <2>1
<1> HIDE DEF o
<1>8. CASE o.op = "taken"
  <2>1. o.chunk = RingOn(file)
    BY <1>4, <1>8, DiskFields DEF MayDo
  <2>2. kept' = Bare(kept, o.chunk)
    BY <1>7, <1>8, DiskFields DEF Does, Bare
  <2>3. Len(kept) \in Nat
    BY <1>6
  <2>4. kept'[i] = (IF kept[i].chunk = o.chunk THEN Idle ELSE kept[i])
    BY <2>2 DEF Bare
  <2>5. kept'[j] = (IF kept[j].chunk = o.chunk THEN Idle ELSE kept[j])
    BY <2>2 DEF Bare
  <2>6. kept[i].chunk # RingOn(file)
    BY <2>1, <2>4
  <2>7. CASE kept[j] = Idle
    BY <2>5, <2>7
  <2>8. CASE kept[j] # Idle
    <3>1. Standing(kept, i) /\ Standing(kept, j)
      BY <2>8 DEF Standing
    <3>2. Dist(kept[j].chunk, RingOn(file), NChunks) < Dist(kept[i].chunk, RingOn(file), NChunks)
      BY <1>6, <3>1 DEF InOrder
    <3>3. kept[i] \in Pen /\ kept[j] \in Pen
      BY <1>6
    <3>4. kept[i].chunk \in Chunk /\ kept[j].chunk \in Chunk /\ RingOn(file) \in Chunk
      BY <1>6, <3>3, PenTypes, PlacesTyped
    <3>5. kept[j].chunk # RingOn(file)
      <4>1. /\ Dist(kept[i].chunk, RingOn(file), NChunks) \in 1 .. NChunks
            /\ Dist(kept[j].chunk, RingOn(file), NChunks) \in 1 .. NChunks
            /\ Dist(kept[j].chunk, RingOn(file), NChunks) = NChunks <=> kept[j].chunk = RingOn(file)
            /\ NChunks \in Nat
        BY <3>4, ChunkDist
      <4>2. QED
        BY <3>2, <4>1
    <3>6. QED
      BY <2>1, <2>5, <3>5
  <2>9. QED
    BY <2>7, <2>8
<1>9. CASE o.op = "finished"
  <2>1. kept' = Append(kept, o.seg)
    BY <1>7, <1>9, DiskFields DEF Does
  <2>2. QED
    BY <1>6, <2>1
<1>10. CASE o.op \notin {"taken", "finished"}
  BY <1>7, <1>10, DiskFields DEF Does
<1>11. QED
  BY <1>8, <1>9, <1>10

(***************************************************************************)
(* rsdk_alloc_chunk gives up the oldest finished segment first, also after *)
(* crashes and power cuts that leave an old superblock on the disk.        *)
(***************************************************************************)
THEOREM OldestIsTaken ==
  ASSUME LongRing, NoTear, OneWriter, WideIndex
  PROVE  Spec => OldestFirst
<1> DEFINE A == \A i, j \in 1 .. Len(kept) :
                  i < j /\ kept[i] # Idle /\ kept'[i] # Idle => kept'[j] = kept[j]
<1>1. Init => NInv /\ KInv
  BY NInit, KInit
<1>2. NInv /\ KInv /\ [Next]_vars => NInv' /\ KInv'
  BY NNext, KNext
<1>3. NInv /\ KInv /\ [Next]_vars => [A]_vars
  <2> SUFFICES ASSUME NInv, KInv, [Next]_vars, NEW i \in 1 .. Len(kept), NEW j \in 1 .. Len(kept),
                      i < j, kept[i] # Idle, kept'[i] # Idle
               PROVE  kept'[j] = kept[j]
    OBVIOUS
  <2>1. CASE DiskStep
    BY <2>1, TakesOldest
  <2>2. CASE ~DiskStep
    <3>1. kept' = kept
      BY <2>2 DEF Next, vars, OpenWriter, CloseWriter, FirstFrame, NextFrame, RollFrame, Kill, PowerCut,
                  Down, Mount
    <3>2. QED
      BY <3>1
  <2>3. QED
    BY <2>1, <2>2
<1>4. QED
  BY <1>1, <1>2, <1>3, PTL DEF Spec, OldestFirst
=============================================================================
