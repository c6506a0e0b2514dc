-------------------------- MODULE NopRecord_proofs --------------------------
(***************************************************************************)
(* Proofs about NopRecord: for any lengths, any sizes of the ring and of   *)
(* the index and any clock, every file can be decoded by itself, a clip is *)
(* open only while its trigger is recent, and the files are those listed.  *)
(*                                                                         *)
(* A file is a run of frames that begins with a key frame (Run); the open  *)
(* one ends with the frame that arrived last, so that the next continues   *)
(* it.  The pre-record ring may have a gap, but none after a key frame     *)
(* (NoGap): a clip that opens without the ring leaves it as it is, and     *)
(* only because it then holds no key frame is no later pre-roll broken.    *)
(***************************************************************************)
EXTENDS NopRecord, SequenceTheorems, FiniteSetTheorems, NaturalsInduction, TLAPS

Entry == [start : Nat, end : Nat, mask : SUBSET Types, first : Nat]

\* ns are consecutive frames of fr, the first of them a key frame.
Run(ns, fr) ==
  /\ ns \in Seq(1 .. Len(fr)) /\ ns # <<>>
  /\ fr[ns[1]].key
  /\ \A i \in 1 .. Len(ns) : ns[i] = ns[1] + i - 1

\* From a key frame on, p holds every frame to the last that arrived.
NoGap(p, fr) ==
  /\ p \in Seq(1 .. Len(fr))
  /\ \A i \in 1 .. Len(p) : fr[p[i]].key =>
       \A j \in i .. Len(p) : p[j] = Len(fr) - Len(p) + j
NoKey(p, fr) == \A i \in 1 .. Len(p) : ~fr[p[i]].key

-----------------------------------------------------------------------------
(* Runs of frames. *)

LEMMA SeqWider ==
  ASSUME NEW S, NEW T, S \subseteq T, NEW q \in Seq(S)
  PROVE  q \in Seq(T)
OBVIOUS

LEMMA RunGrows ==
  ASSUME NEW fr \in Seq(Frame), NEW f \in Frame, NEW ns, Run(ns, fr)
  PROVE  Run(ns, Append(fr, f))
<1>1. /\ Len(Append(fr, f)) = Len(fr) + 1
      /\ \A i \in 1 .. Len(fr) : Append(fr, f)[i] = fr[i]
  OBVIOUS
<1>2. ns \in Seq(1 .. Len(fr)) /\ ns # <<>> /\ Len(fr) \in Nat
  BY DEF Run
<1>3. ns \in Seq(1 .. Len(fr) + 1)
  <2>1. 1 .. Len(fr) \subseteq 1 .. Len(fr) + 1
    BY <1>2
  <2> QED
    BY <1>2, <2>1, SMT
<1>4. ns[1] \in 1 .. Len(fr)
  BY <1>2
<1> QED
  BY <1>1, <1>2, <1>3, <1>4 DEF Run

LEMMA RunContinues ==
  ASSUME NEW fr \in Seq(Frame), NEW f \in Frame, NEW ns, Run(ns, fr),
         ns[Len(ns)] = Len(fr)
  PROVE  /\ Run(ns \o <<Len(fr) + 1>>, Append(fr, f))
         /\ (ns \o <<Len(fr) + 1>>)[1] = ns[1]
         /\ (ns \o <<Len(fr) + 1>>)[Len(ns \o <<Len(fr) + 1>>)] = Len(fr) + 1
<1> DEFINE l == ns \o <<Len(fr) + 1>>
<1>1. Run(ns, Append(fr, f)) /\ Len(Append(fr, f)) = Len(fr) + 1 /\ Len(fr) \in Nat
  BY RunGrows
<1>2. ns \in Seq(1 .. Len(fr) + 1) /\ ns # <<>> /\ Len(ns) \in Nat \ {0}
  BY <1>1 DEF Run
<1>3. <<Len(fr) + 1>> \in Seq(1 .. Len(fr) + 1)
  BY <1>1
<1>4. /\ l \in Seq(1 .. Len(fr) + 1) /\ Len(l) = Len(ns) + 1
      /\ \A i \in 1 .. Len(ns) : l[i] = ns[i]
      /\ l[Len(ns) + 1] = Len(fr) + 1
  BY <1>1, <1>2, <1>3
<1>5. \A i \in 1 .. Len(ns) : ns[i] = ns[1] + i - 1
  BY <1>1 DEF Run
<1>6. ns[1] \in Int /\ ns[Len(ns)] = ns[1] + Len(ns) - 1
  <2>1. 1 \in 1 .. Len(ns) /\ Len(ns) \in 1 .. Len(ns)
    BY <1>2
  <2>2. ns[1] \in 1 .. Len(fr) + 1
    BY <1>2, <2>1
  <2> QED
    BY <1>1, <1>5, <2>1, <2>2
<1>7. \A i \in 1 .. Len(l) : l[i] = l[1] + i - 1
  <2>1. l[1] = ns[1] /\ l[Len(l)] = ns[1] + Len(ns)
    <3>1. 1 \in 1 .. Len(ns) /\ Len(fr) = ns[1] + Len(ns) - 1
      BY <1>2, <1>6
    <3>2. l[1] = ns[1] /\ l[Len(l)] = Len(fr) + 1
      BY <1>4, <3>1
    <3> QED
      BY <1>2, <1>6, <3>1, <3>2
  <2> HIDE DEF l
  <2>2. ASSUME NEW i \in 1 .. Len(l)
        PROVE  l[i] = l[1] + i - 1
    <3>1. CASE i = Len(l)
      BY <1>2, <1>4, <1>6, <2>1, <3>1
    <3>2. CASE i # Len(l)
      <4>1. i \in 1 .. Len(ns)
        BY <1>2, <1>4, <3>2
      <4> QED
        BY <1>4, <1>5, <2>1, <4>1
    <3> QED
      BY <3>1, <3>2
  <2> QED
    BY <2>2
<1>8. /\ l # <<>> /\ l[1] = ns[1] /\ l[Len(l)] = Len(fr) + 1
      /\ Append(fr, f)[l[1]].key
  BY <1>1, <1>2, <1>4 DEF Run
<1> QED
  BY <1>1, <1>4, <1>7, <1>8 DEF Run

LEMMA RunOfOne ==
  ASSUME NEW fr \in Seq(Frame), NEW f \in Frame, f.key
  PROVE  Run(<<Len(fr) + 1>>, Append(fr, f))
<1>1. Len(Append(fr, f)) = Len(fr) + 1 /\ Append(fr, f)[Len(fr) + 1] = f /\ Len(fr) \in Nat
  OBVIOUS
<1>2. <<Len(fr) + 1>> \in Seq(1 .. Len(fr) + 1) /\ <<Len(fr) + 1>> # <<>>
  BY <1>1
<1> QED
  BY <1>1, <1>2 DEF Run

LEMMA RunOrder ==
  ASSUME NEW fr \in Seq(Frame), NEW ns, Run(ns, fr)
  PROVE  /\ Len(ns) \in Nat \ {0} /\ ns \in Seq(Nat)
         /\ ns[1] \in 1 .. Len(fr) /\ ns[Len(ns)] \in 1 .. Len(fr)
         /\ ns[1] <= ns[Len(ns)]
<1>1. ns \in Seq(1 .. Len(fr)) /\ ns # <<>> /\ Len(ns) \in Nat \ {0} /\ Len(fr) \in Nat
  BY DEF Run
<1>2. ns[1] \in 1 .. Len(fr) /\ ns[Len(ns)] \in 1 .. Len(fr)
  BY <1>1
<1>3. ns[Len(ns)] = ns[1] + Len(ns) - 1
  BY <1>1 DEF Run
<1>4. ns \in Seq(Nat)
  BY <1>1, SMT
<1> QED
  BY <1>1, <1>2, <1>3, <1>4

-----------------------------------------------------------------------------
(* The pre-record ring. *)

\* q is p with n added and, when p held cap elements, without its first.
Shifted(q, p, n, S, cap) ==
  \E d \in {0, 1} :
    /\ q \in Seq(S) /\ Len(q) = Len(p) + 1 - d /\ d <= Len(p)
    /\ \A i \in 1 .. Len(p) - d : q[i] = p[i + d]
    /\ q[Len(p) + 1 - d] = n /\ Len(q) <= cap
    /\ d = IF Len(p) = cap THEN 1 ELSE 0

LEMMA ShiftIn ==
  ASSUME NEW S, NEW p \in Seq(S), NEW n \in S, NEW cap \in Nat \ {0}, Len(p) <= cap
  PROVE  Shifted(Append(IF Len(p) = cap THEN Tail(p) ELSE p, n), p, n, S, cap)
<1> DEFINE q == Append(IF Len(p) = cap THEN Tail(p) ELSE p, n)
<1>1. Len(p) \in Nat
  OBVIOUS
<1>2. CASE Len(p) = cap
  <2>1. q = Append(Tail(p), n)
    BY <1>2
  <2>2. p # <<>> /\ Len(p) \in Nat \ {0}
    BY <1>1, <1>2
  <2>3. /\ Tail(p) \in Seq(S) /\ Len(Tail(p)) = Len(p) - 1
        /\ \A i \in 1 .. Len(p) - 1 : Tail(p)[i] = p[i + 1]
    BY <2>2
  <2>4. /\ q \in Seq(S) /\ Len(q) = Len(p) /\ q[Len(p)] = n
        /\ \A i \in 1 .. Len(p) - 1 : q[i] = Tail(p)[i]
    <3> DEFINE w == Tail(p)
    <3>1. w \in Seq(S) /\ q = Append(w, n) /\ Len(w) = Len(p) - 1
      BY <2>1, <2>3
    <3> HIDE DEF w, q
    <3>2. /\ q \in Seq(S) /\ Len(q) = Len(w) + 1 /\ q[Len(w) + 1] = n
          /\ \A i \in 1 .. Len(w) : q[i] = w[i]
      BY <3>1
    <3>3. Len(w) + 1 = Len(p)
      BY <2>2, <3>1
    <3> QED
      BY <3>1, <3>2, <3>3 DEF w
  <2> HIDE DEF q
  <2>5. /\ q \in Seq(S) /\ Len(q) = Len(p) + 1 - 1 /\ 1 <= Len(p)
        /\ \A i \in 1 .. Len(p) - 1 : q[i] = p[i + 1]
        /\ q[Len(p) + 1 - 1] = n /\ Len(q) <= cap
    BY <1>1, <1>2, <2>2, <2>3, <2>4
  <2>6. Shifted(q, p, n, S, cap)
    BY <1>2, <2>5 DEF Shifted
  <2> QED
    BY <2>6 DEF q
<1>3. CASE Len(p) # cap
  <2>1. q = Append(p, n)
    BY <1>3
  <2>2. /\ q \in Seq(S) /\ Len(q) = Len(p) + 1 /\ q[Len(p) + 1] = n
        /\ \A i \in 1 .. Len(p) : q[i] = p[i]
    BY <2>1
  <2> HIDE DEF q
  <2>3. /\ q \in Seq(S) /\ Len(q) = Len(p) + 1 - 0 /\ 0 <= Len(p)
        /\ \A i \in 1 .. Len(p) - 0 : q[i] = p[i + 0]
        /\ q[Len(p) + 1 - 0] = n /\ Len(q) <= cap
    BY <1>1, <1>3, <2>2
  <2>4. Shifted(q, p, n, S, cap)
    BY <1>3, <2>3 DEF Shifted
  <2> QED
    BY <2>4 DEF q
<1> QED
  BY <1>2, <1>3

LEMMA NoGapAfterPush ==
  ASSUME RecordAssumption, NEW fr \in Seq(Frame), NEW f \in Frame,
         NoGap(pre, fr), Len(pre) <= PreCap, Push(Len(fr) + 1)
  PROVE  /\ NoGap(pre', Append(fr, f)) /\ Len(pre') <= PreCap
         /\ \A i \in 1 .. Len(pre') : \/ pre'[i] = Len(fr) + 1
                                      \/ \E j \in 1 .. Len(pre) : pre'[i] = pre[j]
         /\ (NoKey(pre, fr) /\ ~f.key => NoKey(pre', Append(fr, f)))
<1> DEFINE g == Append(fr, f)
           n == Len(fr) + 1
<1>1. /\ Len(g) = n /\ Len(fr) \in Nat /\ g[n] = f
      /\ \A i \in 1 .. Len(fr) : g[i] = fr[i]
  OBVIOUS
<1>2. pre \in Seq(1 .. Len(fr)) /\ Len(pre) \in Nat /\ PreCap \in Nat
  BY DEF NoGap, RecordAssumption
<1>3. pre \in Seq(1 .. n) /\ \A i \in 1 .. Len(pre) : pre[i] \in 1 .. Len(fr)
  <2>1. 1 .. Len(fr) \subseteq 1 .. n
    BY <1>1
  <2>2. pre \in Seq(1 .. n)
    BY <1>2, <2>1, SMT
  <2> QED
    BY <1>2, <2>2
<1>4. \A i \in 1 .. Len(pre) : fr[pre[i]].key =>
        \A j \in i .. Len(pre) : pre[j] = Len(fr) - Len(pre) + j
  BY DEF NoGap
<1>5. CASE PreCap = 0
  <2>1. pre' = pre /\ Len(pre) = 0
    BY <1>2, <1>5 DEF Push
  <2> QED
    BY <1>1, <1>3, <1>5, <2>1 DEF NoGap, NoKey
<1>6. CASE PreCap # 0
  <2>1. PICK d \in {0, 1} :
          /\ pre' \in Seq(1 .. n) /\ Len(pre') = Len(pre) + 1 - d /\ d <= Len(pre)
          /\ \A i \in 1 .. Len(pre) - d : pre'[i] = pre[i + d]
          /\ pre'[Len(pre) + 1 - d] = n /\ Len(pre') <= PreCap
    <3>1. pre' = Append(IF Len(pre) = PreCap THEN Tail(pre) ELSE pre, n)
      BY <1>6 DEF Push
    <3>2. n \in 1 .. n /\ PreCap \in Nat \ {0}
      BY <1>1, <1>2, <1>6
    <3> HIDE DEF n
    <3>3. Shifted(pre', pre, n, 1 .. n, PreCap)
      BY <1>3, <3>1, <3>2, ShiftIn, Zenon
    <3> QED
      BY <3>3 DEF Shifted
  <2> HIDE DEF n, g
  <2> DEFINE p == pre'
             m == Len(pre)
  <2>0. /\ d \in Nat /\ m \in Nat /\ d <= m /\ Len(p) = m + 1 - d
        /\ \A i \in 1 .. m - d : p[i] = pre[i + d]
        /\ p[m + 1 - d] = n
    BY <1>2, <2>1
  <2> HIDE DEF p, m
  <2>5. ASSUME NEW i \in 1 .. Len(p)
        PROVE  p[i] = n \/ \E j \in 1 .. m : p[i] = pre[j]
    <3>1. CASE i = m + 1 - d
      BY <2>0, <3>1
    <3>2. CASE i # m + 1 - d
      <4>1. i \in 1 .. m - d /\ i + d \in 1 .. m
        BY <2>0, <3>2
      <4> QED
        BY <2>0, <4>1
    <3> QED
      BY <3>1, <3>2
  <2>2. \A i \in 1 .. Len(pre') : pre'[i] = n \/ \E j \in 1 .. Len(pre) : pre'[i] = pre[j]
    BY <2>5 DEF p, m
  <2>3. \A i \in 1 .. Len(pre') : g[pre'[i]].key =>
          \A j \in i .. Len(pre') : pre'[j] = Len(g) - Len(pre') + j
    <3> SUFFICES ASSUME NEW i \in 1 .. Len(p), g[p[i]].key, NEW j \in i .. Len(p)
                 PROVE  p[j] = Len(g) - Len(p) + j
      BY DEF p
    <3>0. n = Len(fr) + 1 /\ n = Len(g) /\ Len(fr) \in Nat
      BY <1>1 DEF n
    <3>1. CASE j = m + 1 - d
      BY <2>0, <3>0, <3>1
    <3>2. CASE j # m + 1 - d
      <4>1. i \in 1 .. m - d /\ j \in 1 .. m - d
        BY <2>0, <3>2
      <4>2. p[i] = pre[i + d] /\ p[j] = pre[j + d]
        BY <2>0, <4>1
      <4>3. i + d \in 1 .. m /\ j + d \in (i + d) .. m
        BY <2>0, <4>1
      <4>4. fr[pre[i + d]].key
        <5>1. p[i] \in 1 .. Len(fr)
          BY <1>3, <4>2, <4>3 DEF m
        <5>2. g[p[i]] = fr[p[i]]
          BY <1>1, <5>1 DEF g
        <5> QED
          BY <4>2, <5>2
      <4>5. pre[j + d] = Len(fr) - m + (j + d)
        BY <1>4, <4>3, <4>4 DEF m
      <4> QED
        <5>1. /\ i \in Nat /\ j \in Nat /\ Len(g) = Len(fr) + 1 /\ Len(p) = m + 1 - d
              /\ p[j] = Len(fr) - m + (j + d)
          BY <2>0, <3>0, <4>1, <4>2, <4>5
        <5> HIDE DEF g
        <5> QED
          BY <2>0, <3>0, <5>1
    <3> QED
      BY <3>1, <3>2
  <2>4. ASSUME NoKey(pre, fr), ~f.key
        PROVE  NoKey(pre', g)
    BY <1>1, <1>3, <2>2, <2>4, ZenonT(60) DEF NoKey
  <2>6. NoGap(pre', g)
    BY <1>1, <2>1, <2>3 DEF NoGap, n, g
  <2> QED
    BY <2>1, <2>2, <2>4, <2>6 DEF n, g
<1> QED
  BY <1>5, <1>6

LEMMA NoKeyStays ==
  ASSUME NEW fr \in Seq(Frame), NEW f \in Frame, NEW p, NoGap(p, fr), NoKey(p, fr)
  PROVE  NoGap(p, Append(fr, f)) /\ NoKey(p, Append(fr, f))
<1>1. /\ Len(Append(fr, f)) = Len(fr) + 1 /\ Len(fr) \in Nat
      /\ \A i \in 1 .. Len(fr) : Append(fr, f)[i] = fr[i]
  OBVIOUS
<1>2. p \in Seq(1 .. Len(fr))
  BY DEF NoGap
<1>3. p \in Seq(1 .. Len(fr) + 1)
  <2>1. 1 .. Len(fr) \subseteq 1 .. Len(fr) + 1
    BY <1>1
  <2> QED
    BY <1>2, <2>1, SMT
<1>4. \A i \in 1 .. Len(p) : p[i] \in 1 .. Len(fr)
  BY <1>2
<1>5. NoKey(p, Append(fr, f))
  BY <1>1, <1>4 DEF NoKey
<1> QED
  BY <1>1, <1>3, <1>5 DEF NoGap, NoKey

\* The frames a clip begins with: from the first key frame of the ring.
LEMMA PrerollRun ==
  ASSUME frames \in Seq(Frame), NoGap(pre, frames), KeysBefore # {}
  PROVE  /\ Run(FromKey, frames) /\ FromKey[Len(FromKey)] = Len(frames)
         /\ Head(FromKey) = FromKey[1]
         /\ \E k \in KeysBefore : FromKey[1] = pre[k]
<1>1. pre \in Seq(1 .. Len(frames)) /\ Len(pre) \in Nat /\ Len(frames) \in Nat
  BY DEF NoGap
<1>2. KeysBefore = {i \in 1 .. Len(pre) : frames[pre[i]].key} /\ KeysBefore \subseteq Nat
  BY <1>1 DEF KeysBefore
<1>3. \E i \in KeysBefore : \A j \in KeysBefore : i <= j
  <2>1. PICK i \in KeysBefore :
          \A j \in KeysBefore : <<j, i>> \notin OpToRel(<, Nat)
    BY <1>2, WFMin, NatLessThanWellFounded
  <2>2. \A j \in KeysBefore : ~(j < i)
    BY <1>2, <2>1 DEF OpToRel
  <2>3. \A j \in KeysBefore : i <= j
    BY <1>2, <2>2
  <2> QED
    BY <2>3
<1> DEFINE k == CHOOSE i \in KeysBefore : \A j \in KeysBefore : i <= j
<1>4. k \in KeysBefore
  BY <1>3
<1> HIDE DEF k
<1>5. k \in 1 .. Len(pre) /\ frames[pre[k]].key
  BY <1>2, <1>4
<1>6. FromKey = SubSeq(pre, k, Len(pre))
  BY DEF FromKey, k
<1>7. /\ FromKey \in Seq(1 .. Len(frames)) /\ Len(FromKey) = Len(pre) - k + 1
      /\ \A i \in 1 .. Len(pre) - k + 1 : FromKey[i] = pre[k + i - 1]
  BY <1>1, <1>5, <1>6, SubSeqProperties
<1>8. \A j \in k .. Len(pre) : pre[j] = Len(frames) - Len(pre) + j
  BY <1>5 DEF NoGap
<1>9. FromKey # <<>> /\ Len(FromKey) \in Nat \ {0}
  BY <1>1, <1>5, <1>7
<1>10. \A i \in 1 .. Len(FromKey) : FromKey[i] = Len(frames) - Len(pre) + (k + i - 1)
  BY <1>1, <1>5, <1>7, <1>8
<1>11. FromKey[1] = pre[k] /\ FromKey[1] = Len(frames) - Len(pre) + k
  BY <1>1, <1>5, <1>7, <1>8
<1>12. FromKey[Len(FromKey)] = Len(frames)
  <2>1. Len(FromKey) \in 1 .. Len(FromKey)
    BY <1>9
  <2>2. FromKey[Len(FromKey)] = Len(frames) - Len(pre) + (k + Len(FromKey) - 1)
    BY <1>10, <2>1
  <2>3. Len(FromKey) = Len(pre) - k + 1 /\ k \in Nat
    BY <1>5, <1>7
  <2> HIDE DEF FromKey
  <2> QED
    BY <1>1, <2>2, <2>3
<1>13. \A i \in 1 .. Len(FromKey) : FromKey[i] = FromKey[1] + i - 1
  BY <1>1, <1>5, <1>10, <1>11
<1>14. Head(FromKey) = FromKey[1]
  BY <1>7, <1>9
<1> QED
  BY <1>4, <1>5, <1>7, <1>9, <1>11, <1>12, <1>13, <1>14 DEF Run
-----------------------------------------------------------------------------
(* The files: what creating, writing and removing one leaves. *)

Files(fs, fr) ==
  /\ fs = [s \in DOMAIN fs |-> fs[s]] /\ DOMAIN fs \subseteq Nat
  /\ \A s \in DOMAIN fs : Run(fs[s], fr)

\* g is fs with ns in the file s.
Holding(g, fs, s, ns) ==
  /\ DOMAIN g = DOMAIN fs \cup {s} /\ g[s] = ns
  /\ \A t \in DOMAIN fs \ {s} : g[t] = fs[t]
  /\ g = [t \in DOMAIN g |-> g[t]]

LEMMA CreatedFile ==
  ASSUME NEW fs, NEW s, NEW ns \in Seq(Nat)
  PROVE  Holding(Appended(Created(fs, s), s, ns), fs, s, ns)
<1> DEFINE c == Created(fs, s)
           g == Appended(c, s, ns)
<1>1. /\ DOMAIN c = DOMAIN fs \cup {s} /\ c[s] = <<>>
      /\ \A t \in DOMAIN fs \ {s} : c[t] = fs[t]
  BY DEF Created
<1> HIDE DEF c
<1>2. g = [t \in DOMAIN c |-> IF t = s THEN c[s] \o ns ELSE c[t]]
  BY DEF Appended
<1>3. DOMAIN g = DOMAIN fs \cup {s} /\ g = [t \in DOMAIN g |-> g[t]]
  BY <1>1, <1>2
<1>4. <<>> \o ns = ns
  OBVIOUS
<1>5. g[s] = ns /\ \A t \in DOMAIN fs \ {s} : g[t] = fs[t]
  BY <1>1, <1>2, <1>4
<1> QED
  BY <1>3, <1>5 DEF c, Holding

LEMMA WrittenFile ==
  ASSUME NEW fs, NEW s \in DOMAIN fs, NEW ns
  PROVE  Holding(Appended(fs, s, ns), fs, s, fs[s] \o ns)
BY DEF Appended, Holding

\* A new file, and one more frame in the open file, are runs again.
LEMMA FilesAfterOpen ==
  ASSUME NEW fs, NEW fr \in Seq(Frame), NEW s \in Nat, NEW ns, Files(fs, fr), Run(ns, fr)
  PROVE  Files(Appended(Created(fs, s), s, ns), fr)
<1> DEFINE g == Appended(Created(fs, s), s, ns)
<1>1. ns \in Seq(Nat)
  BY RunOrder
<1>2. Holding(g, fs, s, ns)
  BY <1>1, CreatedFile, Zenon
<1> HIDE DEF g
<1>3. Files(g, fr)
  BY <1>2 DEF Files, Holding
<1> QED
  BY <1>3 DEF g

LEMMA FilesAfterWrite ==
  ASSUME NEW fs, NEW fr \in Seq(Frame), NEW f \in Frame, NEW s \in DOMAIN fs,
         Files(fs, fr), fs[s][Len(fs[s])] = Len(fr)
  PROVE  LET g == Appended(fs, s, <<Len(fr) + 1>>) IN
         /\ Files(g, Append(fr, f)) /\ s \in DOMAIN g
         /\ g[s][1] = fs[s][1] /\ g[s][Len(g[s])] = Len(fr) + 1
<1> DEFINE g == Appended(fs, s, <<Len(fr) + 1>>)
<1>1. Holding(g, fs, s, fs[s] \o <<Len(fr) + 1>>)
  BY WrittenFile, Zenon
<1> HIDE DEF g
<1>2. \A t \in DOMAIN fs : Run(fs[t], fr) /\ Run(fs[t], Append(fr, f))
  BY RunGrows DEF Files
<1>3. /\ Run(g[s], Append(fr, f)) /\ g[s][1] = fs[s][1]
      /\ g[s][Len(g[s])] = Len(fr) + 1
  <2>1. g[s] = fs[s] \o <<Len(fr) + 1>>
    BY <1>1 DEF Holding
  <2>2. Run(fs[s], fr)
    BY <1>2
  <2> QED
    BY <2>1, <2>2, RunContinues
<1>4. Files(g, Append(fr, f))
  BY <1>1, <1>2, <1>3 DEF Files, Holding
<1> QED
  BY <1>1, <1>3, <1>4 DEF g, Holding

LEMMA FilesGrow ==
  ASSUME NEW fs, NEW fr \in Seq(Frame), NEW f \in Frame, Files(fs, fr)
  PROVE  Files(fs, Append(fr, f))
BY RunGrows DEF Files

LEMMA FilesWithout ==
  ASSUME NEW fs, NEW fr, NEW s, Files(fs, fr)
  PROVE  Files(Without(fs, s), fr)
BY DEF Files, Without

LEMMA FilesReclaimed ==
  ASSUME NEW fs, NEW fr, Files(fs, fr)
  PROVE  Files(Reclaim(fs), fr)
BY FilesWithout DEF Reclaim

-----------------------------------------------------------------------------
(* The index: the order of the segments it lists. *)

EndOf(fs, s) == fs[s][Len(fs[s])]

\* The listed segments follow each other, and each is in a file of its own.
Chain(idx, fs) ==
  \A i \in 1 .. Len(idx) :
    /\ idx[i].start \in DOMAIN fs
    /\ fs[idx[i].start][1] = idx[i].first
    /\ \A j \in i + 1 .. Len(idx) :
         EndOf(fs, idx[i].start) < idx[j].first /\ idx[i].start < idx[j].start

\* The listed segments came before frame n, and have names before the time t.
Past(idx, fs, n, t) ==
  \A i \in 1 .. Len(idx) : EndOf(fs, idx[i].start) < n /\ idx[i].start < t

Names(idx) == {idx[i].start : i \in 1 .. Len(idx)}

\* What record_index_add_locked makes of an index.
Added(idx, e) == Append(IF Len(idx) = MaxSegments THEN Tail(idx) ELSE idx, e)
Dropped(idx, fs) == IF Len(idx) = MaxSegments THEN Without(fs, idx[1].start) ELSE fs

LEMMA EntryTyped ==
  ASSUME NEW idx \in Seq(Entry), NEW i \in 1 .. Len(idx)
  PROVE  idx[i] \in Entry /\ idx[i].start \in Nat /\ idx[i].first \in Nat
<1>1. idx[i] \in Entry
  OBVIOUS
<1> QED
  BY <1>1 DEF Entry

\* The file s is in g, and after all that idx lists.
LastInFiles(g, idx, fs, s) ==
  /\ Chain(idx, g) /\ Past(idx, g, g[s][1], s) /\ s \in DOMAIN g
  /\ DOMAIN fs = Names(idx) => DOMAIN g = Names(idx) \cup {s}

LEMMA ChainOpens ==
  ASSUME NEW idx \in Seq(Entry), NEW fs, NEW s \in Nat, NEW ns \in Seq(Nat),
         Chain(idx, fs), Past(idx, fs, ns[1], s)
  PROVE  LastInFiles(Appended(Created(fs, s), s, ns), idx, fs, s)
<1> DEFINE g == Appended(Created(fs, s), s, ns)
<1>0. Holding(g, fs, s, ns)
  BY CreatedFile, Zenon
<1> HIDE DEF g
<1>1. /\ DOMAIN g = DOMAIN fs \cup {s} /\ g[s] = ns
      /\ \A t \in DOMAIN fs \ {s} : g[t] = fs[t]
  BY <1>0 DEF Holding
<1>2. \A i \in 1 .. Len(idx) : idx[i].start \in Nat /\ idx[i].start < s /\ idx[i].start \in DOMAIN fs
  BY EntryTyped DEF Chain, Past
<1>3. \A i \in 1 .. Len(idx) : idx[i].start \in DOMAIN g /\ g[idx[i].start] = fs[idx[i].start]
  BY <1>1, <1>2
<1>4. Chain(idx, g)
  BY <1>3 DEF Chain, EndOf
<1>5. Past(idx, g, g[s][1], s)
  BY <1>1, <1>3 DEF Past, EndOf
<1> QED
  BY <1>1, <1>4, <1>5 DEF g, LastInFiles

LEMMA ChainWrites ==
  ASSUME NEW idx \in Seq(Entry), NEW fs, NEW s \in Nat, NEW g, NEW a,
         Chain(idx, fs), Past(idx, fs, a, s),
         DOMAIN g = DOMAIN fs, \A t \in DOMAIN fs \ {s} : g[t] = fs[t]
  PROVE  Chain(idx, g) /\ Past(idx, g, a, s)
<1>2. \A i \in 1 .. Len(idx) : idx[i].start \in Nat /\ idx[i].start < s /\ idx[i].start \in DOMAIN fs
  BY EntryTyped DEF Chain, Past
<1>3. \A i \in 1 .. Len(idx) : idx[i].start \in DOMAIN g /\ g[idx[i].start] = fs[idx[i].start]
  BY <1>2
<1> QED
  BY <1>3 DEF Chain, Past, EndOf

\* What a segment leaves when it is closed: it is the last in the index, and
\* before whatever comes after its end.
Closing(idx, fs, e) ==
  /\ idx \in Seq(Entry) /\ Len(idx) <= MaxSegments /\ e \in Entry
  /\ Chain(idx, fs) /\ Past(idx, fs, e.first, e.start)
  /\ e.start \in DOMAIN fs /\ fs[e.start][1] = e.first /\ e.first <= EndOf(fs, e.start)
  /\ \A s \in DOMAIN fs : EndOf(fs, s) \in Nat

Closed(a, d, idx, fs, e) ==
  /\ a \in Seq(Entry) /\ Len(a) <= MaxSegments
  /\ Chain(a, d)
  /\ \A n \in Nat, t \in Nat :
       EndOf(fs, e.start) < n /\ e.start < t => Past(a, d, n, t)
  /\ \A i \in 1 .. Len(a) : a[i].start <= e.start
  /\ DOMAIN fs = Names(idx) \cup {e.start} => DOMAIN d = Names(a)

LEMMA ChainCloses ==
  ASSUME RecordAssumption, NEW idx, NEW fs, NEW e, Closing(idx, fs, e)
  PROVE  Closed(Added(idx, e), Dropped(idx, fs), idx, fs, e)
<1> DEFINE a == Added(idx, e)
           d == Dropped(idx, fs)
<1>1. /\ idx \in Seq(Entry) /\ Len(idx) <= MaxSegments /\ e \in Entry /\ Len(idx) \in Nat
      /\ e.start \in Nat /\ e.first \in Nat /\ MaxSegments \in Nat \ {0}
  BY DEF Closing, Entry, RecordAssumption
<1>2. Shifted(a, idx, e, Entry, MaxSegments)
  BY <1>1, ShiftIn, Zenon DEF Added
<1> HIDE DEF a
<1>3. PICK c \in {0, 1} :
        /\ a \in Seq(Entry) /\ Len(a) = Len(idx) + 1 - c /\ c <= Len(idx)
        /\ \A i \in 1 .. Len(idx) - c : a[i] = idx[i + c]
        /\ a[Len(idx) + 1 - c] = e /\ Len(a) <= MaxSegments
        /\ c = IF Len(idx) = MaxSegments THEN 1 ELSE 0
  BY <1>2 DEF Shifted
<1>0. c \in Nat /\ c <= 1 /\ c <= Len(idx) /\ Len(idx) \in Nat /\ Len(a) = Len(idx) + 1 - c
  BY <1>1, <1>3
<1> DEFINE Kept == {t \in DOMAIN fs : c = 1 => t # idx[1].start}
<1>4. DOMAIN d = Kept /\ \A t \in Kept : d[t] = fs[t]
  BY <1>1, <1>3 DEF Dropped, Without
<1> HIDE DEF d, Kept
<1>5. \A i \in 1 .. Len(idx) :
        /\ idx[i].start \in Nat /\ idx[i].first \in Nat
        /\ idx[i].start \in DOMAIN fs /\ fs[idx[i].start][1] = idx[i].first
        /\ EndOf(fs, idx[i].start) \in Nat
        /\ EndOf(fs, idx[i].start) < e.first /\ idx[i].start < e.start
        /\ \A j \in i + 1 .. Len(idx) :
             EndOf(fs, idx[i].start) < idx[j].first /\ idx[i].start < idx[j].start
  BY <1>1, EntryTyped DEF Closing, Chain, Past
<1>6. /\ e.start \in DOMAIN fs /\ fs[e.start][1] = e.first /\ e.first <= EndOf(fs, e.start)
      /\ EndOf(fs, e.start) \in Nat
  BY DEF Closing
<1>7. \A i \in 1 .. Len(idx) - c : i + c \in 1 .. Len(idx) /\ idx[i + c].start \in Kept
  <2>1. ASSUME NEW i \in 1 .. Len(idx) - c
        PROVE  i + c \in 1 .. Len(idx) /\ idx[i + c].start \in Kept
    <3>1. i + c \in 1 .. Len(idx) /\ (c = 1 => 1 \in 1 .. Len(idx) /\ i + c \in 1 + 1 .. Len(idx))
      BY <1>0
    <3>2. c = 1 => idx[1].start # idx[i + c].start
      BY <1>5, <3>1
    <3> QED
      BY <1>5, <3>1, <3>2 DEF Kept
  <2> QED
    BY <2>1
<1>8. e.start \in Kept
  <2>1. c = 1 => 1 \in 1 .. Len(idx)
    BY <1>0
  <2>2. c = 1 => idx[1].start \in Nat /\ idx[1].start < e.start
    BY <1>5, <2>1
  <2> QED
    BY <1>1, <1>6, <2>2 DEF Kept
<1>9. ASSUME NEW i \in 1 .. Len(a)
      PROVE  \/ i \in 1 .. Len(idx) - c /\ a[i] = idx[i + c] /\ i + c \in 1 .. Len(idx)
             \/ i = Len(idx) + 1 - c /\ a[i] = e
  <2>1. CASE i = Len(idx) + 1 - c
    BY <1>3, <2>1
  <2>2. CASE i # Len(idx) + 1 - c
    <3>1. i \in 1 .. Len(idx) - c /\ i + c \in 1 .. Len(idx)
      BY <1>0, <2>2
    <3> QED
      BY <1>3, <3>1
  <2> QED
    BY <2>1, <2>2
<1>10. ASSUME NEW i \in 1 .. Len(a)
       PROVE  /\ a[i].start \in DOMAIN d /\ d[a[i].start] = fs[a[i].start]
              /\ fs[a[i].start][1] = a[i].first
              /\ a[i].start <= e.start /\ EndOf(fs, a[i].start) <= EndOf(fs, e.start)
              /\ a[i].start \in Nat /\ EndOf(fs, a[i].start) \in Nat
  <2>1. CASE a[i] = e
    BY <1>1, <1>4, <1>6, <1>8, <2>1
  <2>2. CASE i \in 1 .. Len(idx) - c /\ a[i] = idx[i + c] /\ i + c \in 1 .. Len(idx)
    <3>1. a[i].start \in Kept
      BY <1>7, <2>2
    <3>2. /\ a[i].start \in Nat /\ fs[a[i].start][1] = a[i].first
          /\ EndOf(fs, a[i].start) \in Nat
          /\ EndOf(fs, a[i].start) < e.first /\ a[i].start < e.start
      BY <1>5, <2>2
    <3> QED
      BY <1>1, <1>4, <1>6, <3>1, <3>2, SMTT(30)
  <2> QED
    BY <1>9, <2>1, <2>2
<1>11. ASSUME NEW i \in 1 .. Len(a), NEW j \in i + 1 .. Len(a)
       PROVE  EndOf(fs, a[i].start) < a[j].first /\ a[i].start < a[j].start
  <2>0. j \in 1 .. Len(a) /\ i < j /\ i \in Nat /\ j \in Nat /\ c \in Nat
    BY <1>1, <1>3
  <2>1. i \in 1 .. Len(idx) - c /\ a[i] = idx[i + c] /\ i + c \in 1 .. Len(idx)
    BY <1>1, <1>3, <1>9, <2>0
  <2>2. CASE a[j] = e
    BY <1>5, <2>1, <2>2
  <2>3. CASE j \in 1 .. Len(idx) - c /\ a[j] = idx[j + c] /\ j + c \in 1 .. Len(idx)
    <3>1. j + c \in (i + c) + 1 .. Len(idx)
      BY <1>1, <2>0, <2>1, <2>3, SMTT(30)
    <3> QED
      BY <1>5, <2>1, <2>3, <3>1
  <2> QED
    BY <1>9, <2>0, <2>2, <2>3
<1>12. Chain(a, d)
  BY <1>10, <1>11 DEF Chain, EndOf
<1>13. \A n \in Nat, t \in Nat :
         EndOf(fs, e.start) < n /\ e.start < t => Past(a, d, n, t)
  <2>1. \A i \in 1 .. Len(a) : EndOf(d, a[i].start) = EndOf(fs, a[i].start)
    BY <1>10 DEF EndOf
  <2>2. ASSUME NEW n \in Nat, NEW t \in Nat, EndOf(fs, e.start) < n, e.start < t, NEW i \in 1 .. Len(a)
        PROVE  EndOf(d, a[i].start) < n /\ a[i].start < t
    <3>1. /\ a[i].start \in Nat /\ a[i].start <= e.start
          /\ EndOf(fs, a[i].start) \in Nat /\ EndOf(fs, a[i].start) <= EndOf(fs, e.start)
      BY <1>10
    <3>2. e.start \in Nat /\ EndOf(fs, e.start) \in Nat
      BY <1>1, <1>6
    <3>3. EndOf(fs, a[i].start) < n
      BY <2>2, <3>1, <3>2
    <3>4. a[i].start < t
      BY <2>2, <3>1, <3>2
    <3> QED
      BY <2>1, <3>3, <3>4
  <2> QED
    BY <2>2 DEF Past
<1>14. ASSUME DOMAIN fs = Names(idx) \cup {e.start}
       PROVE  DOMAIN d = Names(a)
  <2>1. Names(a) \subseteq Kept
    BY <1>4, <1>10 DEF Names
  <2>2. ASSUME NEW t \in Kept PROVE t \in Names(a)
    <3>1. CASE t = e.start
      <4>1. Len(idx) + 1 - c \in 1 .. Len(a)
        BY <1>1, <1>3
      <4> QED
        BY <1>3, <3>1, <4>1 DEF Names
    <3>2. CASE t # e.start
      <4>1. PICK i \in 1 .. Len(idx) : t = idx[i].start /\ (c = 1 => t # idx[1].start)
        BY <1>14, <2>2, <3>2 DEF Names, Kept
      <4>2. i - c \in 1 .. Len(idx) - c /\ (i - c) + c = i /\ i - c \in 1 .. Len(a)
        <5>1. c = 1 => i # 1
          BY <4>1
        <5> QED
          BY <1>1, <1>3, <5>1
      <4>3. a[i - c] = idx[i]
        BY <1>3, <4>2
      <4> QED
        BY <4>1, <4>2, <4>3 DEF Names
    <3> QED
      BY <3>1, <3>2
  <2> QED
    BY <1>4, <2>1, <2>2
<1>15. Closed(a, d, idx, fs, e)
  BY <1>3, <1>10, <1>12, <1>13, <1>14 DEF Closed
<1> QED
  BY <1>15 DEF a, d

-----------------------------------------------------------------------------
(* The inductive invariant. *)

Typed ==
  /\ mode \in {"continuous", "event"}
  /\ frames \in Seq(Frame) /\ Len(frames) <= MaxFrames
  /\ lastTs \in Nat /\ restarts \in 0 .. MaxRestarts
  /\ seg \in [open : BOOLEAN, start : Nat, last : Nat, mask : SUBSET Types]
  /\ clip \in [recording : BOOLEAN, trigger : Nat, pending : BOOLEAN, mask : SUBSET Types]
  /\ index \in Seq(Entry) /\ Len(index) <= MaxSegments

\* One thing at a time: a clip is the open segment of event mode.
Modes ==
  /\ mode = "event" => seg.open = clip.recording
  /\ mode = "continuous" => pre = <<>> /\ clip = NoClip
  /\ clip.pending = (clip.mask # {})
  /\ clip.pending => ~clip.recording
  /\ clip.recording => Elapsed(lastTs, clip.trigger) < PostLen

\* A ring that a clip left behind, or that a trigger waits for, has no key frame.
Ring ==
  /\ NoGap(pre, frames) /\ Len(pre) <= PreCap
  /\ seg.open \/ clip.pending => NoKey(pre, frames)

\* The next frame continues the open file.
Disk ==
  /\ Files(file, frames)
  /\ seg.open => seg.start \in DOMAIN file /\ EndOf(file, seg.start) = Len(frames)

Newest(fr) == IF fr = <<>> THEN 0 ELSE fr[Len(fr)].ts

\* A clip that begins in the ring comes after what is listed.
KeysPast ==
  \A k \in 1 .. Len(pre) : frames[pre[k]].key =>
    /\ Past(index, file, pre[k], frames[pre[k]].ts)
    /\ frames[pre[k]].ts <= lastTs

\* What comes next, a frame or the ring's key frames, comes after what is listed.
Tidy ==
  /\ lastTs = Newest(frames)
  /\ Chain(index, file)
  /\ DOMAIN file = Names(index) \cup (IF seg.open THEN {seg.start} ELSE {})
  /\ seg.open => Past(index, file, file[seg.start][1], seg.start) /\ seg.start <= lastTs
  /\ ~seg.open => Past(index, file, Len(frames) + 1, lastTs)
  /\ KeysPast
  /\ clip.recording => seg.start <= clip.trigger /\ clip.trigger <= lastTs

Order == ClockForward /\ restarts = 0 => Tidy

IInv == Typed /\ Modes /\ Ring /\ Disk /\ Order

-----------------------------------------------------------------------------
(* Times. *)

LEMMA TimesBounded ==
  ASSUME NEW fr \in Seq(Frame)
  PROVE  \E b \in Nat : \A i \in 1 .. Len(fr) : fr[i].ts <= b
<1>1. Len(fr) \in Nat /\ \A i \in 1 .. Len(fr) : fr[i].ts \in Nat
  <2>1. \A i \in 1 .. Len(fr) : fr[i] \in Frame
    OBVIOUS
  <2> QED
    BY <2>1 DEF Frame
<1> DEFINE NoBound == {k \in 0 .. Len(fr) : ~\E b \in Nat : \A i \in 1 .. k : fr[i].ts <= b}
<1>2. NoBound = {}
  <2>1. SUFFICES ASSUME NoBound # {} PROVE FALSE
    OBVIOUS
  <2>2. PICK k \in NoBound : \A m \in NoBound : ~(m < k)
    <3>1. NoBound \subseteq Nat
      OBVIOUS
    <3>2. PICK k \in NoBound : \A m \in NoBound : <<m, k>> \notin OpToRel(<, Nat)
      BY <2>1, <3>1, NatLessThanWellFounded, WFMin, Zenon
    <3> QED
      BY <3>1, <3>2 DEF OpToRel
  <2>3. k # 0
    <3>1. \A i \in 1 .. 0 : fr[i].ts <= 0
      OBVIOUS
    <3> QED
      BY <2>2, <3>1
  <2>4. k \in 1 .. Len(fr) /\ k - 1 \in 0 .. Len(fr) /\ k - 1 < k
    BY <1>1, <2>2, <2>3
  <2>5. PICK b \in Nat : \A i \in 1 .. k - 1 : fr[i].ts <= b
    BY <2>2, <2>4
  <2> HIDE DEF NoBound
  <2>6. PICK t \in Nat : t = fr[k].ts
    BY <1>1, <2>4
  <2>7. PICK c \in Nat : c = b + t
    BY <2>5, <2>6
  <2>8. ASSUME NEW i \in 1 .. k PROVE fr[i].ts <= c
    <3>1. CASE i = k
      BY <2>5, <2>6, <2>7, <3>1
    <3>2. CASE i # k
      <4>1. i \in 1 .. k - 1 /\ i \in 1 .. Len(fr)
        BY <2>4, <3>2
      <4>2. fr[i].ts <= b /\ fr[i].ts \in Nat
        BY <1>1, <2>5, <4>1
      <4> QED
        BY <2>5, <2>6, <2>7, <4>2
    <3> QED
      BY <3>1, <3>2
  <2> QED
    BY <2>2, <2>7, <2>8 DEF NoBound
<1>3. Len(fr) \in 0 .. Len(fr)
  BY <1>1
<1>4. Len(fr) \notin NoBound
  BY <1>2
<1> QED
  BY <1>3, <1>4

LEMMA LatestInNat ==
  ASSUME NEW start \in Nat, NEW fr \in Seq(Frame), NEW ns \in Seq(1 .. Len(fr))
  PROVE  Max({start} \cup {fr[n].ts : n \in Range(ns)}) \in Nat
<1> DEFINE T == {start} \cup {fr[n].ts : n \in Range(ns)}
<1>1. Range(ns) \subseteq 1 .. Len(fr)
  BY DEF Range
<1>2. \A i \in 1 .. Len(fr) : fr[i].ts \in Nat
  <2>1. \A i \in 1 .. Len(fr) : fr[i] \in Frame
    OBVIOUS
  <2> QED
    BY <2>1 DEF Frame
<1>3. T \subseteq Nat /\ start \in T
  BY <1>1, <1>2
<1>4. PICK b \in Nat : \A i \in 1 .. Len(fr) : fr[i].ts <= b
  BY TimesBounded
<1>5. b + start \in Nat /\ \A t \in T : t <= b + start
  BY <1>1, <1>2, <1>4
<1> HIDE DEF T
<1> DEFINE U == {u \in Nat : \A t \in T : t <= u}
<1>6. U # {} /\ U \subseteq Nat
  BY <1>5
<1>7. PICK u \in U : \A v \in U : ~(v < u)
  <2>1. PICK u \in U : \A v \in U : <<v, u>> \notin OpToRel(<, Nat)
    BY <1>6, NatLessThanWellFounded, WFMin, Zenon
  <2> QED
    BY <1>6, <2>1 DEF OpToRel
<1>8. u \in T
  <2>1. SUFFICES ASSUME u \notin T PROVE FALSE
    OBVIOUS
  <2>2. u \in Nat /\ \A t \in T : t < u
    BY <1>3, <2>1
  <2>3. u - 1 \in Nat /\ \A t \in T : t <= u - 1
    BY <1>3, <2>2
  <2> QED
    BY <1>7, <2>2, <2>3
<1>9. \E x \in T : \A y \in T : x >= y
  BY <1>3, <1>8
<1>10. Max(T) \in T
  BY <1>9 DEF Max
<1> QED
  BY <1>3, <1>10 DEF T

-----------------------------------------------------------------------------
(* A frame arrives. *)

LEMMA ArriveFacts ==
  ASSUME RecordAssumption, Typed, NEW f \in Frame, Arrive(f)
  PROVE  /\ frames' = Append(frames, f) /\ frames' \in Seq(Frame) /\ Len(frames) \in Nat
         /\ Len(frames') = Len(frames) + 1 /\ Len(frames') <= MaxFrames
         /\ This = Len(frames) + 1
         /\ frames'[Len(frames) + 1] = f /\ \A i \in 1 .. Len(frames) : frames'[i] = frames[i]
         /\ lastTs' = f.ts /\ f.ts \in Nat /\ f.key \in BOOLEAN
         /\ mode' = mode /\ restarts' = restarts
         /\ Newest(frames') = f.ts
<1>1. frames \in Seq(Frame) /\ Len(frames) < MaxFrames /\ MaxFrames \in Nat
  BY DEF Typed, Arrive, RecordAssumption
<1>2. frames' = Append(frames, f) /\ lastTs' = f.ts /\ mode' = mode /\ restarts' = restarts
  BY DEF Arrive
<1>3. /\ frames' \in Seq(Frame) /\ Len(frames) \in Nat /\ Len(frames') = Len(frames) + 1
      /\ frames'[Len(frames) + 1] = f /\ \A i \in 1 .. Len(frames) : frames'[i] = frames[i]
      /\ frames' # <<>>
  BY <1>1, <1>2
<1>4. f.ts \in Nat /\ f.key \in BOOLEAN
  BY DEF Frame
<1> QED
  BY <1>1, <1>2, <1>3, <1>4 DEF This, Newest

\* While the clock goes forward the new frame is not older than the last.
LEMMA ClockStep ==
  ASSUME RecordAssumption, Typed, Order, NEW f \in Frame, Arrive(f), ClockForward', restarts' = 0
  PROVE  Tidy /\ lastTs <= f.ts
<1>1. /\ Len(frames) \in Nat /\ Len(frames') = Len(frames) + 1 /\ f.ts \in Nat
      /\ frames'[Len(frames) + 1] = f /\ \A i \in 1 .. Len(frames) : frames'[i] = frames[i]
      /\ restarts' = restarts
  BY ArriveFacts
<1>2. \A i \in 1 .. Len(frames) : frames'[i].ts <= frames'[i + 1].ts
  BY <1>1 DEF ClockForward
<1>3. ClockForward
  BY <1>1, <1>2 DEF ClockForward
<1>4. Tidy
  BY <1>1, <1>3 DEF Order
<1>5. lastTs = Newest(frames)
  BY <1>4 DEF Tidy
<1>6. CASE frames = <<>>
  BY <1>1, <1>4, <1>5, <1>6 DEF Newest
<1>7. CASE frames # <<>>
  <2>1. Len(frames) \in 1 .. Len(frames)
    BY <1>1, <1>7 DEF Typed
  <2> QED
    BY <1>1, <1>2, <1>4, <1>5, <1>7, <2>1 DEF Newest
<1> QED
  BY <1>4, <1>6, <1>7

LEMMA EndTyped ==
  ASSUME NEW fs, NEW fr \in Seq(Frame), Files(fs, fr), NEW s \in DOMAIN fs
  PROVE  /\ EndOf(fs, s) \in 1 .. Len(fr) /\ EndOf(fs, s) \in Nat
         /\ fs[s][1] \in 1 .. Len(fr) /\ fs[s][1] \in Nat
         /\ fs[s][1] <= EndOf(fs, s) /\ s \in Nat
<1>1. Run(fs[s], fr) /\ s \in Nat
  BY DEF Files
<1>2. Len(fr) \in Nat
  OBVIOUS
<1> QED
  BY <1>1, <1>2, RunOrder DEF EndOf

LEMMA PastLater ==
  ASSUME NEW idx \in Seq(Entry), NEW fs, NEW fr \in Seq(Frame), Files(fs, fr), Chain(idx, fs),
         NEW n \in Nat, NEW t \in Nat, NEW m \in Nat, NEW u \in Nat,
         n <= m, t <= u, Past(idx, fs, n, t)
  PROVE  Past(idx, fs, m, u)
<1>1. ASSUME NEW i \in 1 .. Len(idx)
      PROVE  EndOf(fs, idx[i].start) < m /\ idx[i].start < u
  <2>1. idx[i].start \in Nat /\ idx[i].start \in DOMAIN fs
    BY EntryTyped DEF Chain
  <2>2. EndOf(fs, idx[i].start) \in Nat
    BY <2>1, EndTyped
  <2>3. EndOf(fs, idx[i].start) < n /\ idx[i].start < t
    BY DEF Past
  <2> QED
    BY <2>1, <2>2, <2>3
<1> QED
  BY <1>1 DEF Past

\* A ring without a key frame stays as it is while frames go to a file.
LEMMA RingKeeps ==
  ASSUME RecordAssumption, Typed, Ring, NEW f \in Frame, Arrive(f), NoKey(pre, frames), pre' = pre
  PROVE  Ring' /\ NoKey(pre', frames')
<1>1. NoGap(pre', frames') /\ NoKey(pre', frames')
  <2>1. frames \in Seq(Frame) /\ NoGap(pre, frames) /\ frames' = Append(frames, f)
    BY ArriveFacts DEF Ring, Typed
  <2> QED
    BY <2>1, NoKeyStays
<1> QED
  BY <1>1 DEF Ring

LEMMA NoKeyNothingPast ==
  ASSUME NoKey(pre', frames')
  PROVE  KeysPast'
BY DEF NoKey, KeysPast

-----------------------------------------------------------------------------
(* What the steps do to the files and to the order of the segments. *)

\* No segment is open and the frame goes to none.
LEMMA WaitStep ==
  ASSUME RecordAssumption, IInv, NEW f \in Frame, Arrive(f),
         ~seg.open, ~clip'.recording, UNCHANGED <<seg, index, file>>,
         NoKey(pre', frames') \/ (Tidy /\ lastTs <= f.ts => KeysPast')
  PROVE  Disk' /\ Order'
<1>1. /\ frames' = Append(frames, f) /\ frames \in Seq(Frame) /\ Len(frames) \in Nat
      /\ Len(frames') = Len(frames) + 1 /\ lastTs' = f.ts /\ f.ts \in Nat
      /\ Newest(frames') = f.ts /\ index \in Seq(Entry) /\ lastTs \in Nat
  BY ArriveFacts DEF IInv, Typed
<1>2. Files(file, frames) /\ Files(file', frames')
  BY <1>1, FilesGrow DEF IInv, Disk
<1>3. Disk'
  BY <1>2 DEF Disk
<1>4. ASSUME ClockForward', restarts' = 0
      PROVE  Tidy'
  <2>1. Tidy /\ lastTs <= f.ts
    BY <1>4, ClockStep DEF IInv
  <2>2. Past(index, file, Len(frames) + 1, lastTs) /\ Chain(index, file)
    BY <2>1 DEF Tidy
  <2>3. Past(index, file, Len(frames) + 2, f.ts)
    BY <1>1, <1>2, <2>1, <2>2, PastLater
  <2>4. KeysPast'
    BY <2>1, NoKeyNothingPast
  <2>5. Len(frames') + 1 = Len(frames) + 2
    BY <1>1
  <2>6. Past(index', file', Len(frames') + 1, lastTs')
    BY <1>1, <2>3, <2>5
  <2>7. DOMAIN file' = Names(index') \cup (IF seg'.open THEN {seg'.start} ELSE {})
    BY <2>1 DEF Tidy
  <2> QED
    BY <1>1, <2>2, <2>4, <2>6, <2>7 DEF Tidy
<1>5. Order'
  BY <1>4 DEF Order
<1> QED
  BY <1>3, <1>5

\* The frame goes to the open file.
LEMMA WriteStep ==
  ASSUME RecordAssumption, IInv, NEW f \in Frame, Arrive(f),
         seg.open, Write(This), UNCHANGED index,
         clip'.recording => clip.recording /\ clip'.trigger = clip.trigger,
         NoKey(pre', frames')
  PROVE  Disk' /\ Order' /\ seg' = [seg EXCEPT !.last = Later(seg.last, f.ts)]
<1>1. /\ frames' = Append(frames, f) /\ frames \in Seq(Frame) /\ Len(frames) \in Nat
      /\ Len(frames') = Len(frames) + 1 /\ lastTs' = f.ts /\ f.ts \in Nat
      /\ Newest(frames') = f.ts /\ index \in Seq(Entry) /\ lastTs \in Nat
      /\ This = Len(frames) + 1 /\ frames'[This] = f
  BY ArriveFacts DEF IInv, Typed
<1>2. /\ Files(file, frames) /\ seg.start \in DOMAIN file /\ EndOf(file, seg.start) = Len(frames)
      /\ seg.start \in Nat
  BY DEF IInv, Disk, Typed
<1>3. file' = Appended(file, seg.start, <<Len(frames) + 1>>)
  BY <1>1 DEF Write
<1>4. /\ Files(file', frames') /\ seg.start \in DOMAIN file'
      /\ file'[seg.start][1] = file[seg.start][1]
      /\ EndOf(file', seg.start) = Len(frames) + 1
  BY <1>1, <1>2, <1>3, FilesAfterWrite, SMTT(30) DEF EndOf
<1>5. seg' = [seg EXCEPT !.last = Later(seg.last, f.ts)] /\ seg'.open /\ seg'.start = seg.start
  BY <1>1 DEF Write, IInv, Typed
<1>6. Disk'
  BY <1>1, <1>4, <1>5 DEF Disk
<1>7. ASSUME ClockForward', restarts' = 0
      PROVE  Tidy'
  <2>1. Tidy /\ lastTs <= f.ts
    BY <1>7, ClockStep DEF IInv
  <2>2. /\ Past(index, file, file[seg.start][1], seg.start) /\ Chain(index, file)
        /\ seg.start <= lastTs /\ DOMAIN file = Names(index) \cup {seg.start}
    BY <2>1 DEF Tidy
  <2>3. Holding(file', file, seg.start, file[seg.start] \o <<Len(frames) + 1>>)
    BY <1>2, <1>3, WrittenFile
  <2>4. DOMAIN file' = DOMAIN file /\ \A t \in DOMAIN file \ {seg.start} : file'[t] = file[t]
    BY <1>2, <2>3 DEF Holding
  <2>5. Chain(index, file') /\ Past(index, file', file[seg.start][1], seg.start)
    BY <1>1, <1>2, <2>2, <2>4, ChainWrites
  <2>6. KeysPast'
    BY NoKeyNothingPast
  <2>7. seg'.start <= lastTs'
    BY <1>1, <1>2, <1>5, <2>1, <2>2
  <2>8. clip'.recording => seg'.start <= clip'.trigger /\ clip'.trigger <= lastTs'
    <3>1. clip.trigger \in Nat
      BY DEF IInv, Typed
    <3>2. clip.recording => seg.start <= clip.trigger /\ clip.trigger <= lastTs
      BY <2>1 DEF Tidy
    <3> QED
      BY <1>1, <1>2, <1>5, <2>1, <3>1, <3>2
  <2> QED
    BY <1>1, <1>4, <1>5, <2>2, <2>4, <2>5, <2>6, <2>7, <2>8 DEF Tidy
<1>8. Order'
  BY <1>7 DEF Order
<1> QED
  BY <1>5, <1>6, <1>8

LEMMA OpenTyped ==
  ASSUME Typed, NEW fs, NEW start \in Nat, NEW ns, NEW mask \in SUBSET Types,
         frames' \in Seq(Frame), Run(ns, frames'), Open(fs, start, ns, mask)
  PROVE  /\ seg' \in [open : BOOLEAN, start : Nat, last : Nat, mask : SUBSET Types]
         /\ seg'.open /\ seg'.start = start
         /\ file' = Appended(Created(fs, start), start, ns)
<1>1. Max({start} \cup {frames'[n].ts : n \in Range(ns)}) \in Nat
  BY LatestInNat DEF Run
<1>2. seg' = [open |-> TRUE, start |-> start, mask |-> mask,
              last |-> Max({start} \cup {frames'[n].ts : n \in Range(ns)})]
  BY DEF Open
<1> QED
  BY <1>1, <1>2 DEF Open

\* A segment opens with the frame, after the files of fs that idx lists.
LEMMA OpenStep ==
  ASSUME RecordAssumption, Typed, NEW f \in Frame, Arrive(f), f.key,
         NEW fs, NEW mask \in SUBSET Types, Files(fs, frames),
         Open(fs, f.ts, <<This>>, mask),
         index' \in Seq(Entry), NoKey(pre', frames'),
         clip'.recording => clip'.trigger = f.ts
  PROVE  /\ seg' \in [open : BOOLEAN, start : Nat, last : Nat, mask : SUBSET Types]
         /\ seg'.open /\ Disk'
         /\ (Chain(index', fs) /\ Past(index', fs, Len(frames) + 1, f.ts)
              /\ DOMAIN fs = Names(index') => Tidy')
<1>1. /\ frames' = Append(frames, f) /\ frames \in Seq(Frame) /\ Len(frames) \in Nat
      /\ Len(frames') = Len(frames) + 1 /\ lastTs' = f.ts /\ f.ts \in Nat
      /\ Newest(frames') = f.ts /\ frames' \in Seq(Frame) /\ This = Len(frames) + 1
  BY ArriveFacts DEF Typed
<1> DEFINE ns == <<Len(frames) + 1>>
<1>2. Run(ns, frames') /\ ns \in Seq(Nat) /\ ns[1] = Len(frames) + 1 /\ Len(ns) = 1
  BY <1>1, RunOfOne
<1>3. Open(fs, f.ts, ns, mask)
  BY <1>1
<1> HIDE DEF ns
<1>4. /\ seg' \in [open : BOOLEAN, start : Nat, last : Nat, mask : SUBSET Types]
      /\ seg'.open /\ seg'.start = f.ts
      /\ file' = Appended(Created(fs, f.ts), f.ts, ns)
  BY <1>1, <1>2, <1>3, OpenTyped
<1>5. Holding(file', fs, f.ts, ns)
  BY <1>2, <1>4, CreatedFile
<1>6. Files(fs, frames')
  BY <1>1, FilesGrow
<1>7. Files(file', frames')
  BY <1>1, <1>2, <1>4, <1>6, FilesAfterOpen
<1>8. /\ f.ts \in DOMAIN file' /\ file'[f.ts][1] = Len(frames) + 1
      /\ EndOf(file', f.ts) = Len(frames')
  BY <1>1, <1>2, <1>5 DEF Holding, EndOf
<1>9. Disk'
  BY <1>4, <1>7, <1>8 DEF Disk
<1>10. ASSUME Chain(index', fs), Past(index', fs, Len(frames) + 1, f.ts),
              DOMAIN fs = Names(index')
       PROVE  Tidy'
  <2>1. Past(index', fs, ns[1], f.ts)
    BY <1>2, <1>10
  <2>2. /\ Chain(index', file') /\ Past(index', file', file'[f.ts][1], f.ts)
        /\ DOMAIN file' = Names(index') \cup {f.ts}
    <3>1. LastInFiles(file', index', fs, f.ts)
      BY <1>1, <1>2, <1>4, <1>10, <2>1, ChainOpens
    <3> QED
      BY <1>10, <3>1 DEF LastInFiles
  <2>3. KeysPast'
    BY NoKeyNothingPast
  <2> QED
    BY <1>1, <1>4, <2>2, <2>3 DEF Tidy
<1> QED
  BY <1>4, <1>9, <1>10

\* The open segment becomes the last of the index; fs are the files then.
LEMMA CloseStep ==
  ASSUME RecordAssumption, Typed, seg.open, NEW fs, NEW fr \in Seq(Frame), Files(fs, fr),
         NEW end \in Nat, seg.start \in DOMAIN fs, fs[seg.start][1] = file[seg.start][1],
         index' = Listed(end)
  PROVE  /\ index' \in Seq(Entry) /\ Len(index') <= MaxSegments
         /\ Files(Reclaim(fs), fr)
         /\ (Chain(index, fs) /\ Past(index, fs, file[seg.start][1], seg.start)
              /\ DOMAIN fs = Names(index) \cup {seg.start} =>
              /\ Chain(index', Reclaim(fs)) /\ DOMAIN Reclaim(fs) = Names(index')
              /\ \A n \in Nat, t \in Nat : EndOf(fs, seg.start) < n /\ seg.start < t =>
                   Past(index', Reclaim(fs), n, t))
<1> DEFINE e == [start |-> seg.start, end |-> end, mask |-> seg.mask, first |-> file[seg.start][1]]
<1>1. /\ seg.start \in Nat /\ seg.mask \in SUBSET Types /\ file[seg.start][1] \in Nat
      /\ file[seg.start][1] <= EndOf(fs, seg.start)
  BY EndTyped DEF Typed
<1>2. e \in Entry /\ e.start = seg.start /\ e.first = file[seg.start][1]
  BY <1>1 DEF Entry
<1>3. index' = Added(index, e) /\ Reclaim(fs) = Dropped(index, fs)
  BY DEF Listed, Added, Reclaim, Dropped
<1> HIDE DEF e
<1>4. /\ index \in Seq(Entry) /\ Len(index) <= MaxSegments /\ MaxSegments \in Nat \ {0}
  BY DEF Typed, RecordAssumption
<1>5. Shifted(index', index, e, Entry, MaxSegments)
  BY <1>2, <1>3, <1>4, ShiftIn, Zenon DEF Added
<1>6. index' \in Seq(Entry) /\ Len(index') <= MaxSegments
  BY <1>5 DEF Shifted
<1>7. Files(Reclaim(fs), fr)
  BY FilesReclaimed
<1>8. ASSUME Chain(index, fs), Past(index, fs, file[seg.start][1], seg.start),
             DOMAIN fs = Names(index) \cup {seg.start}
      PROVE  /\ Chain(index', Reclaim(fs)) /\ DOMAIN Reclaim(fs) = Names(index')
             /\ \A n \in Nat, t \in Nat : EndOf(fs, seg.start) < n /\ seg.start < t =>
                  Past(index', Reclaim(fs), n, t)
  <2>1. \A s \in DOMAIN fs : EndOf(fs, s) \in Nat
    BY EndTyped
  <2>2. Closing(index, fs, e)
    BY <1>1, <1>2, <1>4, <1>8, <2>1 DEF Closing
  <2>3. Closed(index', Reclaim(fs), index, fs, e)
    BY <1>3, <2>2, ChainCloses
  <2> QED
    BY <1>2, <1>8, <2>3 DEF Closed
<1> QED
  BY <1>6, <1>7, <1>8

\* What a closed index and its files amount to when no segment opens.
LEMMA ClosedStep ==
  ASSUME Typed, frames' \in Seq(Frame), Len(frames') \in Nat, lastTs' \in Nat,
         lastTs' = Newest(frames'), ~seg'.open, ~clip'.recording, NoKey(pre', frames'),
         Files(file', frames')
  PROVE  /\ Disk'
         /\ (Chain(index', file') /\ DOMAIN file' = Names(index')
              /\ Past(index', file', Len(frames') + 1, lastTs') => Tidy')
<1>1. KeysPast'
  BY NoKeyNothingPast
<1> QED
  BY <1>1 DEF Disk, Tidy

-----------------------------------------------------------------------------
(* The invariant holds at first, and every step keeps it. *)

LEMMA InitInv ==
  ASSUME RecordAssumption, Init
  PROVE  IInv
<1>1. Typed
  <2>1. NoSegment \in [open : BOOLEAN, start : Nat, last : Nat, mask : SUBSET Types]
    BY DEF NoSegment
  <2>2. NoClip \in [recording : BOOLEAN, trigger : Nat, pending : BOOLEAN, mask : SUBSET Types]
    BY DEF NoClip
  <2> QED
    BY <2>1, <2>2 DEF Init, Typed, RecordAssumption
<1>2. Modes
  BY DEF Init, Modes, NoClip, NoSegment
<1>3. Ring
  BY DEF Init, Ring, NoClip, NoSegment, NoGap, NoKey, RecordAssumption
<1>4. Disk
  BY DEF Init, Disk, Files, NoSegment
<1>5. Tidy
  <2>1. Names(index) = {} /\ DOMAIN file = {}
    BY DEF Init, Names
  <2>2. /\ Chain(index, file) /\ KeysPast
        /\ Past(index, file, Len(frames) + 1, lastTs)
    BY DEF Init, Chain, KeysPast, Past
  <2> QED
    BY <2>1, <2>2 DEF Init, Tidy, Newest, NoClip, NoSegment
<1> QED
  BY <1>1, <1>2, <1>3, <1>4, <1>5 DEF IInv, Order

LEMMA FrameTyped ==
  ASSUME RecordAssumption, Typed, NEW f \in Frame, Arrive(f),
         seg' \in [open : BOOLEAN, start : Nat, last : Nat, mask : SUBSET Types],
         clip' \in [recording : BOOLEAN, trigger : Nat, pending : BOOLEAN, mask : SUBSET Types],
         index' \in Seq(Entry), Len(index') <= MaxSegments
  PROVE  Typed'
<1>1. /\ frames' \in Seq(Frame) /\ Len(frames') <= MaxFrames /\ lastTs' \in Nat
      /\ mode' = mode /\ restarts' = restarts
  BY ArriveFacts
<1> QED
  BY <1>1 DEF Typed

LEMMA SegFrame ==
  ASSUME Typed, NEW f \in Frame
  PROVE  /\ Later(seg.last, f.ts) \in Nat
         /\ [seg EXCEPT !.last = Later(seg.last, f.ts)]
              \in [open : BOOLEAN, start : Nat, last : Nat, mask : SUBSET Types]
         /\ [seg EXCEPT !.open = FALSE]
              \in [open : BOOLEAN, start : Nat, last : Nat, mask : SUBSET Types]
         /\ [seg EXCEPT !.open = FALSE, !.last = Later(seg.last, f.ts)]
              \in [open : BOOLEAN, start : Nat, last : Nat, mask : SUBSET Types]
<1>1. f.ts \in Nat
  BY DEF Frame
<1> QED
  BY <1>1 DEF Typed, Later

LEMMA ContinuousFrameStep ==
  ASSUME RecordAssumption, IInv, NEW f \in Frame, ContinuousFrame(f)
  PROVE  IInv'
<1>1. /\ Arrive(f) /\ mode = "continuous" /\ pre' = pre /\ clip' = clip
      /\ pre = <<>> /\ clip = NoClip /\ ~clip'.recording
  BY DEF ContinuousFrame, IInv, Modes, NoClip
<1>2. NoKey(pre, frames)
  BY <1>1 DEF NoKey
<1>3. Ring' /\ NoKey(pre', frames')
  BY <1>1, <1>2, RingKeeps DEF IInv
<1>4. Typed /\ clip' \in [recording : BOOLEAN, trigger : Nat, pending : BOOLEAN, mask : SUBSET Types]
  BY <1>1 DEF IInv, Typed
<1>5. /\ lastTs' = f.ts /\ f.ts \in Nat /\ frames' \in Seq(Frame) /\ Len(frames') \in Nat
      /\ Len(frames') = Len(frames) + 1 /\ Len(frames) \in Nat /\ mode' = mode
      /\ frames' = Append(frames, f) /\ frames \in Seq(Frame) /\ Newest(frames') = f.ts
      /\ seg.start \in Nat /\ seg.last \in Nat /\ {} \in SUBSET Types
  BY <1>1, <1>4, ArriveFacts DEF Typed
<1>6. Modes'
  BY <1>1, <1>5 DEF Modes, NoClip
<1>7. Files(file, frames)
  BY DEF IInv, Disk
<1>8. /\ seg.open => seg.start \in DOMAIN file /\ EndOf(file, seg.start) = Len(frames)
      /\ index \in Seq(Entry) /\ Len(index) <= MaxSegments
  BY <1>4 DEF IInv, Disk, Typed
<1>9. ASSUME seg' \in [open : BOOLEAN, start : Nat, last : Nat, mask : SUBSET Types],
             index' \in Seq(Entry), Len(index') <= MaxSegments, Disk', Order'
      PROVE  IInv'
  <2>1. Typed'
    BY <1>1, <1>4, <1>9, FrameTyped
  <2> QED
    BY <1>3, <1>6, <1>9, <2>1 DEF IInv
<1>10. CASE seg.open /\ ~Rotates(f) /\ Write(This) /\ UNCHANGED index
  <2>1. Disk' /\ Order' /\ seg' = [seg EXCEPT !.last = Later(seg.last, f.ts)]
    BY <1>1, <1>3, <1>10, WriteStep
  <2> QED
    BY <1>4, <1>8, <1>9, <1>10, <2>1, SegFrame
<1>11. ASSUME Rotates(f), index' = Listed(seg.last)
       PROVE  /\ index' \in Seq(Entry) /\ Len(index') <= MaxSegments
              /\ Files(Reclaim(file), frames)
              /\ (Tidy /\ lastTs <= f.ts =>
                   /\ Chain(index', Reclaim(file)) /\ DOMAIN Reclaim(file) = Names(index')
                   /\ Past(index', Reclaim(file), Len(frames) + 1, f.ts))
  <2>1. seg.open /\ Elapsed(f.ts, seg.start) >= SegmentLen
    BY <1>11 DEF Rotates
  <2>2. /\ index' \in Seq(Entry) /\ Len(index') <= MaxSegments
        /\ Files(Reclaim(file), frames)
        /\ (Chain(index, file) /\ Past(index, file, file[seg.start][1], seg.start)
             /\ DOMAIN file = Names(index) \cup {seg.start} =>
             /\ Chain(index', Reclaim(file)) /\ DOMAIN Reclaim(file) = Names(index')
             /\ \A n \in Nat, t \in Nat : EndOf(file, seg.start) < n /\ seg.start < t =>
                  Past(index', Reclaim(file), n, t))
    BY <1>4, <1>5, <1>7, <1>8, <1>11, <2>1, CloseStep
  <2>3. ASSUME Tidy
        PROVE  /\ Chain(index, file) /\ Past(index, file, file[seg.start][1], seg.start)
               /\ DOMAIN file = Names(index) \cup {seg.start}
    BY <2>1, <2>3 DEF Tidy
  <2>4. seg.start < f.ts
    BY <1>5, <2>1 DEF Elapsed, RecordAssumption
  <2>5. EndOf(file, seg.start) < Len(frames) + 1 /\ Len(frames) + 1 \in Nat
    BY <1>5, <1>8, <2>1
  <2> QED
    BY <1>5, <2>2, <2>3, <2>4, <2>5
<1>12. CASE Rotates(f) /\ Open(Reclaim(file), f.ts, <<This>>, {}) /\ index' = Listed(seg.last)
  <2>1. /\ index' \in Seq(Entry) /\ Len(index') <= MaxSegments
        /\ Files(Reclaim(file), frames) /\ f.key
    BY <1>11, <1>12 DEF Rotates
  <2>2. /\ seg' \in [open : BOOLEAN, start : Nat, last : Nat, mask : SUBSET Types]
        /\ seg'.open /\ Disk'
        /\ (Chain(index', Reclaim(file)) /\ Past(index', Reclaim(file), Len(frames) + 1, f.ts)
             /\ DOMAIN Reclaim(file) = Names(index') => Tidy')
    BY <1>1, <1>3, <1>4, <1>5, <1>12, <2>1, OpenStep
  <2>3. ASSUME ClockForward', restarts' = 0
        PROVE  Tidy'
    <3>1. Tidy /\ lastTs <= f.ts
      BY <1>1, <1>4, <2>3, ClockStep DEF IInv
    <3> QED
      BY <1>11, <1>12, <2>2, <3>1
  <2>4. Order'
    BY <2>3 DEF Order
  <2> QED
    BY <1>9, <2>1, <2>2, <2>4
<1>13. CASE /\ Rotates(f) /\ file' = Reclaim(file)
            /\ seg' = [seg EXCEPT !.open = FALSE] /\ index' = Listed(seg.last)
  <2>1. /\ index' \in Seq(Entry) /\ Len(index') <= MaxSegments
        /\ Files(file', frames) /\ ~seg'.open
        /\ seg' \in [open : BOOLEAN, start : Nat, last : Nat, mask : SUBSET Types]
    BY <1>4, <1>11, <1>13, SegFrame DEF Typed
  <2>2. Files(file', frames')
    BY <1>5, <2>1, FilesGrow
  <2>3. /\ Disk'
        /\ (Chain(index', file') /\ DOMAIN file' = Names(index')
             /\ Past(index', file', Len(frames') + 1, lastTs') => Tidy')
    BY <1>1, <1>3, <1>4, <1>5, <2>1, <2>2, ClosedStep
  <2>4. ASSUME ClockForward', restarts' = 0
        PROVE  Tidy'
    <3>1. Tidy /\ lastTs <= f.ts
      BY <1>1, <1>4, <2>4, ClockStep DEF IInv
    <3>2. /\ Chain(index', file') /\ DOMAIN file' = Names(index')
          /\ Past(index', file', Len(frames) + 1, f.ts)
      BY <1>11, <1>13, <3>1
    <3>3. /\ Len(frames) + 1 \in Nat /\ Len(frames') + 1 \in Nat /\ f.ts <= f.ts
          /\ Len(frames) + 1 <= Len(frames') + 1
      BY <1>5
    <3>4. Past(index', file', Len(frames') + 1, f.ts)
      BY <1>5, <2>1, <3>2, <3>3, PastLater
    <3> QED
      BY <1>5, <2>3, <3>2, <3>4
  <2>5. Order'
    BY <2>4 DEF Order
  <2> QED
    BY <1>9, <2>1, <2>3, <2>5
<1>14. CASE ~seg.open /\ f.key /\ Open(file, f.ts, <<This>>, {}) /\ UNCHANGED index
  <2>1. index' \in Seq(Entry) /\ Len(index') <= MaxSegments
    BY <1>8, <1>14
  <2>2. /\ seg' \in [open : BOOLEAN, start : Nat, last : Nat, mask : SUBSET Types]
        /\ seg'.open /\ Disk'
        /\ (Chain(index', file) /\ Past(index', file, Len(frames) + 1, f.ts)
             /\ DOMAIN file = Names(index') => Tidy')
    BY <1>1, <1>3, <1>4, <1>5, <1>7, <1>14, <2>1, OpenStep
  <2>3. ASSUME ClockForward', restarts' = 0
        PROVE  Tidy'
    <3>1. Tidy /\ lastTs <= f.ts
      BY <1>1, <1>4, <2>3, ClockStep DEF IInv
    <3>2. /\ Chain(index, file) /\ DOMAIN file = Names(index)
          /\ Past(index, file, Len(frames) + 1, lastTs)
      BY <1>14, <3>1 DEF Tidy
    <3>3. Len(frames) + 1 \in Nat /\ lastTs \in Nat /\ Len(frames) + 1 <= Len(frames) + 1
      BY <1>4, <1>5 DEF Typed
    <3>4. Past(index, file, Len(frames) + 1, f.ts)
      BY <1>5, <1>7, <1>8, <3>1, <3>2, <3>3, PastLater
    <3> QED
      BY <1>14, <2>2, <3>2, <3>4
  <2>4. Order'
    BY <2>3 DEF Order
  <2> QED
    BY <1>9, <2>1, <2>2, <2>4
<1>15. CASE ~seg.open /\ UNCHANGED <<seg, file, index>>
  <2>1. Disk' /\ Order'
    BY <1>1, <1>3, <1>15, WaitStep
  <2> QED
    BY <1>4, <1>8, <1>9, <1>15, <2>1 DEF Typed
<1> QED
  BY <1>10, <1>12, <1>13, <1>14, <1>15 DEF ContinuousFrame

\* In event mode the open segment is a clip.
LEMMA EventMode ==
  ASSUME IInv, mode = "event"
  PROVE  /\ seg.open = clip.recording
         /\ clip.pending => ~clip.recording /\ ~seg.open
         /\ seg.open \/ clip.pending => NoKey(pre, frames)
BY DEF IInv, Modes, Ring

LEMMA PendingFrameStep ==
  ASSUME RecordAssumption, IInv, NEW f \in Frame, PendingFrame(f)
  PROVE  IInv'
<1>1. /\ Arrive(f) /\ mode = "event" /\ clip.pending /\ index' = index
      /\ ~seg.open /\ ~clip.recording /\ NoKey(pre, frames) /\ Typed
  BY EventMode DEF PendingFrame, IInv
<1>2. /\ lastTs' = f.ts /\ f.ts \in Nat /\ frames' \in Seq(Frame) /\ Len(frames') \in Nat
      /\ Len(frames') = Len(frames) + 1 /\ Len(frames) \in Nat /\ mode' = mode
      /\ frames' = Append(frames, f) /\ frames \in Seq(Frame) /\ This = Len(frames) + 1
  BY <1>1, ArriveFacts DEF Typed
<1>3. /\ Files(file, frames) /\ index' \in Seq(Entry) /\ Len(index') <= MaxSegments
      /\ clip.mask \in SUBSET Types
  BY <1>1 DEF IInv, Disk, Typed
<1>4. CASE ((~f.key /\ Push(This)) \/ (f.key /\ pre' = pre)) /\ UNCHANGED <<seg, file, clip>>
  <2>1. Ring' /\ NoKey(pre', frames')
    <3>1. CASE ~f.key /\ Push(This)
      <4>1. NoGap(pre, frames) /\ Len(pre) <= PreCap /\ Push(Len(frames) + 1)
        BY <1>2, <3>1 DEF IInv, Ring
      <4>2. NoGap(pre', frames') /\ Len(pre') <= PreCap /\ NoKey(pre', frames')
        BY <1>1, <1>2, <3>1, <4>1, NoGapAfterPush
      <4> QED
        BY <4>2 DEF Ring
    <3>2. CASE f.key /\ pre' = pre
      BY <1>1, <3>2, RingKeeps DEF IInv
    <3> QED
      BY <1>4, <3>1, <3>2
  <2>2. ~clip'.recording
    BY <1>1, <1>4
  <2>3. Disk' /\ Order'
    BY <1>1, <1>4, <2>1, <2>2, WaitStep
  <2>4. Typed'
    BY <1>1, <1>3, <1>4, FrameTyped DEF Typed
  <2>5. Modes'
    BY <1>1, <1>2, <1>4, <2>2 DEF IInv, Modes
  <2> QED
    BY <2>1, <2>3, <2>4, <2>5 DEF IInv
<1>5. CASE /\ f.key /\ Open(file, f.ts, <<This>>, clip.mask)
           /\ clip' = [recording |-> TRUE, trigger |-> f.ts, pending |-> FALSE, mask |-> {}]
           /\ UNCHANGED pre
  <2>1. Ring' /\ NoKey(pre', frames')
    BY <1>1, <1>5, RingKeeps DEF IInv
  <2>2. /\ clip'.recording /\ clip'.trigger = f.ts /\ ~clip'.pending /\ clip'.mask = {}
        /\ clip' \in [recording : BOOLEAN, trigger : Nat, pending : BOOLEAN, mask : SUBSET Types]
    BY <1>2, <1>5
  <2>3. /\ seg' \in [open : BOOLEAN, start : Nat, last : Nat, mask : SUBSET Types]
        /\ seg'.open /\ Disk'
        /\ (Chain(index', file) /\ Past(index', file, Len(frames) + 1, f.ts)
             /\ DOMAIN file = Names(index') => Tidy')
    BY <1>1, <1>3, <1>5, <2>1, <2>2, OpenStep
  <2>4. Typed'
    BY <1>1, <1>3, <2>2, <2>3, FrameTyped
  <2>5. Modes'
    <3>1. Elapsed(lastTs', clip'.trigger) < PostLen
      BY <1>2, <2>2 DEF Elapsed, RecordAssumption
    <3> QED
      BY <1>1, <1>2, <2>2, <2>3, <3>1 DEF Modes
  <2>6. ASSUME ClockForward', restarts' = 0
        PROVE  Tidy'
    <3>1. Tidy /\ lastTs <= f.ts
      BY <1>1, <2>6, ClockStep DEF IInv
    <3>2. /\ Chain(index, file) /\ DOMAIN file = Names(index)
          /\ Past(index, file, Len(frames) + 1, lastTs)
      BY <1>1, <3>1 DEF Tidy
    <3>3. Len(frames) + 1 \in Nat /\ lastTs \in Nat /\ Len(frames) + 1 <= Len(frames) + 1
      BY <1>1, <1>2 DEF Typed
    <3>4. Past(index, file, Len(frames) + 1, f.ts)
      BY <1>1, <1>2, <1>3, <3>1, <3>2, <3>3, PastLater
    <3> QED
      BY <1>1, <2>3, <3>2, <3>4
  <2>7. Order'
    BY <2>6 DEF Order
  <2> QED
    BY <2>1, <2>3, <2>4, <2>5, <2>7 DEF IInv
<1>6. CASE ~f.key /\ Push(This) /\ UNCHANGED <<seg, file, clip>>
  <2>1. (~f.key /\ Push(This)) \/ (f.key /\ pre' = pre)
    BY <1>6
  <2> QED
    BY <1>4, <1>6, <2>1
<1>7. CASE f.key /\ UNCHANGED <<seg, file, clip, pre>>
  BY <1>4, <1>7
<1> QED
  BY <1>5, <1>6, <1>7 DEF PendingFrame

LEMMA ClipFrameStep ==
  ASSUME RecordAssumption, IInv, NEW f \in Frame, ClipFrame(f)
  PROVE  IInv'
<1>1. /\ Arrive(f) /\ mode = "event" /\ clip.recording /\ ~ClipEnds(f) /\ Write(This)
      /\ index' = index /\ pre' = pre /\ clip' = clip
      /\ seg.open /\ NoKey(pre, frames) /\ Typed
  BY EventMode DEF ClipFrame, IInv
<1>2. Ring' /\ NoKey(pre', frames')
  BY <1>1, RingKeeps DEF IInv
<1>3. Disk' /\ Order' /\ seg' = [seg EXCEPT !.last = Later(seg.last, f.ts)]
  BY <1>1, <1>2, WriteStep
<1>4. Typed'
  BY <1>1, <1>3, SegFrame, FrameTyped DEF Typed
<1>5. Modes'
  <2>1. seg'.open = seg.open /\ mode' = mode /\ lastTs' = f.ts
    BY <1>1, <1>3, ArriveFacts DEF Typed
  <2>2. Elapsed(f.ts, clip.trigger) < PostLen
    <3>1. f.ts \in Nat /\ clip.trigger \in Nat /\ PostLen \in Nat
      BY <1>1 DEF Typed, Frame, RecordAssumption
    <3> QED
      BY <1>1, <3>1 DEF ClipEnds, Elapsed
  <2> QED
    BY <1>1, <2>1, <2>2 DEF IInv, Modes
<1> QED
  BY <1>2, <1>3, <1>4, <1>5 DEF IInv

LEMMA ClipLastFrameStep ==
  ASSUME RecordAssumption, IInv, NEW f \in Frame, ClipLastFrame(f)
  PROVE  IInv'
<1> DEFINE written == Appended(file, seg.start, <<This>>)
           end == Later(seg.last, f.ts)
<1>1. /\ Arrive(f) /\ mode = "event" /\ clip.recording /\ ClipEnds(f)
      /\ file' = Reclaim(written) /\ index' = Listed(end)
      /\ seg' = [seg EXCEPT !.open = FALSE, !.last = end]
      /\ clip' = [clip EXCEPT !.recording = FALSE] /\ pre' = pre
      /\ seg.open /\ NoKey(pre, frames) /\ Typed
  BY EventMode DEF ClipLastFrame, IInv
<1>2. /\ lastTs' = f.ts /\ f.ts \in Nat /\ frames' \in Seq(Frame) /\ Len(frames') \in Nat
      /\ Len(frames') = Len(frames) + 1 /\ Len(frames) \in Nat /\ mode' = mode
      /\ frames' = Append(frames, f) /\ frames \in Seq(Frame) /\ This = Len(frames) + 1
      /\ Newest(frames') = f.ts
  BY <1>1, ArriveFacts DEF Typed
<1>3. /\ Files(file, frames) /\ seg.start \in DOMAIN file /\ EndOf(file, seg.start) = Len(frames)
      /\ end \in Nat /\ seg.start \in Nat /\ clip.trigger \in Nat /\ index \in Seq(Entry)
  BY <1>1, SegFrame DEF IInv, Disk, Typed
<1>4. /\ Files(written, frames') /\ seg.start \in DOMAIN written
      /\ written[seg.start][1] = file[seg.start][1]
      /\ EndOf(written, seg.start) = Len(frames) + 1
  BY <1>2, <1>3, FilesAfterWrite, SMTT(30) DEF EndOf
<1>5. Holding(written, file, seg.start, file[seg.start] \o <<Len(frames) + 1>>)
  BY <1>2, <1>3, WrittenFile
<1> HIDE DEF written, end
<1>6. /\ index' \in Seq(Entry) /\ Len(index') <= MaxSegments
      /\ Files(file', frames')
      /\ (Chain(index, written) /\ Past(index, written, file[seg.start][1], seg.start)
           /\ DOMAIN written = Names(index) \cup {seg.start} =>
           /\ Chain(index', file') /\ DOMAIN file' = Names(index')
           /\ \A n \in Nat, t \in Nat : EndOf(written, seg.start) < n /\ seg.start < t =>
                Past(index', file', n, t))
  BY <1>1, <1>2, <1>3, <1>4, CloseStep
<1>7. Ring' /\ NoKey(pre', frames')
  BY <1>1, RingKeeps DEF IInv
<1>8. /\ ~seg'.open /\ ~clip'.recording /\ clip'.pending = clip.pending /\ clip'.mask = clip.mask
      /\ seg' \in [open : BOOLEAN, start : Nat, last : Nat, mask : SUBSET Types]
      /\ clip' \in [recording : BOOLEAN, trigger : Nat, pending : BOOLEAN, mask : SUBSET Types]
  BY <1>1, SegFrame DEF Typed, end
<1>9. Typed'
  BY <1>1, <1>6, <1>8, FrameTyped
<1>10. Modes'
  BY <1>1, <1>2, <1>8 DEF IInv, Modes
<1>11. /\ Disk'
       /\ (Chain(index', file') /\ DOMAIN file' = Names(index')
            /\ Past(index', file', Len(frames') + 1, lastTs') => Tidy')
  BY <1>1, <1>2, <1>6, <1>7, <1>8, ClosedStep
<1>12. ASSUME ClockForward', restarts' = 0
       PROVE  Tidy'
  <2>1. Tidy /\ lastTs <= f.ts
    BY <1>1, <1>12, ClockStep DEF IInv
  <2>2. /\ Past(index, file, file[seg.start][1], seg.start) /\ Chain(index, file)
        /\ seg.start <= lastTs /\ DOMAIN file = Names(index) \cup {seg.start}
        /\ seg.start <= clip.trigger
    BY <1>1, <2>1 DEF Tidy
  <2>3. DOMAIN written = DOMAIN file /\ \A t \in DOMAIN file \ {seg.start} : written[t] = file[t]
    BY <1>3, <1>5 DEF Holding
  <2>4. Chain(index, written) /\ Past(index, written, file[seg.start][1], seg.start)
    BY <1>3, <2>2, <2>3, ChainWrites
  <2>5. /\ Chain(index', file') /\ DOMAIN file' = Names(index')
        /\ \A n \in Nat, t \in Nat : EndOf(written, seg.start) < n /\ seg.start < t =>
             Past(index', file', n, t)
    BY <1>6, <2>2, <2>3, <2>4
  <2>6. seg.start < f.ts
    BY <1>1, <1>2, <1>3, <2>2, SMTT(30) DEF ClipEnds, Elapsed, RecordAssumption
  <2>7. Past(index', file', Len(frames') + 1, lastTs')
    <3>1. Len(frames') + 1 \in Nat /\ EndOf(written, seg.start) < Len(frames') + 1
      BY <1>2, <1>4
    <3> QED
      BY <1>2, <2>5, <2>6, <3>1
  <2> QED
    BY <1>11, <2>5, <2>7
<1>13. Order'
  BY <1>12 DEF Order
<1> QED
  BY <1>7, <1>9, <1>10, <1>11, <1>13 DEF IInv

LEMMA IdleFrameStep ==
  ASSUME RecordAssumption, IInv, NEW f \in Frame, IdleFrame(f)
  PROVE  IInv'
<1>1. /\ Arrive(f) /\ mode = "event" /\ ~clip.recording /\ ~clip.pending /\ Push(This)
      /\ UNCHANGED <<seg, index, clip, file>> /\ ~seg.open /\ Typed
  BY EventMode DEF IdleFrame, IInv
<1>2. /\ lastTs' = f.ts /\ f.ts \in Nat /\ Len(frames') = Len(frames) + 1 /\ Len(frames) \in Nat
      /\ mode' = mode /\ frames' = Append(frames, f) /\ frames \in Seq(Frame)
      /\ This = Len(frames) + 1 /\ frames'[Len(frames) + 1] = f
      /\ \A i \in 1 .. Len(frames) : frames'[i] = frames[i]
  BY <1>1, ArriveFacts DEF Typed
<1>3. NoGap(pre, frames) /\ Len(pre) <= PreCap /\ Push(Len(frames) + 1)
  BY <1>1, <1>2 DEF IInv, Ring
<1>4. /\ NoGap(pre', frames') /\ Len(pre') <= PreCap
      /\ \A i \in 1 .. Len(pre') : \/ pre'[i] = Len(frames) + 1
                                   \/ \E j \in 1 .. Len(pre) : pre'[i] = pre[j]
  BY <1>2, <1>3, NoGapAfterPush
<1>5. Ring'
  BY <1>1, <1>4 DEF Ring
<1>6. ASSUME Tidy, lastTs <= f.ts
      PROVE  KeysPast'
  <2>1. /\ KeysPast /\ Past(index, file, Len(frames) + 1, lastTs) /\ Chain(index, file)
    BY <1>1, <1>6 DEF Tidy
  <2>2. Files(file, frames) /\ index \in Seq(Entry) /\ lastTs \in Nat
    BY <1>1 DEF IInv, Disk, Typed
  <2>3. Len(frames) + 1 \in Nat /\ Len(frames) + 1 <= Len(frames) + 1
    BY <1>2
  <2>4. Past(index, file, Len(frames) + 1, f.ts)
    BY <1>2, <1>6, <2>1, <2>2, <2>3, PastLater
  <2>0. lastTs \in Nat /\ f.ts \in Nat /\ lastTs <= f.ts
    BY <1>2, <1>6, <2>2
  <2>5. ASSUME NEW k \in 1 .. Len(pre'), frames'[pre'[k]].key
        PROVE  Past(index, file, pre'[k], frames'[pre'[k]].ts) /\ frames'[pre'[k]].ts <= f.ts
    <3>1. CASE pre'[k] = Len(frames) + 1
      BY <1>2, <2>4, <3>1
    <3>2. ASSUME NEW j \in 1 .. Len(pre), pre'[k] = pre[j]
          PROVE  Past(index, file, pre'[k], frames'[pre'[k]].ts) /\ frames'[pre'[k]].ts <= f.ts
      <4>1. pre[j] \in 1 .. Len(frames)
        BY <1>3 DEF NoGap
      <4>2. frames'[pre'[k]] = frames[pre[j]] /\ frames[pre[j]] \in Frame
        BY <1>2, <3>2, <4>1
      <4>3. Past(index, file, pre[j], frames[pre[j]].ts) /\ frames[pre[j]].ts <= lastTs
        BY <2>1, <2>5, <4>2 DEF KeysPast
      <4>4. frames[pre[j]].ts \in Nat
        BY <4>2 DEF Frame
      <4>5. frames[pre[j]].ts <= lastTs
        BY <4>3
      <4>6. frames[pre[j]].ts <= f.ts
        BY <2>0, <4>4, <4>5
      <4> QED
        BY <3>2, <4>2, <4>3, <4>6
    <3> QED
      BY <1>4, <3>1, <3>2
  <2> QED
    BY <1>1, <1>2, <2>5 DEF KeysPast
<1>7. ~clip'.recording
  BY <1>1
<1>8. Disk' /\ Order'
  BY <1>1, <1>6, <1>7, WaitStep
<1>9. Typed'
  BY <1>1, FrameTyped DEF Typed
<1>10. Modes'
  BY <1>1, <1>2 DEF IInv, Modes
<1> QED
  BY <1>5, <1>8, <1>9, <1>10 DEF IInv

\* An event that opens no segment marks the open one, or waits.
LEMMA MarkStep ==
  ASSUME RecordAssumption, IInv, UNCHANGED <<mode, frames, index, pre, lastTs, file, restarts>>,
         seg' \in [open : BOOLEAN, start : Nat, last : Nat, mask : SUBSET Types],
         seg'.open = seg.open, seg'.start = seg.start,
         clip' \in [recording : BOOLEAN, trigger : Nat, pending : BOOLEAN, mask : SUBSET Types],
         clip'.recording => clip.recording /\ clip'.trigger \in {clip.trigger, lastTs},
         Modes', seg'.open \/ clip'.pending => NoKey(pre, frames)
  PROVE  IInv'
<1>1. Typed' /\ lastTs \in Nat /\ seg.start \in Nat
  BY DEF IInv, Typed
<1>2. Ring'
  BY DEF IInv, Ring
<1>3. Disk'
  BY DEF IInv, Disk
<1>4. ASSUME Tidy
      PROVE  Tidy'
  <2>1. /\ Chain(index', file') /\ lastTs' = Newest(frames')
        /\ DOMAIN file' = Names(index') \cup (IF seg'.open THEN {seg'.start} ELSE {})
        /\ seg'.open => Past(index', file', file'[seg'.start][1], seg'.start) /\ seg'.start <= lastTs'
        /\ ~seg'.open => Past(index', file', Len(frames') + 1, lastTs')
    BY <1>4 DEF Tidy
  <2>2. KeysPast'
    BY <1>4 DEF Tidy, KeysPast
  <2>3. clip'.recording => seg'.start <= clip'.trigger /\ clip'.trigger <= lastTs'
    <3>1. SUFFICES ASSUME clip'.recording
                   PROVE  seg'.start <= clip'.trigger /\ clip'.trigger <= lastTs'
      OBVIOUS
    <3>2. clip.recording /\ clip'.trigger \in {clip.trigger, lastTs}
      BY <3>1
    <3>3. seg.start <= clip.trigger /\ clip.trigger <= lastTs /\ clip.trigger \in Nat
      BY <1>4, <3>2 DEF Tidy, IInv, Typed
    <3> QED
      BY <1>1, <3>2, <3>3
  <2> QED
    BY <2>1, <2>2, <2>3 DEF Tidy
<1>5. Order'
  <2>1. ClockForward' <=> ClockForward
    BY DEF ClockForward
  <2> QED
    BY <1>4, <2>1 DEF IInv, Order
<1> QED
  BY <1>1, <1>2, <1>3, <1>5 DEF IInv

LEMMA OpenPrerollStep ==
  ASSUME RecordAssumption, IInv, NEW t \in Types, OpenPreroll(t)
  PROVE  IInv'
<1>1. /\ mode = "event" /\ ~clip.recording /\ KeysBefore # {} /\ ~seg.open /\ Typed
      /\ UNCHANGED <<mode, frames, index, lastTs, restarts>>
  BY EventMode DEF OpenPreroll, IInv
<1>2. /\ NoGap(pre, frames) /\ Len(pre) <= PreCap /\ Files(file, frames)
      /\ frames \in Seq(Frame) /\ lastTs \in Nat /\ Len(frames) \in Nat
      /\ index \in Seq(Entry) /\ PreCap \in Nat
  BY <1>1 DEF IInv, Ring, Disk, Typed, RecordAssumption
<1>3. CASE UNCHANGED <<seg, file, clip, pre>>
  <2>1. Typed'
    BY <1>1, <1>3 DEF Typed
  <2>2. Modes' /\ Ring'
    BY <1>1, <1>3 DEF IInv, Modes, Ring
  <2>3. Disk'
    BY <1>1, <1>3 DEF IInv, Disk
  <2>4. Order'
    BY <1>1, <1>3 DEF IInv, Order, Tidy, KeysPast, ClockForward
  <2> QED
    BY <2>1, <2>2, <2>3, <2>4 DEF IInv
<1>4. CASE /\ Open(file, frames[Head(FromKey)].ts, FromKey, {t})
           /\ clip' = [clip EXCEPT !.recording = TRUE, !.trigger = lastTs]
           /\ pre' = AfterFlush
  <2>1. /\ Run(FromKey, frames) /\ FromKey[Len(FromKey)] = Len(frames)
        /\ Head(FromKey) = FromKey[1]
    BY <1>1, <1>2, PrerollRun
  <2>2. PICK k \in KeysBefore : FromKey[1] = pre[k]
    BY <1>1, <1>2, PrerollRun
  <2>3. k \in 1 .. Len(pre) /\ frames[pre[k]].key /\ pre[k] \in 1 .. Len(frames)
    BY <1>2, <2>2 DEF KeysBefore, NoGap
  <2>19. PICK ns, mask : ns = FromKey /\ mask = {t}
    OBVIOUS
  <2>4. PICK start \in Nat : start = frames[pre[k]].ts /\ start = frames[Head(FromKey)].ts
    <3>1. frames[pre[k]] \in Frame
      BY <1>2, <2>3
    <3>2. frames[pre[k]].ts \in Nat
      BY <3>1 DEF Frame
    <3> QED
      BY <2>1, <2>2, <3>2
  <2>5. /\ Run(ns, frames) /\ ns[Len(ns)] = Len(frames) /\ ns[1] = pre[k]
        /\ Open(file, start, ns, mask)
    BY <1>4, <2>1, <2>2, <2>4, <2>19
  <2>6. ns \in Seq(Nat)
    BY <1>2, <2>5, RunOrder
  <2>7. frames' \in Seq(Frame) /\ Run(ns, frames') /\ mask \in SUBSET Types
    BY <1>1, <1>2, <2>5, <2>19
  <2>8. /\ seg' \in [open : BOOLEAN, start : Nat, last : Nat, mask : SUBSET Types]
        /\ seg'.open /\ seg'.start = start
        /\ file' = Appended(Created(file, start), start, ns)
    <3>1. Typed
      BY <1>1
    <3>2. frames' \in Seq(Frame) /\ Run(ns, frames')
      BY <2>7
    <3>3. mask \in SUBSET Types /\ start \in Nat
      BY <2>4, <2>7
    <3>4. Open(file, start, ns, mask)
      BY <2>5
    <3> QED
      BY <3>1, <3>2, <3>3, <3>4, OpenTyped, Zenon
  <2>9. Holding(file', file, start, ns) /\ Files(file', frames')
    BY <1>1, <1>2, <2>4, <2>5, <2>6, <2>8, CreatedFile, FilesAfterOpen
  <2>10. Disk'
    BY <1>1, <2>5, <2>8, <2>9 DEF Disk, Holding, EndOf
  <2>11. /\ clip'.recording /\ clip'.trigger = lastTs /\ clip'.pending = clip.pending
         /\ clip'.mask = clip.mask
         /\ clip' \in [recording : BOOLEAN, trigger : Nat, pending : BOOLEAN, mask : SUBSET Types]
    BY <1>1, <1>2, <1>4 DEF Typed
  <2>12. Typed'
    BY <1>1, <2>8, <2>11 DEF Typed
  <2>13. /\ pre' = <<>> /\ Ring' /\ NoKey(pre', frames')
    BY <1>2, <1>4 DEF AfterFlush, Ring, NoGap, NoKey
  <2>14. ~clip.pending
    <3>1. ~NoKey(pre, frames)
      BY <2>3 DEF NoKey
    <3> QED
      BY <1>1, <3>1, EventMode
  <2>15. Modes'
    <3>1. Elapsed(lastTs', clip'.trigger) < PostLen
      BY <1>1, <1>2, <2>11 DEF Elapsed, RecordAssumption
    <3>2. clip.pending = (clip.mask # {})
      BY DEF IInv, Modes
    <3> QED
      BY <1>1, <2>8, <2>11, <2>13, <2>14, <3>1, <3>2 DEF Modes
  <2>16. ASSUME ClockForward', restarts' = 0
         PROVE  Tidy'
    <3>1. Tidy
      BY <1>1, <2>16 DEF IInv, Order, ClockForward
    <3>2. /\ Chain(index, file) /\ DOMAIN file = Names(index) /\ KeysPast
          /\ lastTs = Newest(frames)
      BY <1>1, <3>1 DEF Tidy
    <3>3. Past(index, file, ns[1], start) /\ start <= lastTs
      BY <2>3, <2>4, <2>5, <3>2 DEF KeysPast
    <3>4. LastInFiles(file', index, file, start)
      BY <1>2, <2>4, <2>6, <2>8, <3>2, <3>3, ChainOpens
    <3>5. KeysPast'
      BY <2>13, NoKeyNothingPast
    <3> QED
      BY <1>1, <2>8, <2>11, <3>2, <3>3, <3>4, <3>5 DEF Tidy, LastInFiles
  <2>17. Order'
    BY <2>16 DEF Order
  <2> QED
    BY <2>10, <2>12, <2>13, <2>15, <2>17 DEF IInv
<1> QED
  BY <1>3, <1>4 DEF OpenPreroll

LEMMA EventStep ==
  ASSUME RecordAssumption, IInv, NEW t \in Types, Event(t)
  PROVE  IInv'
<1>1. Typed /\ seg.mask \cup {t} \in SUBSET Types /\ clip.mask \cup {t} \in SUBSET Types
  BY DEF IInv, Typed
<1>2. ASSUME UNCHANGED <<mode, frames, index, pre, lastTs, file, restarts>>, TagOpen(t)
      PROVE  IInv'
  <2>1. /\ seg' \in [open : BOOLEAN, start : Nat, last : Nat, mask : SUBSET Types]
        /\ seg'.open = seg.open /\ seg'.start = seg.start /\ clip' = clip
    BY <1>1, <1>2 DEF TagOpen, Typed
  <2>2. Modes' /\ (seg'.open \/ clip'.pending => NoKey(pre, frames))
    BY <1>2, <2>1 DEF IInv, Modes, Ring
  <2> QED
    BY <1>1, <1>2, <2>1, <2>2, MarkStep DEF Typed
<1>3. ASSUME UNCHANGED <<mode, frames, index, pre, lastTs, file, restarts>>, Extend(t)
      PROVE  IInv'
  <2>1. /\ seg' \in [open : BOOLEAN, start : Nat, last : Nat, mask : SUBSET Types]
        /\ seg'.open = seg.open /\ seg'.start = seg.start
    BY <1>1, <1>3 DEF Extend, Typed
  <2>2. /\ clip' \in [recording : BOOLEAN, trigger : Nat, pending : BOOLEAN, mask : SUBSET Types]
        /\ clip.recording /\ clip'.recording /\ clip'.trigger = lastTs /\ mode = "event"
        /\ clip'.pending = clip.pending /\ clip'.mask = clip.mask
    BY <1>1, <1>3 DEF Extend, Typed
  <2>3. Elapsed(lastTs', clip'.trigger) < PostLen
    BY <1>1, <1>3, <2>2 DEF Typed, Elapsed, RecordAssumption
  <2>4. Modes' /\ (seg'.open \/ clip'.pending => NoKey(pre, frames))
    BY <1>3, <2>1, <2>2, <2>3 DEF IInv, Modes, Ring
  <2> QED
    BY <1>3, <2>1, <2>2, <2>4, MarkStep
<1>4. ASSUME UNCHANGED <<mode, frames, index, pre, lastTs, file, restarts>>, Postpone(t)
      PROVE  IInv'
  <2>1. /\ seg' = seg /\ clip' = [clip EXCEPT !.pending = TRUE, !.mask = clip.mask \cup {t}]
        /\ mode = "event" /\ ~clip.recording /\ KeysBefore = {}
    BY <1>4 DEF Postpone
  <2>2. /\ clip' \in [recording : BOOLEAN, trigger : Nat, pending : BOOLEAN, mask : SUBSET Types]
        /\ ~clip'.recording /\ clip'.pending /\ clip'.mask # {}
    BY <1>1, <2>1 DEF Typed
  <2>3. NoKey(pre, frames)
    BY <2>1 DEF KeysBefore, NoKey, IInv, Ring, NoGap
  <2>4. Modes'
    BY <1>4, <2>1, <2>2 DEF IInv, Modes
  <2> QED
    BY <1>1, <1>4, <2>1, <2>2, <2>3, <2>4, MarkStep DEF Typed
<1>5. CASE OpenPreroll(t)
  BY <1>5, OpenPrerollStep
<1> QED
  BY <1>2, <1>3, <1>4, <1>5 DEF Event

LEMMA RestartStep ==
  ASSUME RecordAssumption, IInv, Restart
  PROVE  IInv'
<1>1. Typed /\ Files(file, frames)
  BY DEF IInv, Disk
<1>2. /\ seg' = NoSegment /\ index' = <<>> /\ pre' = <<>> /\ lastTs' = 0 /\ clip' = NoClip
      /\ mode' = mode /\ frames' = frames /\ restarts' = restarts + 1
      /\ restarts' \in 0 .. MaxRestarts /\ restarts' # 0
  BY <1>1 DEF Restart, Typed, RecordAssumption
<1>3. Files(file', frames')
  BY <1>1, <1>2, FilesReclaimed DEF Restart
<1>4. Typed'
  BY <1>1, <1>2 DEF Typed, NoSegment, NoClip, RecordAssumption
<1>5. Modes' /\ Ring'
  <2>1. Modes'
    BY <1>2 DEF Modes, NoSegment, NoClip
  <2>2. NoGap(pre', frames') /\ Len(pre') = 0 /\ ~seg'.open /\ ~clip'.pending
    BY <1>2 DEF NoGap, NoSegment, NoClip
  <2> QED
    BY <2>1, <2>2 DEF Ring, RecordAssumption
<1>6. Disk'
  BY <1>2, <1>3 DEF Disk, NoSegment
<1>7. Order'
  BY <1>2 DEF Order
<1> QED
  BY <1>4, <1>5, <1>6, <1>7 DEF IInv

LEMMA NextInv ==
  ASSUME RecordAssumption, IInv, [Next]_vars
  PROVE  IInv'
<1>1. ASSUME NEW k \in BOOLEAN, NEW dt \in Ticks, Stamp(dt) > 0
      PROVE  [key |-> k, ts |-> Stamp(dt)] \in Frame
  <2>1. frames \in Seq(Frame) /\ dt \in Int
    BY DEF IInv, Typed, RecordAssumption
  <2>2. frames # <<>> => frames[Len(frames)] \in Frame
    BY <2>1
  <2>3. Stamp(dt) \in Int
    BY <2>1, <2>2 DEF Stamp, Frame
  <2>4. Stamp(dt) \in Nat
    BY <1>1, <2>3
  <2> QED
    BY <2>4 DEF Frame
<1>2. ASSUME NEW k \in BOOLEAN, NEW dt \in Ticks, NEW f, f = [key |-> k, ts |-> Stamp(dt)], f.ts > 0,
             \/ ContinuousFrame(f) \/ PendingFrame(f) \/ ClipFrame(f) \/ ClipLastFrame(f)
             \/ IdleFrame(f)
      PROVE  IInv'
  <2>1. f \in Frame
    BY <1>1, <1>2
  <2> QED
    BY <1>2, <2>1, ContinuousFrameStep, PendingFrameStep, ClipFrameStep, ClipLastFrameStep,
       IdleFrameStep
<1>3. ASSUME NEW t \in Types, Event(t)
      PROVE  IInv'
  BY <1>3, EventStep
<1>4. CASE Restart
  BY <1>4, RestartStep
<1>5. CASE UNCHANGED vars
  <2>1. UNCHANGED <<mode, frames, seg, index, pre, lastTs, clip, file, restarts>>
    BY <1>5 DEF vars
  <2>2. Typed' /\ Modes' /\ Ring'
    BY <2>1 DEF IInv, Typed, Modes, Ring
  <2>3. Disk'
    BY <2>1 DEF IInv, Disk
  <2>4. Order'
    BY <2>1 DEF IInv, Order, Tidy, KeysPast, ClockForward
  <2> QED
    BY <2>2, <2>3, <2>4 DEF IInv
<1> QED
  BY <1>2, <1>3, <1>4, <1>5 DEF Next

(***************************************************************************)
(* The files are runs of frames, the ring has no gap after a key frame,    *)
(* and the index, the open file and the ring's key frames follow each      *)
(* other.                                                                  *)
(***************************************************************************)
THEOREM RecordInvariant == Spec => []IInv
<1>1. Init => IInv
  BY InitInv, RecordAssumption
<1>2. IInv /\ [Next]_vars => IInv'
  BY NextInv, RecordAssumption
<1> QED
  BY <1>1, <1>2, PTL DEF Spec

-----------------------------------------------------------------------------
(* What it says of the properties. *)

LEMMA RunsDecodable ==
  ASSUME IInv
  PROVE  Decodable
<1>1. ASSUME NEW s \in DOMAIN file
      PROVE  file[s] # <<>> /\ frames[file[s][1]].key /\ Consecutive(file[s])
  <2>1. Run(file[s], frames)
    BY DEF IInv, Disk, Files
  <2>2. frames \in Seq(Frame)
    BY DEF IInv, Typed
  <2>3. Len(file[s]) \in Nat \ {0} /\ file[s][1] \in Nat
    BY <2>1, <2>2, RunOrder DEF Run
  <2>4. \A i \in 1 .. Len(file[s]) : file[s][i] = file[s][1] + i - 1
    BY <2>1 DEF Run
  <2>5. ASSUME NEW i \in 1 .. Len(file[s]) - 1
        PROVE  file[s][i + 1] = file[s][i] + 1
    <3>1. i \in 1 .. Len(file[s]) /\ i + 1 \in 1 .. Len(file[s]) /\ i \in Nat
      BY <2>3
    <3>2. file[s][i] = file[s][1] + i - 1 /\ file[s][i + 1] = file[s][1] + (i + 1) - 1
      BY <2>4, <3>1
    <3> QED
      BY <2>3, <3>1, <3>2
  <2> QED
    BY <2>1, <2>5 DEF Run, Consecutive
<1> QED
  BY <1>1 DEF Decodable

LEMMA RingWindow ==
  ASSUME IInv
  PROVE  ClipWindow
<1>1. clip.pending => ~clip.recording /\ NoKey(pre, frames)
  BY DEF IInv, Modes, Ring
<1>2. NoKey(pre, frames) => KeysBefore = {}
  BY DEF NoKey, KeysBefore, IInv, Ring, NoGap
<1>3. clip.recording => Elapsed(lastTs, clip.trigger) < PostLen
  BY DEF IInv, Modes
<1> QED
  BY <1>1, <1>2, <1>3 DEF ClipWindow

LEMMA TypedIsTypeOK ==
  ASSUME RecordAssumption, IInv
  PROVE  TypeOK
<1>1. /\ mode \in {"continuous", "event"} /\ frames \in Seq(Frame) /\ lastTs \in Nat
      /\ restarts \in 0 .. MaxRestarts /\ Len(frames) <= MaxFrames
      /\ seg \in [open : BOOLEAN, start : Nat, last : Nat, mask : SUBSET Types]
      /\ clip \in [recording : BOOLEAN, trigger : Nat, pending : BOOLEAN, mask : SUBSET Types]
      /\ Len(index) <= MaxSegments /\ MaxFrames \in Nat /\ Len(frames) \in Nat
  BY DEF IInv, Typed, RecordAssumption
<1>2. /\ Len(pre) <= PreCap /\ pre \in Seq(1 .. Len(frames))
  BY DEF IInv, Ring, NoGap
<1>3. \A i \in DOMAIN pre : pre[i] \in DOMAIN frames
  BY <1>1, <1>2
<1>4. ASSUME NEW s \in DOMAIN file
      PROVE  file[s] \in Seq(1 .. MaxFrames)
  <2>1. file[s] \in Seq(1 .. Len(frames))
    BY DEF IInv, Disk, Files, Run
  <2>2. 1 .. Len(frames) \subseteq 1 .. MaxFrames
    BY <1>1
  <2> QED
    BY <2>1, <2>2, SeqWider, Zenon
<1>5. (mode = "event" => seg.open = clip.recording) /\ clip.pending = (clip.mask # {})
  BY DEF IInv, Modes
<1> QED
  BY <1>1, <1>2, <1>3, <1>4, <1>5 DEF TypeOK

LEMMA TidyInOrder ==
  ASSUME IInv
  PROVE  FilesInOrder /\ FilesAreListed
<1>1. SUFFICES ASSUME ClockForward, restarts = 0
               PROVE  FilesInOrder /\ FilesAreListed
  BY DEF FilesInOrder, FilesAreListed
<1>2. /\ Chain(index, file)
      /\ DOMAIN file = Names(index) \cup (IF seg.open THEN {seg.start} ELSE {})
      /\ seg.open => Past(index, file, file[seg.start][1], seg.start)
  BY <1>1 DEF IInv, Order, Tidy
<1>3. index \in Seq(Entry) /\ Len(index) \in Nat /\ DOMAIN index = 1 .. Len(index)
  BY DEF IInv, Typed
<1>4. FilesAreListed
  BY <1>2, <1>3 DEF FilesAreListed, Names, Chain
<1> DEFINE listed == [i \in DOMAIN index |-> index[i].start]
           tail == IF seg.open THEN <<seg.start>> ELSE <<>>
           names == listed \o tail
<1>5. ASSUME NEW i \in 1 .. Len(names) - 1
      PROVE  file[names[i]][Len(file[names[i]])] < file[names[i + 1]][1]
  <2>1. listed \in Seq(Nat) /\ Len(listed) = Len(index)
    <3>1. \A j \in 1 .. Len(index) : index[j].start \in Nat
      BY <1>3, EntryTyped
    <3> QED
      BY <1>3, <3>1
  <2>2. seg.start \in Nat
    BY DEF IInv, Typed
  <2>3. tail \in Seq(Nat) /\ Len(tail) = IF seg.open THEN 1 ELSE 0
    BY <2>2
  <2>4. /\ Len(names) = Len(index) + Len(tail)
        /\ \A j \in 1 .. Len(index) : names[j] = index[j].start
        /\ seg.open => names[Len(index) + 1] = seg.start
    <3>1. names[Len(index) + 1] = tail[1] \/ ~seg.open
      BY <1>3, <2>1, <2>3
    <3> QED
      BY <1>3, <2>1, <2>3, <3>1
  <2> HIDE DEF names, listed, tail
  <2>5. i \in 1 .. Len(index) /\ i \in Nat
    BY <1>3, <2>3, <2>4
  <2>6. names[i] = index[i].start
    BY <2>4, <2>5
  <2>7. CASE i = Len(index)
    <3>1. seg.open
      BY <1>3, <2>3, <2>4, <2>7
    <3>2. names[i + 1] = seg.start
      BY <2>4, <2>7, <3>1
    <3> QED
      BY <1>2, <2>5, <2>6, <3>1, <3>2 DEF Past, EndOf
  <2>8. CASE i # Len(index)
    <3>1. i + 1 \in 1 .. Len(index) /\ i + 1 \in i + 1 .. Len(index)
      <4>1. Len(index) \in Nat
        BY <1>3
      <4> QED
        BY <2>5, <2>8, <4>1
    <3>2. names[i + 1] = index[i + 1].start
      BY <2>4, <3>1
    <3>3. /\ EndOf(file, index[i].start) < index[i + 1].first
          /\ file[index[i + 1].start][1] = index[i + 1].first
      BY <1>2, <2>5, <3>1 DEF Chain
    <3> QED
      BY <2>6, <3>2, <3>3 DEF EndOf
  <2> QED
    BY <2>7, <2>8
<1>6. FilesInOrder
  BY <1>5 DEF FilesInOrder
<1> QED
  BY <1>4, <1>6

(***************************************************************************)
(* Every file of a channel begins with a key frame and has every frame     *)
(* from there to its last, whatever opens fail, however often a trigger is *)
(* postponed, and whatever the clock does: record_on_frame_locked and      *)
(* record_event_sink (svc_record.c).                                       *)
(***************************************************************************)
THEOREM FilesDecodable == Spec => []Decodable
BY RecordInvariant, RunsDecodable, PTL

(***************************************************************************)
(* A clip is open only while the last trigger is recent on the media       *)
(* clock, and a trigger waits for a key frame only while the ring has none *)
(* (svc_record.c).                                                         *)
(***************************************************************************)
THEOREM ClipsAreRecent == Spec => []ClipWindow
BY RecordInvariant, RingWindow, PTL

(***************************************************************************)
(* While the clock goes forward and the engine is not restarted, the files *)
(* are those of the index and of the open segment, for any size of the     *)
(* index, and they come in order without a common frame                    *)
(* (record_index_add_locked, svc_record.c).                                *)
(***************************************************************************)
THEOREM FilesAsListed == Spec => []FilesKept
<1>1. IInv => FilesKept
  BY TypedIsTypeOK, TidyInOrder, RecordAssumption DEF FilesKept
<1> QED
  BY <1>1, RecordInvariant, PTL
=============================================================================
