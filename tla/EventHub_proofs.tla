--------------------------- MODULE EventHub_proofs ---------------------------
(***************************************************************************)
(* For any numbers of threads, subscribers and slots, and with sinks that  *)
(* may call the hub: a subscriber whose nop_event_unsubscribe returned is  *)
(* called by no publish.  The heart of IInv is Counted: publishing is the  *)
(* number of publishes on all stacks, so that 0 means there is none.       *)
(***************************************************************************)
EXTENDS EventHub, FiniteSetTheorems, SequenceTheorems, TLAPS

-----------------------------------------------------------------------------
(* What the three operations on a stack do to it. *)

LEMMA PushFacts ==
  ASSUME TypeOK, NEW t \in Thread, NEW f \in Frame, Push(t, f)
  PROVE  /\ stack' \in [Thread -> Seq(Frame)]
         /\ Len(stack'[t]) = Len(stack[t]) + 1
         /\ stack'[t][Len(stack[t]) + 1] = f
         /\ \A i \in 1 .. Len(stack[t]) : stack'[t][i] = stack[t][i]
         /\ \A u \in Thread \ {t} : stack'[u] = stack[u]
<1>1. stack \in [Thread -> Seq(Frame)]
  BY DEF TypeOK
<1>2. stack'[t] = Append(stack[t], f) /\ \A u \in Thread \ {t} : stack'[u] = stack[u]
  BY <1>1 DEF Push
<1>3. Append(stack[t], f) \in Seq(Frame)
  BY <1>1
<1>4. stack' \in [Thread -> Seq(Frame)]
  BY <1>1, <1>3 DEF Push
<1> QED
  BY <1>1, <1>2, <1>4

LEMMA PopFacts ==
  ASSUME TypeOK, NEW t \in Thread, stack[t] # <<>>, Pop(t)
  PROVE  /\ stack' \in [Thread -> Seq(Frame)]
         /\ Len(stack[t]) \in Nat \ {0}
         /\ Len(stack'[t]) = Len(stack[t]) - 1
         /\ \A i \in 1 .. Len(stack[t]) - 1 : stack'[t][i] = stack[t][i]
         /\ \A u \in Thread \ {t} : stack'[u] = stack[u]
<1>1. stack \in [Thread -> Seq(Frame)]
  BY DEF TypeOK
<1>2. stack'[t] = SubSeq(stack[t], 1, Len(stack[t]) - 1)
      /\ \A u \in Thread \ {t} : stack'[u] = stack[u]
  BY <1>1 DEF Pop
<1>3. Len(stack[t]) \in Nat \ {0}
  BY <1>1
<1>4. /\ SubSeq(stack[t], 1, Len(stack[t]) - 1) \in Seq(Frame)
      /\ Len(SubSeq(stack[t], 1, Len(stack[t]) - 1)) = Len(stack[t]) - 1
      /\ \A i \in 1 .. Len(stack[t]) - 1 :
           SubSeq(stack[t], 1, Len(stack[t]) - 1)[i] = stack[t][i]
  <2>1. \A i \in 1 .. Len(stack[t]) - 1 : stack[t][i] \in Frame
    BY <1>1, <1>3
  <2> QED
    BY <1>3, <2>1, SubSeqProperties
<1>5. stack' \in [Thread -> Seq(Frame)]
  BY <1>1, <1>4 DEF Pop
<1> QED
  BY <1>2, <1>3, <1>4, <1>5

LEMMA SetTopFacts ==
  ASSUME TypeOK, NEW t \in Thread, stack[t] # <<>>, NEW f \in Frame, SetTop(t, f)
  PROVE  /\ stack' \in [Thread -> Seq(Frame)]
         /\ Len(stack[t]) \in Nat \ {0}
         /\ Len(stack'[t]) = Len(stack[t])
         /\ stack'[t][Len(stack[t])] = f
         /\ \A i \in 1 .. Len(stack[t]) - 1 : stack'[t][i] = stack[t][i]
         /\ \A u \in Thread \ {t} : stack'[u] = stack[u]
<1>1. stack \in [Thread -> Seq(Frame)]
  BY DEF TypeOK
<1>2. Len(stack[t]) \in Nat \ {0}
  BY <1>1
<1>3. stack'[t] = [stack[t] EXCEPT ![Len(stack[t])] = f]
      /\ \A u \in Thread \ {t} : stack'[u] = stack[u]
  BY <1>1 DEF SetTop
<1>4. /\ stack'[t] \in Seq(Frame)
      /\ Len(stack'[t]) = Len(stack[t])
  BY <1>1, <1>2, <1>3
<1>5. stack' \in [Thread -> Seq(Frame)]
  BY <1>1, <1>4 DEF SetTop
<1> QED
  BY <1>1, <1>2, <1>3, <1>4, <1>5

-----------------------------------------------------------------------------
(* The number of publishes under way. *)

LEMMA InFlightFinite == IsFiniteSet(InFlight)
<1>1. IsFiniteSet(1 .. MaxDepth)
  BY FS_Interval, HubAssumption DEF HubAssumption
<1>2. IsFiniteSet(Thread \X (1 .. MaxDepth))
  BY <1>1, FS_Product, HubAssumption DEF HubAssumption
<1> QED
  BY <1>2, FS_Subset DEF InFlight

\* The parts of IInv that a change of the stacks can disturb, over the places
\* on the stacks.
Clean(s) ==
  \A t \in Thread : \A i \in 1 .. Len(stack[t]) :
    stack[t][i].op = "publish"
      => stack[t][i].cur # s /\ \A p \in stack[t][i].todo : p[2] # s

LEMMA CleanFrames ==
  /\ NoCallAfterReturn <=> \A s \in Sub : life[s] = "off" => Clean(s)
  /\ NoCallAfterReturn' <=> \A s \in Sub : life'[s] = "off" => Clean(s)'
BY DEF NoCallAfterReturn, Clean, Frames

\* A publish is entered: one more in flight.
LEMMA PushPublish ==
  ASSUME TypeOK, DepthOK, NEW t \in Thread, NEW f \in Frame, f.op = "publish",
         Push(t, f), Len(stack[t]) < MaxDepth
  PROVE  /\ DepthOK'
         /\ Cardinality(InFlight') = Cardinality(InFlight) + 1
<1>1. /\ stack' \in [Thread -> Seq(Frame)]
      /\ Len(stack'[t]) = Len(stack[t]) + 1
      /\ stack'[t][Len(stack[t]) + 1] = f
      /\ \A i \in 1 .. Len(stack[t]) : stack'[t][i] = stack[t][i]
      /\ \A u \in Thread \ {t} : stack'[u] = stack[u]
  BY PushFacts
<1>2. \A u \in Thread : Len(stack[u]) \in Nat /\ Len(stack[u]) <= MaxDepth
  BY DEF TypeOK, DepthOK
<1>3. DepthOK'
  BY <1>1, <1>2, HubAssumption DEF DepthOK, HubAssumption
<1> DEFINE x == <<t, Len(stack[t]) + 1>>
<1>4. InFlight' = InFlight \cup {x}
  BY <1>1, <1>2, HubAssumption, SMTT(30) DEF InFlight, HubAssumption
<1>5. x \notin InFlight
  BY <1>2 DEF InFlight
<1>6. Cardinality(InFlight \cup {x}) = Cardinality(InFlight) + 1
  BY <1>5, InFlightFinite, FS_AddElement
<1> QED
  BY <1>3, <1>4, <1>6

\* Another call is entered or left, or a publish goes on: as many in flight.
LEMMA PushLeave ==
  ASSUME TypeOK, DepthOK, NEW t \in Thread, NEW f \in Frame, f.op = "leave",
         Push(t, f), Len(stack[t]) < MaxDepth
  PROVE  DepthOK' /\ InFlight' = InFlight
<1>1. /\ stack' \in [Thread -> Seq(Frame)]
      /\ Len(stack'[t]) = Len(stack[t]) + 1
      /\ stack'[t][Len(stack[t]) + 1] = f
      /\ \A i \in 1 .. Len(stack[t]) : stack'[t][i] = stack[t][i]
      /\ \A u \in Thread \ {t} : stack'[u] = stack[u]
  BY PushFacts
<1>2. \A u \in Thread : Len(stack[u]) \in Nat /\ Len(stack[u]) <= MaxDepth
  BY DEF TypeOK, DepthOK
<1>3. DepthOK'
  BY <1>1, <1>2, HubAssumption DEF DepthOK, HubAssumption
<1>4. InFlight' = InFlight
  BY <1>1, <1>2, HubAssumption DEF InFlight, HubAssumption
<1> QED
  BY <1>3, <1>4

LEMMA PopLeave ==
  ASSUME TypeOK, DepthOK, NEW t \in Thread, In(t, "leave"), Pop(t)
  PROVE  DepthOK' /\ InFlight' = InFlight
<1>1. /\ stack' \in [Thread -> Seq(Frame)]
      /\ Len(stack[t]) \in Nat \ {0}
      /\ Len(stack'[t]) = Len(stack[t]) - 1
      /\ \A i \in 1 .. Len(stack[t]) - 1 : stack'[t][i] = stack[t][i]
      /\ \A u \in Thread \ {t} : stack'[u] = stack[u]
  BY PopFacts DEF In
<1>2. \A u \in Thread : Len(stack[u]) \in Nat /\ Len(stack[u]) <= MaxDepth
  BY DEF TypeOK, DepthOK
<1>3. DepthOK'
  BY <1>1, <1>2, HubAssumption DEF DepthOK, HubAssumption
<1>4. stack[t][Len(stack[t])].op # "publish"
  BY DEF In, Top
<1>5. InFlight' = InFlight
  BY <1>1, <1>2, <1>4, HubAssumption, SMTT(60) DEF InFlight, HubAssumption
<1> QED
  BY <1>3, <1>5

LEMMA SetTopPublish ==
  ASSUME TypeOK, DepthOK, NEW t \in Thread, In(t, "publish"),
         NEW f \in Frame, f.op = "publish", SetTop(t, f)
  PROVE  DepthOK' /\ InFlight' = InFlight
<1>1. /\ stack' \in [Thread -> Seq(Frame)]
      /\ Len(stack[t]) \in Nat \ {0}
      /\ Len(stack'[t]) = Len(stack[t])
      /\ stack'[t][Len(stack[t])] = f
      /\ \A i \in 1 .. Len(stack[t]) - 1 : stack'[t][i] = stack[t][i]
      /\ \A u \in Thread \ {t} : stack'[u] = stack[u]
  BY SetTopFacts DEF In
<1>2. \A u \in Thread : Len(stack[u]) \in Nat /\ Len(stack[u]) <= MaxDepth
  BY DEF TypeOK, DepthOK
<1>3. DepthOK'
  BY <1>1, <1>2, HubAssumption DEF DepthOK, HubAssumption
<1>4. stack[t][Len(stack[t])].op = "publish"
  BY DEF In, Top
<1>5. \A u \in Thread, i \in 1 .. MaxDepth :
        <<u, i>> \in InFlight' <=> <<u, i>> \in InFlight
  <2> SUFFICES ASSUME NEW u \in Thread, NEW i \in 1 .. MaxDepth
               PROVE  <<u, i>> \in InFlight' <=> <<u, i>> \in InFlight
    OBVIOUS
  <2>1. Len(stack'[u]) = Len(stack[u])
    BY <1>1
  <2>2. i <= Len(stack[u])
          => (stack'[u][i].op = "publish" <=> stack[u][i].op = "publish")
    <3>1. CASE u = t /\ i = Len(stack[t])
      BY <1>1, <1>4, <3>1
    <3>2. CASE u = t /\ i < Len(stack[t])
      BY <1>1, <3>2
    <3>3. CASE u # t
      BY <1>1, <3>3
    <3> QED
      BY <1>1, <1>2, <3>1, <3>2, <3>3
  <2> QED
    BY <2>1, <2>2 DEF InFlight
<1>6. InFlight' = InFlight
  BY <1>5 DEF InFlight
<1> QED
  BY <1>3, <1>6

\* A publish is left: one less in flight.
LEMMA PopPublish ==
  ASSUME TypeOK, DepthOK, NEW t \in Thread, In(t, "publish"), Pop(t)
  PROVE  /\ DepthOK'
         /\ Cardinality(InFlight') = Cardinality(InFlight) - 1
         /\ Cardinality(InFlight) \in Nat \ {0}
<1>1. /\ stack' \in [Thread -> Seq(Frame)]
      /\ Len(stack[t]) \in Nat \ {0}
      /\ Len(stack'[t]) = Len(stack[t]) - 1
      /\ \A i \in 1 .. Len(stack[t]) - 1 : stack'[t][i] = stack[t][i]
      /\ \A u \in Thread \ {t} : stack'[u] = stack[u]
  BY PopFacts DEF In
<1>2. \A u \in Thread : Len(stack[u]) \in Nat /\ Len(stack[u]) <= MaxDepth
  BY DEF TypeOK, DepthOK
<1>3. DepthOK'
  BY <1>1, <1>2, HubAssumption DEF DepthOK, HubAssumption
<1> DEFINE x == <<t, Len(stack[t])>>
<1>4. x \in InFlight
  BY <1>1, <1>2, HubAssumption DEF InFlight, In, Top, HubAssumption
<1>5. InFlight' = InFlight \ {x}
  BY <1>1, <1>2, HubAssumption DEF InFlight, HubAssumption
<1>6. Cardinality(InFlight \ {x}) = Cardinality(InFlight) - 1
  BY <1>4, InFlightFinite, FS_RemoveElement
<1>7. Cardinality(InFlight) \in Nat
  BY InFlightFinite, FS_CardinalityType
<1>8. Cardinality(InFlight) # 0
  BY <1>4, InFlightFinite, FS_EmptySet
<1> QED
  BY <1>3, <1>5, <1>6, <1>7, <1>8

-----------------------------------------------------------------------------
(* Who waits, after each of the operations on a stack. *)

LEMMA PushLeaver ==
  ASSUME TypeOK, NEW t \in Thread, NEW f \in Frame, Push(t, f)
  PROVE  \A u \in Thread, i \in 1 .. MaxDepth, x \in Sub \cup {None} :
           Leaver(u, i, x)' <=>
             \/ Leaver(u, i, x)
             \/ u = t /\ i = Len(stack[t]) + 1 /\ f.op = "leave" /\ f.cur = x
<1>1. /\ Len(stack'[t]) = Len(stack[t]) + 1
      /\ stack'[t][Len(stack[t]) + 1] = f
      /\ \A i \in 1 .. Len(stack[t]) : stack'[t][i] = stack[t][i]
      /\ \A u \in Thread \ {t} : stack'[u] = stack[u]
  BY PushFacts
<1>2. Len(stack[t]) \in Nat
  BY DEF TypeOK
<1> SUFFICES ASSUME NEW u \in Thread, NEW i \in 1 .. MaxDepth, NEW x \in Sub \cup {None}
             PROVE  Leaver(u, i, x)' <=>
                      \/ Leaver(u, i, x)
                      \/ u = t /\ i = Len(stack[t]) + 1 /\ f.op = "leave" /\ f.cur = x
  OBVIOUS
<1>3. CASE u # t
  BY <1>1, <1>3 DEF Leaver
<1>4. CASE u = t /\ i <= Len(stack[t])
  BY <1>1, <1>2, <1>4 DEF Leaver
<1>5. CASE u = t /\ i = Len(stack[t]) + 1
  BY <1>1, <1>2, <1>5 DEF Leaver
<1>6. CASE u = t /\ i > Len(stack[t]) + 1
  BY <1>1, <1>2, <1>6 DEF Leaver
<1> QED
  BY <1>2, <1>3, <1>4, <1>5, <1>6

LEMMA PopLeaver ==
  ASSUME TypeOK, NEW t \in Thread, stack[t] # <<>>, Pop(t)
  PROVE  \A u \in Thread, i \in 1 .. MaxDepth, x \in Sub \cup {None} :
           Leaver(u, i, x)' <=> Leaver(u, i, x) /\ ~(u = t /\ i = Len(stack[t]))
<1>1. /\ Len(stack[t]) \in Nat \ {0}
      /\ Len(stack'[t]) = Len(stack[t]) - 1
      /\ \A i \in 1 .. Len(stack[t]) - 1 : stack'[t][i] = stack[t][i]
      /\ \A u \in Thread \ {t} : stack'[u] = stack[u]
  BY PopFacts
<1> SUFFICES ASSUME NEW u \in Thread, NEW i \in 1 .. MaxDepth, NEW x \in Sub \cup {None}
             PROVE  Leaver(u, i, x)' <=> Leaver(u, i, x) /\ ~(u = t /\ i = Len(stack[t]))
  OBVIOUS
<1>2. CASE u # t
  BY <1>1, <1>2 DEF Leaver
<1>3. CASE u = t /\ i < Len(stack[t])
  BY <1>1, <1>3 DEF Leaver
<1>4. CASE u = t /\ i >= Len(stack[t])
  BY <1>1, <1>4 DEF Leaver
<1> QED
  BY <1>1, <1>2, <1>3, <1>4

LEMMA SetTopLeaver ==
  ASSUME TypeOK, NEW t \in Thread, In(t, "publish"),
         NEW f \in Frame, f.op = "publish", SetTop(t, f)
  PROVE  \A u \in Thread, i \in 1 .. MaxDepth, x \in Sub \cup {None} :
           Leaver(u, i, x)' <=> Leaver(u, i, x)
<1>1. /\ Len(stack[t]) \in Nat \ {0}
      /\ Len(stack'[t]) = Len(stack[t])
      /\ stack'[t][Len(stack[t])] = f
      /\ \A i \in 1 .. Len(stack[t]) - 1 : stack'[t][i] = stack[t][i]
      /\ \A u \in Thread \ {t} : stack'[u] = stack[u]
  BY SetTopFacts DEF In
<1> SUFFICES ASSUME NEW u \in Thread, NEW i \in 1 .. MaxDepth, NEW x \in Sub \cup {None}
             PROVE  Leaver(u, i, x)' <=> Leaver(u, i, x)
  OBVIOUS
<1>2. CASE u # t
  BY <1>1, <1>2 DEF Leaver
<1>3. CASE u = t /\ i < Len(stack[t])
  BY <1>1, <1>3 DEF Leaver
<1>4. CASE u = t /\ i = Len(stack[t])
  BY <1>1, <1>4 DEF Leaver, In, Top
<1>5. CASE u = t /\ i > Len(stack[t])
  BY <1>1, <1>5 DEF Leaver
<1> QED
  BY <1>1, <1>2, <1>3, <1>4, <1>5

\* A step that lets no new call wait.
LEMMA SameLeavers ==
  ASSUME LeaversOK,
         \A u \in Thread, i \in 1 .. MaxDepth, x \in Sub \cup {None} :
           Leaver(u, i, x)' => Leaver(u, i, x),
         \A x \in Sub : life[x] = "leaving" => life'[x] = "leaving"
  PROVE  LeaversOK'
BY DEF LeaversOK

-----------------------------------------------------------------------------
(* Which subscribers the stacks know of, after each operation. *)

CleanCall(f, s) == f.op = "publish" => f.cur # s /\ \A p \in f.todo : p[2] # s

LEMMA PushClean ==
  ASSUME TypeOK, NEW t \in Thread, NEW f \in Frame, Push(t, f),
         NEW s \in Sub, Clean(s), CleanCall(f, s)
  PROVE  Clean(s)'
<1>1. /\ Len(stack'[t]) = Len(stack[t]) + 1
      /\ stack'[t][Len(stack[t]) + 1] = f
      /\ \A i \in 1 .. Len(stack[t]) : stack'[t][i] = stack[t][i]
      /\ \A u \in Thread \ {t} : stack'[u] = stack[u]
  BY PushFacts
<1>2. Len(stack[t]) \in Nat
  BY DEF TypeOK
<1>3. \A u \in Thread : \A i \in 1 .. Len(stack[u]) : CleanCall(stack[u][i], s)
  BY DEF Clean, CleanCall
<1>4. \A u \in Thread : \A i \in 1 .. Len(stack'[u]) : CleanCall(stack'[u][i], s)
  <2> SUFFICES ASSUME NEW u \in Thread, NEW i \in 1 .. Len(stack'[u])
               PROVE  CleanCall(stack'[u][i], s)
    OBVIOUS
  <2>1. CASE u # t
    BY <1>1, <1>3, <2>1
  <2>2. CASE u = t /\ i <= Len(stack[t])
    BY <1>1, <1>2, <1>3, <2>2
  <2>3. CASE u = t /\ i = Len(stack[t]) + 1
    BY <1>1, <2>3
  <2> QED
    BY <1>1, <1>2, <2>1, <2>2, <2>3
<1> QED
  BY <1>4 DEF Clean, CleanCall

LEMMA PopClean ==
  ASSUME TypeOK, NEW t \in Thread, stack[t] # <<>>, Pop(t), NEW s \in Sub, Clean(s)
  PROVE  Clean(s)'
<1>1. /\ Len(stack[t]) \in Nat \ {0}
      /\ Len(stack'[t]) = Len(stack[t]) - 1
      /\ \A i \in 1 .. Len(stack[t]) - 1 : stack'[t][i] = stack[t][i]
      /\ \A u \in Thread \ {t} : stack'[u] = stack[u]
  BY PopFacts
<1>2. \A u \in Thread : \A i \in 1 .. Len(stack[u]) : CleanCall(stack[u][i], s)
  BY DEF Clean, CleanCall
<1>3. \A u \in Thread : \A i \in 1 .. Len(stack'[u]) : CleanCall(stack'[u][i], s)
  BY <1>1, <1>2
<1> QED
  BY <1>3 DEF Clean, CleanCall

LEMMA SetTopClean ==
  ASSUME TypeOK, NEW t \in Thread, stack[t] # <<>>, NEW f \in Frame, SetTop(t, f),
         NEW s \in Sub, Clean(s), CleanCall(f, s)
  PROVE  Clean(s)'
<1>1. /\ Len(stack[t]) \in Nat \ {0}
      /\ Len(stack'[t]) = Len(stack[t])
      /\ stack'[t][Len(stack[t])] = f
      /\ \A i \in 1 .. Len(stack[t]) - 1 : stack'[t][i] = stack[t][i]
      /\ \A u \in Thread \ {t} : stack'[u] = stack[u]
  BY SetTopFacts
<1>2. \A u \in Thread : \A i \in 1 .. Len(stack[u]) : CleanCall(stack[u][i], s)
  BY DEF Clean, CleanCall
<1>3. \A u \in Thread : \A i \in 1 .. Len(stack'[u]) : CleanCall(stack'[u][i], s)
  <2> SUFFICES ASSUME NEW u \in Thread, NEW i \in 1 .. Len(stack'[u])
               PROVE  CleanCall(stack'[u][i], s)
    OBVIOUS
  <2>1. CASE u # t
    BY <1>1, <1>2, <2>1
  <2>2. CASE u = t /\ i < Len(stack[t])
    BY <1>1, <1>2, <2>2
  <2>3. CASE u = t /\ i = Len(stack[t])
    BY <1>1, <2>3
  <2> QED
    BY <1>1, <2>1, <2>2, <2>3
<1> QED
  BY <1>3 DEF Clean, CleanCall

\* What the top of a stack knows of.
LEMMA TopClean ==
  ASSUME TypeOK, NEW t \in Thread, stack[t] # <<>>, NEW s \in Sub, Clean(s)
  PROVE  CleanCall(Top(t), s) /\ Top(t) \in Frame
<1>1. Len(stack[t]) \in 1 .. Len(stack[t]) /\ stack[t] \in Seq(Frame)
  BY DEF TypeOK
<1> QED
  BY <1>1 DEF Clean, CleanCall, Top

-----------------------------------------------------------------------------
LEMMA InitIInv == Init => IInv
<1> SUFFICES ASSUME Init PROVE IInv
  OBVIOUS
<1>1. \A t \in Thread : stack[t] = <<>> /\ Len(stack[t]) = 0
  BY DEF Init
<1>2. TypeOK
  <2>1. store \in [0 .. StoreSize - 1 -> Event]
    <3>1. (CHOOSE e \in Event : TRUE) \in Event
      BY HubAssumption DEF HubAssumption
    <3> QED
      BY <3>1 DEF Init
  <2>2. stack \in [Thread -> Seq(Frame)]
    BY DEF Init
  <2> QED
    BY <2>1, <2>2, HubAssumption DEF Init, TypeOK, HubAssumption, SinkSlot
<1>3. DepthOK
  BY <1>1, HubAssumption DEF DepthOK, HubAssumption
<1>4. Counted
  <2>1. InFlight = {}
    BY <1>1 DEF InFlight
  <2> QED
    BY <2>1, FS_EmptySet DEF Counted, Init
<1>5. TableOK
  BY DEF Init, TableOK
<1>6. NoCallAfterReturn
  BY <1>1 DEF NoCallAfterReturn, Frames
<1>7. LeaversOK
  BY <1>1 DEF LeaversOK, Leaver
<1> QED
  BY <1>2, <1>3, <1>4, <1>5, <1>6, <1>7 DEF IInv

LEMMA MayCallDepth ==
  ASSUME IInv, NEW t \in Thread, MayCall(t)
  PROVE  Len(stack[t]) < MaxDepth
BY HubAssumption DEF MayCall, HubAssumption

-----------------------------------------------------------------------------
(* IInv is kept by every action. *)

LEMMA SubscribeIInv ==
  ASSUME IInv, NEW t \in Thread, NEW s \in Sub, Subscribe(t, s)
  PROVE  IInv'
<1> USE DEF IInv
<1>1. PICK i \in SinkSlot : /\ FreeSlot(i)
                            /\ sinks' = [sinks EXCEPT ![i] = s]
                            /\ handle' = [handle EXCEPT ![s] = i]
  BY DEF Subscribe
<1>2. /\ life' = [life EXCEPT ![s] = "on"] /\ life[s] = "off"
      /\ UNCHANGED <<publishing, store, head, count, stack>>
  BY DEF Subscribe
<1>3. TypeOK'
  BY <1>1, <1>2 DEF TypeOK
<1>4. DepthOK' /\ Counted'
  BY <1>2 DEF DepthOK, Counted, InFlight
<1>5. TableOK'
  <2> SUFFICES ASSUME NEW j \in SinkSlot, sinks'[j] # None
               PROVE  life'[sinks'[j]] = "on" /\ handle'[sinks'[j]] = j
    BY DEF TableOK
  <2>1. CASE j = i
    BY <1>1, <1>2, <2>1 DEF TypeOK
  <2>2. CASE j # i
    <3>1. sinks'[j] = sinks[j] /\ sinks[j] \in Sub
      BY <1>1, <2>2 DEF TypeOK
    <3>2. life[sinks[j]] = "on" /\ handle[sinks[j]] = j
      BY <3>1 DEF TableOK
    <3>3. sinks[j] # s
      BY <3>2, <1>2
    <3> QED
      BY <1>1, <1>2, <3>1, <3>2, <3>3 DEF TypeOK
  <2> QED
    BY <2>1, <2>2
<1>6. NoCallAfterReturn'
  <2>1. \A x \in Sub : life'[x] = "off" => life[x] = "off"
    BY <1>2 DEF TypeOK
  <2>2. \A x \in Sub : Clean(x)' <=> Clean(x)
    BY <1>2 DEF Clean
  <2> QED
    BY <2>1, <2>2, CleanFrames
<1>7. LeaversOK'
  <2>1. \A x \in Sub : life[x] = "leaving" => life'[x] = "leaving"
    BY <1>2 DEF TypeOK
  <2>2. \A u \in Thread, i_1 \in 1 .. MaxDepth, x \in Sub \cup {None} :
          Leaver(u, i_1, x)' => Leaver(u, i_1, x)
    BY <1>2 DEF Leaver
  <2> QED
    BY <2>1, <2>2, SameLeavers
<1> QED
  BY <1>3, <1>4, <1>5, <1>6, <1>7

\* The table after the slot of a subscriber is cleared.
LEMMA ClearTable ==
  ASSUME TypeOK, TableOK, NEW s \in Sub, life[s] = "on",
         sinks' = [sinks EXCEPT ![handle[s]] = None],
         NEW l, life' = [life EXCEPT ![s] = l], handle' = handle
  PROVE  TableOK'
<1> SUFFICES ASSUME NEW j \in SinkSlot, sinks'[j] # None
             PROVE  life'[sinks'[j]] = "on" /\ handle'[sinks'[j]] = j
  BY DEF TableOK
<1>1. j # handle[s] /\ sinks'[j] = sinks[j] /\ sinks[j] \in Sub
  BY DEF TypeOK
<1>2. life[sinks[j]] = "on" /\ handle[sinks[j]] = j
  BY <1>1 DEF TableOK
<1>3. sinks[j] # s
  BY <1>1, <1>2
<1> QED
  BY <1>1, <1>2, <1>3 DEF TypeOK

\* With no publish in flight, no stack knows of any subscriber.
LEMMA QuietClean ==
  ASSUME TypeOK, DepthOK, Counted, publishing = 0, NEW s \in Sub
  PROVE  Clean(s)
<1>1. InFlight = {}
  BY InFlightFinite, FS_EmptySet DEF Counted
<1>2. \A t \in Thread : \A i \in 1 .. Len(stack[t]) : stack[t][i].op # "publish"
  <2> SUFFICES ASSUME NEW t \in Thread, NEW i \in 1 .. Len(stack[t])
               PROVE  stack[t][i].op # "publish"
    OBVIOUS
  <2>1. i \in 1 .. MaxDepth
    BY HubAssumption DEF TypeOK, DepthOK, HubAssumption
  <2>2. stack[t][i].op = "publish" => <<t, i>> \in InFlight
    BY <2>1 DEF InFlight, TypeOK
  <2> QED
    BY <1>1, <2>2
<1> QED
  BY <1>2 DEF Clean

LEMMA UnsubscribeIInv ==
  ASSUME IInv, NEW t \in Thread, NEW s \in Sub, Unsubscribe(t, s)
  PROVE  IInv'
<1> USE DEF IInv
<1>1. /\ life[s] = "on" /\ sinks' = [sinks EXCEPT ![handle[s]] = None]
      /\ UNCHANGED <<publishing, store, head, count, handle>>
  BY DEF Unsubscribe
<1>2. Len(stack[t]) < MaxDepth
  BY MayCallDepth DEF Unsubscribe
<1>3. CASE publishing > 0
  <2> DEFINE f == [op |-> "leave", todo |-> {}, cur |-> s]
  <2>1. life' = [life EXCEPT ![s] = "leaving"] /\ Push(t, f)
    BY <1>3 DEF Unsubscribe
  <2>2. f \in Frame /\ f.op = "leave"
    BY DEF Frame
  <2> HIDE DEF f
  <2>3. /\ stack' \in [Thread -> Seq(Frame)]
        /\ Len(stack'[t]) = Len(stack[t]) + 1
        /\ stack'[t][Len(stack[t]) + 1] = f
        /\ \A i \in 1 .. Len(stack[t]) : stack'[t][i] = stack[t][i]
        /\ \A u \in Thread \ {t} : stack'[u] = stack[u]
    BY <2>1, <2>2, PushFacts
  <2>4. DepthOK' /\ Counted'
    BY <1>1, <1>2, <2>1, <2>2, PushLeave DEF Counted
  <2>5. TypeOK'
    BY <1>1, <2>1, <2>3 DEF TypeOK
  <2>6. TableOK'
    BY <1>1, <2>1, ClearTable
  <2>7. \A x \in Sub : Clean(x) => Clean(x)'
    <3>1. \A x \in Sub : CleanCall(f, x)
      BY <2>2 DEF CleanCall
    <3> QED
      BY <2>1, <2>2, <3>1, PushClean
  <2>8. \A x \in Sub : life'[x] = "off" => life[x] = "off"
    BY <2>1 DEF TypeOK
  <2>9. NoCallAfterReturn'
    BY <2>7, <2>8, CleanFrames
  <2>10. LeaversOK'
    <3>1. f.cur = s
      BY DEF f
    <3>2. \A u \in Thread, i \in 1 .. MaxDepth, x \in Sub \cup {None} :
            Leaver(u, i, x)' <=>
              Leaver(u, i, x) \/ (u = t /\ i = Len(stack[t]) + 1 /\ x = s)
      BY <2>1, <2>2, <3>1, PushLeaver
    <3>3. s # None /\ life'[s] = "leaving"
          /\ \A x \in Sub : life[x] = "leaving" => life'[x] = "leaving"
      BY <2>1, HubAssumption DEF TypeOK, HubAssumption
    <3>4. \A u \in Thread, i \in 1 .. MaxDepth : ~Leaver(u, i, s)
      BY <1>1 DEF LeaversOK
    <3>5. \A u \in Thread, i \in 1 .. MaxDepth : ~Leaver(u, i, None)'
      BY <3>2, <3>3 DEF LeaversOK
    <3>6. \A u \in Thread, i \in 1 .. MaxDepth, x \in Sub :
            Leaver(u, i, x)' => life'[x] = "leaving"
      BY <3>2, <3>3 DEF LeaversOK
    <3>7. \A u, v \in Thread, i, j \in 1 .. MaxDepth, x \in Sub :
            Leaver(u, i, x)' /\ Leaver(v, j, x)' => u = v /\ i = j
      BY <3>2, <3>4 DEF LeaversOK
    <3> QED
      BY <3>5, <3>6, <3>7 DEF LeaversOK
  <2> QED
    BY <2>4, <2>5, <2>6, <2>9, <2>10
<1>4. CASE ~(publishing > 0)
  <2>1. life' = [life EXCEPT ![s] = "off"] /\ stack' = stack
    BY <1>4 DEF Unsubscribe
  <2>2. publishing = 0
    BY <1>4 DEF TypeOK
  <2>3. TypeOK'
    BY <1>1, <2>1 DEF TypeOK
  <2>4. DepthOK' /\ Counted'
    BY <1>1, <2>1 DEF DepthOK, Counted, InFlight
  <2>5. TableOK'
    BY <1>1, <2>1, ClearTable
  <2>6. \A x \in Sub : Clean(x)
    BY <2>2, QuietClean
  <2>7. NoCallAfterReturn'
    BY <2>1, <2>6, CleanFrames DEF Clean
  <2>8. LeaversOK'
    <3>1. \A x \in Sub : life[x] = "leaving" => life'[x] = "leaving"
      BY <1>1, <2>1 DEF TypeOK
    <3>2. \A u \in Thread, i \in 1 .. MaxDepth, x \in Sub \cup {None} :
            Leaver(u, i, x)' => Leaver(u, i, x)
      BY <2>1 DEF Leaver
    <3> QED
      BY <3>1, <3>2, SameLeavers
  <2> QED
    BY <2>3, <2>4, <2>5, <2>7, <2>8
<1> QED
  BY <1>3, <1>4

LEMMA LeaveIInv ==
  ASSUME IInv, NEW t \in Thread, Leave(t)
  PROVE  IInv'
<1> USE DEF IInv
<1>1. /\ In(t, "leave") /\ publishing = 0 /\ Pop(t)
      /\ life' = [life EXCEPT ![Top(t).cur] = "off"]
      /\ UNCHANGED <<sinks, publishing, store, head, count, handle>>
  BY DEF Leave, hubVars
<1>2. /\ stack' \in [Thread -> Seq(Frame)]
      /\ Len(stack[t]) \in Nat \ {0}
      /\ Len(stack'[t]) = Len(stack[t]) - 1
      /\ \A i \in 1 .. Len(stack[t]) - 1 : stack'[t][i] = stack[t][i]
      /\ \A u \in Thread \ {t} : stack'[u] = stack[u]
  BY <1>1, PopFacts DEF In
<1>3. TypeOK'
  BY <1>1, <1>2 DEF TypeOK
<1>4. DepthOK' /\ Counted'
  BY <1>1, PopLeave DEF Counted
<1>5. \A x \in Sub : Clean(x)'
  <2>1. \A x \in Sub : Clean(x)
    BY <1>1, QuietClean
  <2> QED
    BY <1>2, <2>1 DEF Clean
<1>6. NoCallAfterReturn'
  BY <1>5, CleanFrames
<1>7. PICK s \in Sub : Top(t).cur = s /\ Leaver(t, Len(stack[t]), s)
  <2>1. Len(stack[t]) \in 1 .. MaxDepth
    BY <1>2 DEF DepthOK
  <2>2. Top(t) \in Frame
    BY <1>2 DEF Top, TypeOK
  <2>3. Leaver(t, Len(stack[t]), Top(t).cur)
    BY <1>1, <1>2 DEF Leaver, In, Top
  <2>4. Top(t).cur # None
    BY <2>1, <2>3 DEF LeaversOK
  <2> QED
    BY <2>2, <2>3, <2>4 DEF Frame
<1>8. life[s] = "leaving" /\ life' = [life EXCEPT ![s] = "off"]
  <2>1. Len(stack[t]) \in 1 .. MaxDepth
    BY <1>2 DEF DepthOK
  <2> QED
    BY <1>1, <1>7, <2>1 DEF LeaversOK
<1>9. TableOK'
  BY <1>1, <1>8 DEF TableOK, TypeOK
<1>10. LeaversOK'
  <2>1. \A u \in Thread, i \in 1 .. MaxDepth, x \in Sub \cup {None} :
          Leaver(u, i, x)' <=> Leaver(u, i, x) /\ ~(u = t /\ i = Len(stack[t]))
    BY <1>1, PopLeaver DEF In
  <2>2. Len(stack[t]) \in 1 .. MaxDepth
    BY <1>2 DEF DepthOK
  <2>3. \A u \in Thread, i \in 1 .. MaxDepth : ~Leaver(u, i, s)'
    BY <1>7, <2>1, <2>2 DEF LeaversOK
  <2>4. \A x \in Sub : x # s => life'[x] = life[x]
    BY <1>8 DEF TypeOK
  <2>5. \A u \in Thread, i \in 1 .. MaxDepth, x \in Sub :
          Leaver(u, i, x)' => life'[x] = "leaving"
    BY <2>1, <2>3, <2>4 DEF LeaversOK
  <2> QED
    BY <2>1, <2>5 DEF LeaversOK
<1> QED
  BY <1>3, <1>4, <1>6, <1>9, <1>10

LEMMA PublishIInv ==
  ASSUME IInv, NEW t \in Thread, NEW e \in Event, Publish(t, e)
  PROVE  IInv'
<1> USE DEF IInv
<1> DEFINE f == [op |-> "publish", todo |-> Snapshot, cur |-> None]
<1>1. /\ Push(t, f) /\ publishing' = publishing + 1 /\ Record(e)
      /\ UNCHANGED <<sinks, life, handle>>
  BY DEF Publish
<1>2. f \in Frame /\ f.op = "publish"
  BY DEF Frame, Snapshot
<1>3. Len(stack[t]) < MaxDepth
  BY MayCallDepth DEF Publish
<1>4. \A x \in Sub : life[x] = "off" => CleanCall(f, x)
  BY HubAssumption DEF CleanCall, Snapshot, TableOK, TypeOK, HubAssumption
<1> HIDE DEF f
<1>5. DepthOK' /\ Counted'
  BY <1>1, <1>2, <1>3, PushPublish DEF Counted
<1>6. TypeOK'
  <2>1. stack' \in [Thread -> Seq(Frame)]
    BY <1>1, <1>2, PushFacts
  <2>2. head' \in 0 .. StoreSize - 1
    BY <1>1, HubAssumption DEF Record, TypeOK, HubAssumption
  <2>3. count' \in 0 .. StoreSize /\ store' \in [0 .. StoreSize - 1 -> Event]
    BY <1>1, HubAssumption DEF Record, MinOf, TypeOK, HubAssumption
  <2> QED
    BY <1>1, <2>1, <2>2, <2>3 DEF TypeOK
<1>7. TableOK'
  BY <1>1 DEF TableOK
<1>8. LeaversOK'
  <2>1. \A u \in Thread, i \in 1 .. MaxDepth, x \in Sub \cup {None} :
          Leaver(u, i, x)' => Leaver(u, i, x)
    BY <1>1, <1>2, PushLeaver
  <2> QED
    BY <1>1, <2>1, SameLeavers
<1>9. NoCallAfterReturn'
  <2>1. \A x \in Sub : life'[x] = "off" => Clean(x)'
    BY <1>1, <1>2, <1>4, PushClean, CleanFrames
  <2> QED
    BY <2>1, CleanFrames
<1> QED
  BY <1>5, <1>6, <1>7, <1>8, <1>9

\* Call and Return: the publish on top goes on, with no new sink in it.
LEMMA SetTopIInv ==
  ASSUME IInv, NEW t \in Thread, In(t, "publish"),
         NEW f \in Frame, f.op = "publish", SetTop(t, f),
         \A x \in Sub : CleanCall(Top(t), x) => CleanCall(f, x),
         UNCHANGED <<hubVars, life, handle>>
  PROVE  IInv'
<1> USE DEF IInv
<1>1. stack[t] # <<>>
  BY DEF In
<1>2. TypeOK'
  BY <1>1, SetTopFacts DEF TypeOK, hubVars
<1>3. DepthOK' /\ Counted'
  BY SetTopPublish DEF Counted, hubVars
<1>4. TableOK'
  BY DEF TableOK, hubVars
<1>5. LeaversOK'
  BY SetTopLeaver, SameLeavers
<1>6. NoCallAfterReturn'
  <2>1. \A x \in Sub : Clean(x) => CleanCall(f, x)
    BY <1>1, TopClean
  <2>2. \A x \in Sub : life'[x] = "off" => Clean(x)'
    BY <1>1, <2>1, SetTopClean, CleanFrames
  <2> QED
    BY <2>2, CleanFrames
<1> QED
  BY <1>2, <1>3, <1>4, <1>5, <1>6

LEMMA CallIInv ==
  ASSUME IInv, NEW t \in Thread, Call(t)
  PROVE  IInv'
<1>1. In(t, "publish") /\ UNCHANGED <<hubVars, life, handle>>
  BY DEF Call
<1>2. Top(t) \in Frame
  BY <1>1 DEF In, Top, IInv, TypeOK
<1>3. PICK p \in Top(t).todo :
        SetTop(t, [op |-> "publish", todo |-> Top(t).todo \ {p}, cur |-> p[2]])
  BY DEF Call
<1> DEFINE f == [op |-> "publish", todo |-> Top(t).todo \ {p}, cur |-> p[2]]
<1>4. f \in Frame /\ f.op = "publish"
  BY <1>2 DEF Frame
<1>5. \A x \in Sub : CleanCall(Top(t), x) => CleanCall(f, x)
  BY <1>1 DEF CleanCall, In
<1> QED
  BY <1>1, <1>3, <1>4, <1>5, SetTopIInv

LEMMA ReturnIInv ==
  ASSUME IInv, NEW t \in Thread, Return(t)
  PROVE  IInv'
<1>1. In(t, "publish") /\ UNCHANGED <<hubVars, life, handle>>
  BY DEF Return
<1>2. Top(t) \in Frame /\ Top(t).op = "publish"
  BY <1>1 DEF In, Top, IInv, TypeOK
<1> DEFINE f == [Top(t) EXCEPT !.cur = None]
<1>3. f \in Frame /\ f.op = "publish" /\ f.cur = None /\ f.todo = Top(t).todo
  BY <1>2 DEF Frame
<1>4. \A x \in Sub : CleanCall(Top(t), x) => CleanCall(f, x)
  BY <1>2, <1>3, HubAssumption DEF CleanCall, HubAssumption
<1>5. SetTop(t, f)
  BY DEF Return
<1> QED
  BY <1>1, <1>3, <1>4, <1>5, SetTopIInv

LEMMA PublishedIInv ==
  ASSUME IInv, NEW t \in Thread, Published(t)
  PROVE  IInv'
<1> USE DEF IInv
<1>1. /\ In(t, "publish") /\ stack[t] # <<>> /\ Pop(t) /\ publishing' = publishing - 1
      /\ UNCHANGED <<sinks, store, head, count, life, handle>>
  BY DEF Published, In
<1>2. DepthOK' /\ Counted' /\ publishing' \in Nat
  BY <1>1, PopPublish DEF Counted
<1>3. TypeOK'
  BY <1>1, <1>2, PopFacts DEF TypeOK
<1>4. TableOK'
  BY <1>1 DEF TableOK
<1>5. LeaversOK'
  BY <1>1, PopLeaver, SameLeavers
<1>6. NoCallAfterReturn'
  <2>1. \A x \in Sub : life'[x] = "off" => Clean(x)'
    BY <1>1, PopClean, CleanFrames
  <2> QED
    BY <2>1, CleanFrames
<1> QED
  BY <1>2, <1>3, <1>4, <1>5, <1>6

LEMMA StutterIInv == IInv /\ UNCHANGED vars => IInv'
BY DEF IInv, TypeOK, DepthOK, Counted, InFlight, TableOK, LeaversOK, Leaver,
       NoCallAfterReturn, Frames, vars, hubVars

-----------------------------------------------------------------------------
(* The invariant of the hub. *)
THEOREM HubInvariant == Spec => []IInv
<1>1. IInv /\ [Next]_vars => IInv'
  <2> SUFFICES ASSUME IInv, [Next]_vars PROVE IInv'
    OBVIOUS
  <2>1. ASSUME NEW t \in Thread, NEW s \in Sub, Subscribe(t, s) PROVE IInv'
    BY <2>1, SubscribeIInv
  <2>2. ASSUME NEW t \in Thread, NEW s \in Sub, Unsubscribe(t, s) PROVE IInv'
    BY <2>2, UnsubscribeIInv
  <2>3. ASSUME NEW t \in Thread, NEW e \in Event, Publish(t, e) PROVE IInv'
    BY <2>3, PublishIInv
  <2>4. ASSUME NEW t \in Thread, Leave(t) PROVE IInv'
    BY <2>4, LeaveIInv
  <2>5. ASSUME NEW t \in Thread, Call(t) PROVE IInv'
    BY <2>5, CallIInv
  <2>6. ASSUME NEW t \in Thread, Return(t) PROVE IInv'
    BY <2>6, ReturnIInv
  <2>7. ASSUME NEW t \in Thread, Published(t) PROVE IInv'
    BY <2>7, PublishedIInv
  <2>8. CASE UNCHANGED vars
    BY <2>8, StutterIInv
  <2> QED
    BY <2>1, <2>2, <2>3, <2>4, <2>5, <2>6, <2>7, <2>8
       DEF Next, PublishSome, Continue
<1> QED
  BY InitIInv, <1>1, PTL DEF Spec

(***************************************************************************)
(* For any numbers of threads, subscribers and slots, with or without      *)
(* sinks that call the hub: once nop_event_unsubscribe has returned, no    *)
(* publish calls the subscriber, so that its context may be freed.         *)
(***************************************************************************)
THEOREM BarrierHolds == Spec => []NoCallAfterReturn
<1>1. IInv => NoCallAfterReturn
  BY DEF IInv
<1> QED
  BY HubInvariant, <1>1, PTL


-----------------------------------------------------------------------------
(* The ring of recent events. *)

(***************************************************************************)
(* The ring holds the last events: the newest is one slot before head, and *)
(* each older one a slot before that, around the wrap.                     *)
(***************************************************************************)
Back(h, i) == (h - i + StoreSize) % StoreSize
RingHolds ==
  /\ log \in Seq(Event) /\ Len(log) = count
  /\ \A i \in 1 .. count : log[i] = store[Back(head, i)]

LEMMA BackSlots ==
  ASSUME NEW h \in 0 .. StoreSize - 1
  PROVE  /\ (h + 1) % StoreSize \in 0 .. StoreSize - 1
         /\ \A i \in 1 .. StoreSize : Back(h, i) \in 0 .. StoreSize - 1
         /\ Back((h + 1) % StoreSize, 1) = h
         /\ \A i \in 1 .. StoreSize - 1 : /\ Back((h + 1) % StoreSize, i + 1) = Back(h, i)
                                          /\ Back(h, i) # h
<1>1. StoreSize \in Nat \ {0}
  BY HubAssumption
<1>2. (h + 1) % StoreSize = IF h + 1 = StoreSize THEN 0 ELSE h + 1
  BY <1>1
<1>3. \A i \in 1 .. StoreSize : Back(h, i) = IF i <= h THEN h - i ELSE h - i + StoreSize
  BY <1>1 DEF Back
<1> DEFINE n == (h + 1) % StoreSize
<1>4. n \in 0 .. StoreSize - 1
  BY <1>1, <1>2
<1> HIDE DEF n
<1>5. \A i \in 1 .. StoreSize : Back(n, i) = IF i <= n THEN n - i ELSE n - i + StoreSize
  BY <1>1, <1>4 DEF Back
<1>6. n = IF h + 1 = StoreSize THEN 0 ELSE h + 1
  BY <1>2 DEF n
<1>7. Back(n, 1) = h
  BY <1>1, <1>5, <1>6
<1>8. ASSUME NEW i \in 1 .. StoreSize - 1
      PROVE  Back(n, i + 1) = Back(h, i) /\ Back(h, i) # h
  <2>1. i + 1 \in 1 .. StoreSize /\ i \in 1 .. StoreSize
    BY <1>1
  <2>2. Back(n, i + 1) = IF i + 1 <= n THEN n - (i + 1) ELSE n - (i + 1) + StoreSize
    BY <1>5, <2>1
  <2>3. QED
    BY <1>1, <1>3, <1>6, <2>1, <2>2
<1>9. \A i \in 1 .. StoreSize : Back(h, i) \in 0 .. StoreSize - 1
  BY <1>1, <1>3
<1>10. QED
  BY <1>4, <1>7, <1>8, <1>9 DEF n

\* nop_event_publish.
LEMMA RecordHolds ==
  ASSUME TypeOK, RingHolds, NEW e \in Event, Record(e)
  PROVE  RingHolds'
<1> DEFINE s == <<e>> \o log
           n == MinOf(Len(log) + 1, StoreSize)
<1>1. /\ head \in 0 .. StoreSize - 1 /\ count \in 0 .. StoreSize
      /\ store \in [0 .. StoreSize - 1 -> Event]
      /\ log \in Seq(Event) /\ Len(log) = count
      /\ StoreSize \in Nat \ {0}
  BY HubAssumption DEF TypeOK, RingHolds
<1>2. /\ store' = [store EXCEPT ![head] = e] /\ head' = (head + 1) % StoreSize
      /\ count' = MinOf(count + 1, StoreSize) /\ log' = SubSeq(s, 1, n)
  BY DEF Record
<1>3. n \in 1 .. StoreSize /\ n <= count + 1 /\ count' = n
  BY <1>1, <1>2 DEF MinOf
<1>4. /\ s \in Seq(Event) /\ Len(s) = count + 1 /\ s[1] = e
      /\ \A i \in 2 .. count + 1 : s[i] = log[i - 1]
  <2>1. <<e>> \in Seq(Event) /\ Len(<<e>>) = 1 /\ <<e>>[1] = e
    OBVIOUS
  <2>2. /\ s \in Seq(Event) /\ Len(s) = 1 + Len(log)
        /\ \A i \in 1 .. 1 + Len(log) : s[i] = IF i <= 1 THEN <<e>>[i] ELSE log[i - 1]
    BY <1>1, <2>1, ConcatProperties
  <2> HIDE DEF s
  <2>3. QED
    BY <1>1, <2>1, <2>2
<1> HIDE DEF s, n
<1>5. log' \in Seq(Event) /\ Len(log') = n /\ \A i \in 1 .. n : log'[i] = s[i]
  <2>1. \A i \in 1 .. n : s[i] \in Event
    BY <1>1, <1>3, <1>4
  <2>2. QED
    BY <1>1, <1>2, <1>3, <1>4, <2>1, SubSeqProperties
<1>6. ASSUME NEW i \in 1 .. n
      PROVE  log'[i] = store'[Back(head', i)]
  <2>1. CASE i = 1
    <3>1. Back(head', 1) = head
      BY <1>1, <1>2, BackSlots
    <3>2. QED
      BY <1>1, <1>2, <1>4, <1>5, <2>1, <3>1
  <2>2. CASE i # 1
    <3> DEFINE j == i - 1
    <3>1. j \in 1 .. StoreSize - 1 /\ j \in 1 .. count /\ i = j + 1 /\ i \in 2 .. count + 1
      BY <1>1, <1>3, <2>2
    <3>2. log'[i] = log[j]
      BY <1>4, <1>5, <3>1
    <3> HIDE DEF j
    <3>3. log[j] = store[Back(head, j)]
      BY <3>1 DEF RingHolds
    <3>4. Back(head', i) = Back(head, j) /\ Back(head, j) # head
      BY <1>1, <1>2, <3>1, BackSlots
    <3>5. Back(head, j) \in 0 .. StoreSize - 1
      <4>1. j \in 1 .. StoreSize
        BY <1>1, <3>1
      <4>2. \A k \in 1 .. StoreSize : Back(head, k) \in 0 .. StoreSize - 1
        BY <1>1, BackSlots
      <4>3. QED
        BY <4>1, <4>2
    <3>6. store'[Back(head, j)] = store[Back(head, j)]
      BY <1>1, <1>2, <3>4, <3>5
    <3>7. QED
      BY <3>2, <3>3, <3>4, <3>6
  <2>3. QED
    BY <2>1, <2>2
<1>7. QED
  BY <1>3, <1>5, <1>6 DEF RingHolds

\* What the ring holds is what nop_event_hub_recent returns.
LEMMA HoldsExact ==
  ASSUME TypeOK, RingHolds
  PROVE  RecentExact
<1> SUFFICES ASSUME NEW max \in 1 .. StoreSize + 1
             PROVE  Recent(max) = SubSeq(log, 1, MinOf(max, Len(log)))
  BY DEF RecentExact
<1> DEFINE n == MinOf(count, max)
           r == SubSeq(log, 1, n)
<1>1. /\ count \in 0 .. StoreSize /\ log \in Seq(Event) /\ Len(log) = count
      /\ StoreSize \in Nat \ {0}
  BY HubAssumption DEF TypeOK, RingHolds
<1>2. n = MinOf(max, Len(log)) /\ n \in Nat /\ n <= count
  BY <1>1 DEF MinOf
<1>3. Recent(max) = [i \in 1 .. n |-> store[Back(head, i)]]
  BY DEF Recent, Back
<1> HIDE DEF n
<1>4. r = [i \in 1 .. n |-> log[i]]
  <2>1. \A i \in 1 .. n : log[i] \in Event
    BY <1>1, <1>2
  <2>2. r \in Seq(Event) /\ Len(r) = n /\ \A i \in 1 .. n : r[i] = log[i]
    BY <1>1, <1>2, <2>1, SubSeqProperties
  <2> HIDE DEF r
  <2>3. r = [i \in 1 .. Len(r) |-> r[i]]
    BY <2>2
  <2>4. QED
    BY <2>2, <2>3
<1> HIDE DEF r
<1>5. \A i \in 1 .. n : log[i] = store[Back(head, i)]
  BY <1>1, <1>2 DEF RingHolds
<1>6. r = Recent(max)
  BY <1>3, <1>4, <1>5
<1>7. QED
  BY <1>2, <1>6 DEF r

(***************************************************************************)
(* nop_event_hub_recent returns the last events, newest first, as many as  *)
(* it is asked for and the ring holds: for every size of the ring, however *)
(* often it wrapped, and whichever threads publish.                        *)
(***************************************************************************)
THEOREM RecentIsExact == Spec => []RecentExact
<1>1. Init => RingHolds
  BY DEF Init, RingHolds
<1>2. IInv /\ RingHolds /\ [Next]_vars => RingHolds'
  <2> SUFFICES ASSUME TypeOK, RingHolds, [Next]_vars PROVE RingHolds'
    BY DEF IInv
  <2>1. ASSUME NEW t \in Thread, NEW e \in Event, Publish(t, e) PROVE RingHolds'
    BY <2>1, RecordHolds DEF Publish
  <2>2. CASE UNCHANGED <<store, head, count, log>>
    BY <2>2 DEF RingHolds
  <2>3. QED
    BY <2>1, <2>2 DEF Next, PublishSome, Continue, Subscribe, Unsubscribe, Leave, Call, Return,
                      Published, vars, hubVars
<1>3. IInv /\ RingHolds => RecentExact
  BY HoldsExact DEF IInv
<1>4. QED
  BY HubInvariant, <1>1, <1>2, <1>3, PTL DEF Spec
=============================================================================
