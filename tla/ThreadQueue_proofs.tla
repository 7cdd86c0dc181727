------------------------- MODULE ThreadQueue_proofs -------------------------
(***************************************************************************)
(* Theorems about ThreadQueue, for any number of poppers, any data, and    *)
(* with or without spurious wakeups.                                       *)
(***************************************************************************)
EXTENDS ThreadQueue, FiniteSetTheorems, SequenceTheorems, TLAPS

-----------------------------------------------------------------------------
(* Type correctness.                                                       *)
THEOREM Typing == Spec => []TypeOK
<1>1. Init => TypeOK
  <2>1. << >> \in Seq(Data)
    OBVIOUS
  <2> QED
    BY <2>1, Zenon DEF Init, TypeOK
<1>2. TypeOK /\ [Next]_vars => TypeOK'
  <2> SUFFICES ASSUME TypeOK, [Next]_vars PROVE TypeOK'
    OBVIOUS
  <2> USE DEF TypeOK
  <2>0. q # << >> => Tail(q) \in Seq(Data) /\ Append(popped, Head(q)) \in Seq(Data)
    BY HeadTailProperties, AppendProperties
  <2>1. ASSUME NEW d \in Data, Push(d) PROVE TypeOK'
    BY <2>1 DEF Push, Signal
  <2>2. CASE PushRefused
    BY <2>2 DEF PushRefused, Signal
  <2>3. ASSUME NEW f \in BOOLEAN, FreezeThaw(f) PROVE TypeOK'
    BY <2>3 DEF FreezeThaw, Signal
  <2>4. ASSUME NEW p \in Poppers, PopNow(p) PROVE TypeOK'
    BY <2>0, <2>4 DEF PopNow, Take, Idle
  <2>5. ASSUME NEW p \in Poppers, PopWait(p) PROVE TypeOK'
    BY <2>5 DEF PopWait, Idle
  <2>6. ASSUME NEW p \in Poppers, PopWoken(p) PROVE TypeOK'
    <3>1. CASE q # << >>
      BY <2>0, <2>6, <3>1 DEF PopWoken, Take
    <3>2. CASE q = << >>
      BY <2>6, <3>2 DEF PopWoken
    <3> QED
      BY <3>1, <3>2
  <2>7. ASSUME NEW p \in Poppers, WakeSpuriously(p) PROVE TypeOK'
    BY <2>7 DEF WakeSpuriously
  <2>8. CASE UNCHANGED vars
    BY <2>8 DEF vars
  <2> QED
    BY <2>1, <2>2, <2>3, <2>4, <2>5, <2>6, <2>7, <2>8 DEF Next, Pop
<1> QED
  BY <1>1, <1>2, PTL DEF Spec

-----------------------------------------------------------------------------
(* No wakeup is lost. A push makes the list longer by one and wakes one    *)
(* popper, if one sleeps; a popper that was woken takes one datum or finds *)
(* none; a popper goes to sleep only on an empty list.                     *)
THEOREM WakeupsAreNotLost == Spec => []NoLostWakeup
<1> USE QueueAssumption
<1>1. Init => NoLostWakeup
  BY FS_EmptySet DEF Init, NoLostWakeup
<1>2. TypeOK /\ NoLostWakeup /\ [Next]_vars => NoLostWakeup'
  <2> SUFFICES ASSUME TypeOK, NoLostWakeup, [Next]_vars PROVE NoLostWakeup'
    OBVIOUS
  <2> USE DEF NoLostWakeup
  <2>0. IsFiniteSet(woken) /\ Cardinality(woken) \in Nat /\ Len(q) \in Nat
    BY FS_Subset, FS_CardinalityType DEF TypeOK
  <2>1. ASSUME NEW p \in waiting, woken' = woken \cup {p}
        PROVE  Cardinality(woken') = Cardinality(woken) + 1
    BY <2>0, <2>1, FS_AddElement DEF TypeOK
  <2>2. Signal => \/ waiting' = {} /\ woken' = woken
                  \/ Cardinality(woken') = Cardinality(woken) + 1 /\ waiting # {}
    BY <2>1 DEF Signal
  <2>3. ASSUME NEW d \in Data, Push(d) PROVE NoLostWakeup'
    <3>1. Len(q') = Len(q) + 1
      BY <2>3 DEF Push, TypeOK
    <3> QED
      BY <2>0, <2>2, <2>3, <3>1 DEF Push
  <2>4. CASE PushRefused
    BY <2>0, <2>2, <2>4 DEF PushRefused
  <2>5. ASSUME NEW f \in BOOLEAN, FreezeThaw(f) PROVE NoLostWakeup'
    BY <2>0, <2>2, <2>5 DEF FreezeThaw
  <2>6. ASSUME q # << >>, q' = Tail(q) PROVE Len(q') = Len(q) - 1
    BY <2>6 DEF TypeOK
  <2>7. ASSUME NEW p \in Poppers, PopNow(p) PROVE NoLostWakeup'
    BY <2>0, <2>6, <2>7 DEF PopNow, Take
  <2>8. ASSUME NEW p \in Poppers, PopWait(p) PROVE NoLostWakeup'
    BY <2>0, <2>8 DEF PopWait
  <2>9. ASSUME NEW p \in Poppers, PopWoken(p) PROVE NoLostWakeup'
    <3>1. Cardinality(woken') = Cardinality(woken) - 1
      BY <2>0, <2>9, FS_RemoveElement DEF PopWoken
    <3>2. CASE q # << >>
      BY <2>0, <2>6, <2>9, <3>1, <3>2 DEF PopWoken, Take
    <3>3. CASE q = << >>
      <4>1. Len(q') = 0
        BY <2>9, <3>3 DEF PopWoken
      <4>2. Cardinality(woken') \in Nat
        BY <2>0, <2>9, FS_RemoveElement, FS_CardinalityType DEF PopWoken
      <4> QED
        BY <4>1, <4>2
    <3> QED
      BY <3>2, <3>3
  <2>10. ASSUME NEW p \in Poppers, WakeSpuriously(p) PROVE NoLostWakeup'
    BY <2>0, <2>1, <2>10 DEF WakeSpuriously
  <2>11. CASE UNCHANGED vars
    BY <2>11 DEF vars
  <2> QED
    BY <2>3, <2>4, <2>5, <2>7, <2>8, <2>9, <2>10, <2>11 DEF Next, Pop
<1> QED
  BY <1>1, <1>2, Typing, PTL DEF Spec

-----------------------------------------------------------------------------
(* Nothing is lost, doubled or reordered between push and pop. *)
THEOREM Conservation == Spec => []Conserved
<1>1. Init => Conserved
  BY DEF Init, Conserved
<1>2. TypeOK /\ Conserved /\ [Next]_vars => Conserved'
  <2> SUFFICES ASSUME TypeOK, Conserved, [Next]_vars PROVE Conserved'
    OBVIOUS
  <2> USE DEF TypeOK, Conserved
  <2>1. ASSUME NEW d \in Data, Push(d) PROVE Conserved'
    <3>1. /\ Len(q') = Len(q) + 1 /\ Len(pushed') = Len(pushed) + 1
          /\ \A i \in 1 .. Len(q) : q'[i] = q[i]
          /\ \A i \in 1 .. Len(pushed) : pushed'[i] = pushed[i]
          /\ q'[Len(q) + 1] = d /\ pushed'[Len(pushed) + 1] = d
          /\ popped' = popped
      <4>1. q \in Seq(Data) /\ pushed \in Seq(Data)
        OBVIOUS
      <4>2. q' = Append(q, d) /\ pushed' = Append(pushed, d) /\ popped' = popped
        BY <2>1 DEF Push
      <4> HIDE DEF TypeOK, Conserved
      <4> QED
        BY <4>1, <4>2, AppendProperties
    <3>2. Len(popped) \in Nat /\ Len(q) \in Nat /\ Len(pushed) = Len(popped) + Len(q)
      OBVIOUS
    <3>3. Len(pushed') = Len(popped') + Len(q')
      BY <3>1, <3>2
    <3>4. ASSUME NEW i \in 1 .. Len(popped') PROVE pushed'[i] = popped'[i]
      <4>1. i \in 1 .. Len(pushed) /\ i \in 1 .. Len(popped)
        BY <3>1, <3>2
      <4> QED
        BY <3>1, <4>1
    <3>5. ASSUME NEW i \in 1 .. Len(q') PROVE pushed'[Len(popped') + i] = q'[i]
      <4>1. CASE i \in 1 .. Len(q)
        <5>1. Len(popped) + i \in 1 .. Len(pushed)
          BY <3>2, <4>1
        <5> QED
          BY <3>1, <4>1, <5>1
      <4>2. CASE i = Len(q) + 1
        <5>1. Len(popped) + i = Len(pushed) + 1
          BY <3>2, <4>2
        <5> QED
          BY <3>1, <4>2, <5>1
      <4> QED
        BY <3>1, <3>2, <4>1, <4>2
    <3> QED
      BY <3>3, <3>4, <3>5
  <2>2. ASSUME NEW p \in Poppers, Take(p), q # << >>, UNCHANGED pushed
        PROVE  Conserved'
    <3>1. /\ Len(q') = Len(q) - 1 /\ Len(popped') = Len(popped) + 1
          /\ \A i \in 1 .. Len(q) - 1 : q'[i] = q[i + 1]
          /\ \A i \in 1 .. Len(popped) : popped'[i] = popped[i]
          /\ popped'[Len(popped) + 1] = q[1]
      BY <2>2 DEF Take
    <3>2. Len(popped) \in Nat /\ Len(q) \in Nat /\ Len(q) >= 1 /\ pushed' = pushed
      BY <2>2
    <3>3. Len(pushed') = Len(popped') + Len(q')
      BY <3>1, <3>2
    <3>4. ASSUME NEW i \in 1 .. Len(popped') PROVE pushed'[i] = popped'[i]
      <4>1. CASE i \in 1 .. Len(popped)
        BY <3>1, <3>2, <4>1
      <4>2. CASE i = Len(popped) + 1
        <5>1. 1 \in 1 .. Len(q)
          BY <3>2
        <5> QED
          BY <3>1, <3>2, <4>2, <5>1
      <4> QED
        BY <3>1, <3>2, <4>1, <4>2
    <3>5. ASSUME NEW i \in 1 .. Len(q') PROVE pushed'[Len(popped') + i] = q'[i]
      <4>1. i + 1 \in 1 .. Len(q) /\ q'[i] = q[i + 1]
        BY <3>1, <3>2
      <4>2. Len(popped') + i = Len(popped) + (i + 1)
        BY <3>1, <3>2
      <4> QED
        BY <3>2, <4>1, <4>2
    <3> QED
      BY <3>3, <3>4, <3>5
  <2>3. CASE UNCHANGED <<q, pushed, popped>>
    BY <2>3
  <2> QED
    BY <2>1, <2>2, <2>3 DEF Next, Pop, PushRefused, FreezeThaw, PopNow, PopWait,
       PopWoken, WakeSpuriously, vars
<1> QED
  BY <1>1, <1>2, Typing, PTL DEF Spec

(* The queue is a FIFO channel: a push accepts a datum, a pop that finds   *)
(* one delivers the oldest, and everything else is invisible.              *)
THEOREM QueueIsFifo == Spec => ImplementsFifo
<1> USE DEF Channel!FifoInit, Channel!FifoNext, Channel!Accept, Channel!Deliver
<1>1. Init => Channel!FifoInit
  BY DEF Init
<1>2. TypeOK /\ Conserved /\ [Next]_vars
        => [Channel!FifoNext]_<<pushed, popped>>
  <2> SUFFICES ASSUME TypeOK, Conserved, [Next]_vars
               PROVE  [Channel!FifoNext]_<<pushed, popped>>
    OBVIOUS
  <2>1. ASSUME NEW d \in Data, Push(d) PROVE Channel!FifoNext
    BY <2>1 DEF Push
  <2>2. ASSUME NEW p \in Poppers, Take(p), q # << >>, UNCHANGED pushed
        PROVE  Channel!FifoNext
    <3>1. Head(q) = pushed[Len(popped) + 1] /\ Len(popped) < Len(pushed)
      BY <2>2 DEF TypeOK, Conserved
    <3> QED
      BY <2>2, <3>1 DEF Take
  <2>3. CASE UNCHANGED <<pushed, popped>>
    BY <2>3
  <2> QED
    BY <2>1, <2>2, <2>3 DEF Next, Pop, PushRefused, FreezeThaw, PopNow, PopWait,
       PopWoken, WakeSpuriously, vars
<1> QED
  BY <1>1, <1>2, Typing, Conservation, PTL DEF Spec, ImplementsFifo, Channel!FifoSpec

-----------------------------------------------------------------------------
(* NULL has a cause. While nothing but accepted pushes woke a popper and   *)
(* nobody took a datum past one that was woken, there is a datum for every *)
(* popper that was woken.                                                  *)
DatumForEach == silent => empty = {} /\ Cardinality(woken) <= Len(q)

THEOREM NullHasACause == Spec => []NullIsAnEnd
<1> USE QueueAssumption
<1>1. Init => DatumForEach
  BY FS_EmptySet DEF Init, DatumForEach
<1>2. TypeOK /\ DatumForEach /\ [Next]_vars => DatumForEach'
  <2> SUFFICES ASSUME TypeOK, DatumForEach, [Next]_vars, silent' PROVE DatumForEach'
    BY DEF DatumForEach
  <2> USE DEF DatumForEach
  <2>0. IsFiniteSet(woken) /\ Cardinality(woken) \in Nat /\ Len(q) \in Nat
    BY FS_Subset, FS_CardinalityType DEF TypeOK
  <2>1. ASSUME q # << >>, q' = Tail(q) PROVE Len(q') = Len(q) - 1
    BY <2>1 DEF TypeOK
  <2>2. ASSUME NEW d \in Data, Push(d) PROVE DatumForEach'
    <3>1. Len(q') = Len(q) + 1
      BY <2>2 DEF Push, TypeOK
    <3>2. Cardinality(woken') \in {Cardinality(woken), Cardinality(woken) + 1}
      <4>1. ASSUME NEW p \in waiting, woken' = woken \cup {p}
            PROVE  Cardinality(woken') = Cardinality(woken) + 1
        BY <2>0, <4>1, FS_AddElement DEF TypeOK
      <4> QED
        BY <2>2, <4>1 DEF Push, Signal
    <3> QED
      BY <2>0, <2>2, <3>1, <3>2 DEF Push
  <2>3. ASSUME NEW p \in Poppers, PopNow(p) PROVE DatumForEach'
    <3>1. woken = {} /\ woken' = {} /\ silent /\ empty' = {}
      BY <2>3 DEF PopNow, Take
    <3>2. Cardinality(woken') = 0
      BY <3>1, FS_EmptySet
    <3>3. Len(q') \in Nat
      BY <2>0, <2>1, <2>3 DEF PopNow, Take, TypeOK
    <3> QED
      BY <3>1, <3>2, <3>3
  <2>4. ASSUME NEW p \in Poppers, PopWait(p) PROVE DatumForEach'
    BY <2>4 DEF PopWait
  <2>5. ASSUME NEW p \in Poppers, PopWoken(p) PROVE DatumForEach'
    <3>1. Cardinality(woken') = Cardinality(woken) - 1 /\ Cardinality(woken') \in Nat
      BY <2>0, <2>5, FS_RemoveElement, FS_CardinalityType DEF PopWoken
    <3>2. silent /\ Len(q) >= 1 /\ q # << >>
      <4>1. silent /\ Len(q) >= 1
        BY <2>0, <2>5, <3>1 DEF PopWoken
      <4> QED
        BY <4>1
    <3> QED
      BY <2>0, <2>1, <2>5, <3>1, <3>2 DEF PopWoken, Take
  <2>6. CASE UNCHANGED vars
    BY <2>6 DEF vars
  <2> QED
    BY <2>2, <2>3, <2>4, <2>5, <2>6 DEF Next, Pop, PushRefused, FreezeThaw, WakeSpuriously
<1> QED
  BY <1>1, <1>2, Typing, PTL DEF Spec, NullIsAnEnd, DatumForEach

=============================================================================
