--------------------------- MODULE MergeEachProofs ---------------------------
(***************************************************************************)
(* Proofs about MergeEach for any number of child sequences.               *)
(***************************************************************************)
EXTENDS MergeEach, TLAPS, FiniteSetTheorems

(* The children that are pending are finitely many, and none is left when  *)
(* their number is 0.                                                      *)
LEMMA PendingFinite ==
  /\ IsFiniteSet(Pending)
  /\ Cardinality(Pending) \in Nat
  /\ Cardinality(Pending) <= N
  /\ Cardinality(Pending) = 0 <=> Pending = {}
<1>1. IsFiniteSet(Children) /\ Cardinality(Children) = N
  BY FS_Interval, NAssumption DEF Children
<1>2. Pending \in SUBSET Children
  BY DEF Pending
<1>3. IsFiniteSet(Pending) /\ Cardinality(Pending) <= N
  BY <1>1, <1>2, FS_Subset
<1> QED
  BY <1>3, FS_CardinalityType, FS_EmptySet

(* All children are pending before start().                                *)
LEMMA InitInv == Init => IndInv
<1> SUFFICES ASSUME Init PROVE IndInv
  OBVIOUS
<1> USE DEF Init
<1>1. Pending = Children
  BY DEF Pending
<1>2. Cardinality(Children) = N
  BY FS_Interval, NAssumption DEF Children
<1>3. TypeOK
  <2>1. n_pending_ops \in 0..N /\ nextToStart \in 1..(N + 1)
    BY NAssumption
  <2>2. pc \in [Children -> PCs] /\ outcome \in [Children -> Outcomes]
    BY DEF PCs, Outcomes
  <2>3. delivered \in Seq(Signals)
    OBVIOUS
  <2>4. error_emplaced \in 0..2 /\ error \in Children \union {NoChild}
    OBVIOUS
  <2> QED
    BY <2>1, <2>2, <2>3, <2>4 DEF TypeOK
<1>4. LastInv
  BY <1>1, <1>2 DEF LastInv
<1>5. ErrorInv
  BY DEF ErrorInv
<1>6. ErrorIsReported
  BY DEF ErrorIsReported
<1>7. StartInv
  BY DEF StartInv, Children
<1> QED
  BY <1>7, <1>3, <1>4, <1>5, <1>6 DEF IndInv

(* start() leaves the counter, the errors and the completions alone.       *)
LEMMA StartNextInv ==
  ASSUME IndInv, StartNext
  PROVE  IndInv'
<1> USE DEF StartNext
<1> TypeOK /\ StartInv /\ LastInv /\ ErrorInv /\ ErrorIsReported
  BY DEF IndInv
<1>0. nextToStart \in Children /\ pc[nextToStart] = "idle"
  BY NAssumption DEF StartInv, Children
<1>1. TypeOK'
  BY NAssumption DEF TypeOK, PCs, Children
<1>2. Pending' = Pending
  BY <1>0 DEF Pending, TypeOK
<1>3. LastInv'
  BY <1>0, <1>2 DEF LastInv, TypeOK
<1>4. ErrorInv'
  BY <1>0 DEF ErrorInv, TypeOK
<1>5. ErrorIsReported'
  BY DEF ErrorIsReported
<1>6. StartInv'
  BY NAssumption DEF StartInv, TypeOK, Children
<1> QED
  BY <1>6, <1>1, <1>3, <1>4, <1>5 DEF IndInv

(* set_value, set_stopped and set_error: the child that completes was      *)
(* running, so nothing has been delivered.                                 *)
LEMMA CompletionInv ==
  ASSUME IndInv, NEW c \in Children,
         SetValue(c) \/ SetStopped(c) \/ SetError(c)
  PROVE  IndInv'
<1> USE DEF SetValue, SetStopped, SetError
<1> TypeOK /\ StartInv /\ LastInv /\ ErrorInv /\ ErrorIsReported
  BY DEF IndInv
<1>1. TypeOK'
  BY DEF TypeOK, PCs, Outcomes
<1>2. Pending' = Pending /\ c \in Pending
  BY DEF Pending, TypeOK
<1>3. delivered = <<>> /\ delivered' = <<>>
  BY DEF LastInv
<1>4. LastInv'
  BY <1>2, <1>3 DEF LastInv, TypeOK
<1>5. ErrorInv'
  BY DEF ErrorInv, TypeOK
<1>6. ErrorIsReported'
  BY <1>3 DEF ErrorIsReported
<1>7. StartInv'
  BY DEF StartInv, TypeOK
<1> QED
  BY <1>7, <1>1, <1>4, <1>5, <1>6 DEF IndInv

(* emplace, store and request_stop.                                        *)
LEMMA StopInv ==
  ASSUME IndInv, NEW c \in Children, EmplaceError(c) \/ RequestStop(c)
  PROVE  IndInv'
<1> USE DEF EmplaceError, RequestStop
<1> TypeOK /\ StartInv /\ LastInv /\ ErrorInv /\ ErrorIsReported
  BY DEF IndInv
<1>1. TypeOK'
  <2>1. pc' \in [Children -> PCs]
    BY DEF TypeOK, PCs
  <2>2. error_emplaced' \in 0..2 /\ error' \in Children \union {NoChild}
    BY DEF TypeOK
  <2>3. stop' \in BOOLEAN
    BY DEF TypeOK
  <2> QED
    BY <2>1, <2>2, <2>3 DEF TypeOK
<1>2. Pending' = Pending /\ c \in Pending
  BY DEF Pending, TypeOK
<1>3. delivered = <<>> /\ delivered' = <<>>
  BY DEF LastInv
<1>4. LastInv'
  BY <1>2, <1>3 DEF LastInv, TypeOK
<1>5. ErrorInv'
  BY DEF ErrorInv, TypeOK
<1>6. ErrorIsReported'
  BY <1>3 DEF ErrorIsReported
<1>7. StartInv'
  BY DEF StartInv, TypeOK
<1> QED
  BY <1>7, <1>1, <1>4, <1>5, <1>6 DEF IndInv

(* complete(): the counter follows the set of pending children, so the     *)
(* child that sees 1 leaves none behind.                                   *)
LEMMA DecrementInv ==
  ASSUME IndInv, NEW c \in Children, Decrement(c)
  PROVE  IndInv'
<1> USE DEF Decrement
<1> TypeOK /\ StartInv /\ LastInv /\ ErrorInv /\ ErrorIsReported
  BY DEF IndInv
<1>1. Pending' = Pending \ {c} /\ c \in Pending
  BY DEF Pending, TypeOK
<1>2. Cardinality(Pending \ {c}) = Cardinality(Pending) - 1
  BY <1>1, PendingFinite, FS_RemoveElement
<1>3. n_pending_ops \in 1..N
  BY <1>1, PendingFinite, NAssumption DEF LastInv
<1>4. n_pending_ops = 1 => Pending \ {c} = {}
  <2>1. IsFiniteSet(Pending \ {c})
    BY PendingFinite, FS_RemoveElement
  <2>2. Cardinality(Pending \ {c}) = 0 => Pending \ {c} = {}
    BY <2>1, FS_EmptySet
  <2> QED
    BY <1>2, <2>2 DEF LastInv
<1>5. TypeOK'
  BY <1>3, NAssumption DEF TypeOK, PCs
<1>6. delivered = <<>> /\ delivered' = <<>>
  BY <1>1 DEF LastInv
<1>7. \A d \in Children : pc[d] # "last"
  BY <1>1 DEF LastInv
<1>8. LastInv'
  <2>1. n_pending_ops' = Cardinality(Pending')
    BY <1>1, <1>2 DEF LastInv
  <2>2. \A d \in Children : pc'[d] = "last" => d = c /\ Pending' = {}
    BY <1>1, <1>4, <1>7 DEF TypeOK
  <2> QED
    BY <2>1, <2>2, <1>6 DEF LastInv
<1>9. ErrorInv'
  BY DEF ErrorInv, TypeOK
<1>10. ErrorIsReported'
  BY <1>6 DEF ErrorIsReported
<1>11. StartInv'
  BY DEF StartInv, TypeOK
<1> QED
  BY <1>11, <1>5, <1>8, <1>9, <1>10 DEF IndInv

(* complete(): the last child delivers the error exactly if there is one.  *)
LEMMA DeliverInv ==
  ASSUME IndInv, NEW c \in Children, Deliver(c)
  PROVE  IndInv'
<1> USE DEF Deliver
<1> TypeOK /\ StartInv /\ LastInv /\ ErrorInv /\ ErrorIsReported
  BY DEF IndInv
<1>1. Pending = {} /\ delivered = <<>>
  BY DEF LastInv
<1>2. \A d \in Children : pc[d] \in {"last", "done"}
  BY <1>1 DEF Pending
<1>3. \A d \in Children : pc'[d] = "done"
  BY <1>2 DEF LastInv, TypeOK
<1>4. error_emplaced # 1
  BY <1>2 DEF ErrorInv
<1> DEFINE s == CASE error_emplaced = 2 -> Signal("error", error)
                  [] error_emplaced # 2 /\ outerStop -> Signal("stopped", NoChild)
                  [] error_emplaced # 2 /\ ~outerStop -> Signal("value", NoChild)
<1>5. s \in Signals
  BY DEF Signal, Signals, TypeOK, NoChild
<1>6. delivered' = <<s>>
  BY <1>1
<1>7. /\ s.kind = "error" <=> error_emplaced = 2
      /\ s.kind = "error" => s.from = error
  BY DEF Signal, TypeOK
<1> HIDE DEF s
<1>8. Len(delivered') = 1 /\ delivered'[1] = s /\ delivered' \in Seq(Signals)
  <2>1. Len(<<s>>) = 1 /\ <<s>>[1] = s /\ <<s>> \in Seq(Signals)
    BY <1>5
  <2> QED
    BY <1>6, <2>1
<1>9. TypeOK'
  <2>1. pc' \in [Children -> PCs]
    BY DEF TypeOK, PCs
  <2> QED
    BY <1>8, <2>1 DEF TypeOK
<1>10. Pending' = Pending
  BY <1>1, <1>3 DEF Pending
<1>11. LastInv'
  BY <1>3, <1>8, <1>10 DEF LastInv
<1>12. ErrorInv'
  BY <1>2, <1>3 DEF ErrorInv, TypeOK
<1>13. ErrorIsReported'
  <2>1. (\E d \in Children : outcome[d] = "error") <=> s.kind = "error"
    BY <1>4, <1>7 DEF ErrorInv, TypeOK
  <2>2. s.kind = "error" => s.from \in Children /\ outcome[s.from] = "error"
    BY <1>7 DEF ErrorInv
  <2>3. \A i \in 1..Len(delivered') : delivered'[i] = s
    BY <1>8
  <2> QED
    BY <2>1, <2>2, <2>3 DEF ErrorIsReported
<1>14. StartInv'
  BY DEF StartInv, TypeOK
<1> QED
  BY <1>14, <1>9, <1>11, <1>12, <1>13 DEF IndInv

(* Stopping the receiver's token changes nothing the invariant is about.   *)
LEMMA InvisibleInv ==
  ASSUME IndInv, OuterStop \/ UNCHANGED vars
  PROVE  IndInv'
<1> USE DEF OuterStop, vars
<1> TypeOK /\ StartInv /\ LastInv /\ ErrorInv /\ ErrorIsReported
  BY DEF IndInv
<1>1. TypeOK'
  BY DEF TypeOK
<1>2. Pending' = Pending
  BY DEF Pending
<1>3. LastInv'
  BY <1>2 DEF LastInv
<1>4. ErrorInv'
  BY DEF ErrorInv
<1>5. ErrorIsReported'
  BY DEF ErrorIsReported
<1>6. StartInv'
  BY DEF StartInv, TypeOK
<1> QED
  BY <1>6, <1>1, <1>3, <1>4, <1>5 DEF IndInv

(* The steps of the children, of start() and of the receiver together.     *)
LEMMA NextInv == IndInv /\ [Next]_vars => IndInv'
<1> SUFFICES ASSUME IndInv, [Next]_vars PROVE IndInv'
  OBVIOUS
<1>1. CASE StartNext
  BY <1>1, StartNextInv
<1>2. ASSUME NEW c \in Children, Step(c) PROVE IndInv'
  BY <1>2, CompletionInv, StopInv, DecrementInv, DeliverInv DEF Step
<1>3. CASE OuterStop \/ Terminated \/ UNCHANGED vars
  BY <1>3, InvisibleInv DEF Terminated
<1> QED
  BY <1>1, <1>2, <1>3 DEF Next

-----------------------------------------------------------------------------
(* The counter is exact and the error protocol is kept, for any number of  *)
(* children and any interleaving of their completions.                     *)
THEOREM Invariance == SafeSpec => []IndInv
<1> QED
  BY InitInv, NextInv, PTL DEF SafeSpec

(* The merged sequence completes once, after every child: complete() never *)
(* lets two children see n_pending_ops_ equal to 1.                        *)
THEOREM CompletesAfterAllChildrenHolds == SafeSpec => []CompletesAfterAllChildren
<1>1. IndInv => CompletesAfterAllChildren
  <2> SUFFICES ASSUME TypeOK, LastInv PROVE CompletesAfterAllChildren
    BY DEF IndInv
  <2>1. CASE delivered = <<>>
    <3>1. Len(delivered) <= 1
      BY <2>1
    <3> QED
      BY <2>1, <3>1 DEF CompletesAfterAllChildren
  <2>2. CASE delivered # <<>>
    <3>1. Len(delivered) = 1 /\ \A c \in Children : pc[c] = "done"
      BY <2>2 DEF LastInv
    <3>2. Len(delivered) <= 1
      BY <3>1
    <3> QED
      BY <3>1, <3>2 DEF CompletesAfterAllChildren
  <2> QED
    BY <2>1, <2>2
<1> QED
  BY <1>1, Invariance, PTL

(* The receiver of complete() gets the error of a child that failed if and *)
(* only if a child failed.                                                 *)
THEOREM ErrorIsReportedHolds == SafeSpec => []ErrorIsReported
<1>1. IndInv => ErrorIsReported
  BY DEF IndInv
<1> QED
  BY <1>1, Invariance, PTL

(* errors_ has one writer, and the last child never reads it meanwhile.    *)
THEOREM OneErrorWriterHolds == SafeSpec => []OneErrorWriter
<1>1. IndInv => OneErrorWriter
  <2> SUFFICES ASSUME LastInv, ErrorInv PROVE OneErrorWriter
    BY DEF IndInv
  <2>1. ASSUME NEW c \in Children, pc[c] = "last" PROVE error_emplaced # 1
    <3>1. \A d \in Children : pc[d] # "emplacing"
      BY <2>1 DEF LastInv, Pending
    <3> QED
      BY <3>1 DEF ErrorInv
  <2> QED
    BY <2>1 DEF OneErrorWriter, ErrorInv
<1> QED
  BY <1>1, Invariance, PTL
=============================================================================
