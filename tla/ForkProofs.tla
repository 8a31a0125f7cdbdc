------------------------------ MODULE ForkProofs ------------------------------
(***************************************************************************)
(* Proofs about Fork for any set of items, with a receiver that may be     *)
(* stopped at any time.                                                    *)
(***************************************************************************)
EXTENDS Fork, TLAPS, FiniteSetTheorems

Signals == {"value", "error", "stopped"}

TypeOK ==
  /\ ref_counter \in Int
  /\ completion_type \in CompletionTypes
  /\ stop \in BOOLEAN
  /\ outerStop \in BOOLEAN
  /\ callback \in CallbackStates
  /\ parent \in ParentStates
  /\ item \in [Items -> ItemStates]
  /\ delivered \in Seq(Signals)

(* The items that own a reference, and whether the parent does.            *)
ActiveItems ==
  {i \in Items : item[i] \notin {"idle", "refused", "last", "done"}}

ParentActive ==
  parent \notin {"idle", "registered", "starting", "last", "done", "refused"}

(* Nothing happens before the parent is started, nor if it is refused.     *)
StartInv ==
  /\ parent \in {"idle", "registered", "starting", "refused"} =>
       ref_counter <= 0 /\ \A i \in Items : item[i] = "idle"
  /\ parent \in {"idle", "registered", "starting"} =>
       delivered = <<>> /\ callback # "last"
  /\ parent = "refused" => callback = "reset"

(* One call of decrease_ref finds the last reference, and once it has the  *)
(* count never becomes positive again.                                     *)
OnceInv ==
  /\ \A i \in Items : item[i] = "last" =>
       parent # "last" /\ callback # "last" /\ ref_counter <= 0 /\ delivered = <<>>
  /\ \A i, j \in Items : item[i] = "last" /\ item[j] = "last" => i = j
  /\ parent = "last" =>
       callback # "last" /\ ref_counter <= 0 /\ delivered = <<>>
  /\ callback = "last" => ref_counter <= 0 /\ delivered = <<>>
  /\ delivered # <<>> => ref_counter <= 0 /\ Len(delivered) = 1

(* Before the receiver is stopped the count is exact.                      *)
CountInv ==
  /\ IsFiniteSet(ActiveItems)
  /\ ~outerStop =>
       /\ callback \in {"none", "registered", "reset"}
       /\ ref_counter = References
       /\ \A i \in Items : item[i] # "refused"
       /\ parent # "refused"
       /\ parent \in {"idle", "registered"} => ~stop

(* A failure is stored unless somebody is about to store it; a receiver    *)
(* that was told set_value has been told so at the end.                    *)
FailureInv ==
  /\ failures # {} =>
       \/ completion_type # "value"
       \/ parent = "set_error"
       \/ \E i \in Items : item[i] = "set_error"
  /\ completion_type = "emplacing" =>
       parent = "emplacing" \/ \E i \in Items : item[i] = "emplacing"
  /\ delivered = <<"value">> =>
       /\ parent = "done"
       /\ \A i \in Items : item[i] \in {"idle", "done"}
       /\ callback = "reset"
       /\ failures = {}
       /\ completion_type = "value"

IndInv == TypeOK /\ StartInv /\ OnceInv /\ CountInv /\ FailureInv

-----------------------------------------------------------------------------
(* ref_counter_ counts the parent and the items that are active.           *)
LEMMA ReferencesAre ==
  References = Cardinality(ActiveItems) + IF ParentActive THEN 1 ELSE 0
BY DEF References, ActiveItems, ParentActive

(* Without references neither the parent nor an item is active, and with a *)
(* single one an item that is active is the only one.                      *)
LEMMA ReferencesCount ==
  ASSUME IsFiniteSet(ActiveItems)
  PROVE  /\ References \in Nat
         /\ References = 0 => ActiveItems = {} /\ ~ParentActive
         /\ ParentActive => References >= 1
         /\ ActiveItems # {} => References >= 1
<1>1. Cardinality(ActiveItems) \in Nat
  BY FS_CardinalityType
<1>2. Cardinality(ActiveItems) = 0 <=> ActiveItems = {}
  BY FS_EmptySet
<1> QED
  BY <1>1, <1>2, ReferencesAre

(* An item that acquires a reference is counted once more.                 *)
LEMMA ItemActivated ==
  ASSUME IsFiniteSet(ActiveItems), NEW i \in Items, i \notin ActiveItems,
         ActiveItems' = ActiveItems \union {i}, UNCHANGED parent
  PROVE  IsFiniteSet(ActiveItems') /\ References' = References + 1
<1>1. /\ IsFiniteSet(ActiveItems')
      /\ Cardinality(ActiveItems') = Cardinality(ActiveItems) + 1
  BY FS_AddElement
<1>2. Cardinality(ActiveItems) \in Nat
  BY FS_CardinalityType
<1>3. References' = Cardinality(ActiveItems') + IF ParentActive' THEN 1 ELSE 0
  BY DEF References, ActiveItems, ParentActive
<1> QED
  BY <1>1, <1>2, <1>3, ReferencesAre DEF ParentActive

(* An item that drops its reference is counted no longer.                  *)
LEMMA ItemDeactivated ==
  ASSUME IsFiniteSet(ActiveItems), NEW i \in ActiveItems,
         ActiveItems' = ActiveItems \ {i}, UNCHANGED parent
  PROVE  IsFiniteSet(ActiveItems') /\ References' = References - 1
<1>1. /\ IsFiniteSet(ActiveItems')
      /\ Cardinality(ActiveItems') = Cardinality(ActiveItems) - 1
  BY FS_RemoveElement
<1>2. Cardinality(ActiveItems) \in Nat
  BY FS_CardinalityType
<1>3. References' = Cardinality(ActiveItems') + IF ParentActive' THEN 1 ELSE 0
  BY DEF References, ActiveItems, ParentActive
<1> QED
  BY <1>1, <1>2, <1>3, ReferencesAre DEF ParentActive

(* A step of the parent changes the count by the parent's reference.       *)
LEMMA ParentReferences ==
  ASSUME UNCHANGED item
  PROVE  /\ ActiveItems' = ActiveItems
         /\ References' = Cardinality(ActiveItems)
                            + IF ParentActive' THEN 1 ELSE 0
BY DEF References, ActiveItems, ParentActive

-----------------------------------------------------------------------------
(* The inductive invariant, one lemma per kind of step.                    *)

(* Nothing was started, counted or delivered.                              *)
LEMMA InitInv == Init => IndInv
<1> SUFFICES ASSUME Init PROVE IndInv
  OBVIOUS
<1> USE DEF Init
<1>1. TypeOK
  <2>1. <<>> \in Seq(Signals)
    OBVIOUS
  <2>2. item \in [Items -> ItemStates]
    BY DEF ItemStates
  <2>3. stop \in BOOLEAN /\ outerStop \in BOOLEAN
    OBVIOUS
  <2>4. /\ ref_counter \in Int
        /\ completion_type \in CompletionTypes
        /\ callback \in CallbackStates
        /\ parent \in ParentStates
        /\ delivered \in Seq(Signals)
    BY <2>1 DEF CompletionTypes, CallbackStates, ParentStates
  <2> QED
    BY <2>2, <2>3, <2>4 DEF TypeOK
<1>2. StartInv /\ OnceInv /\ FailureInv
  BY DEF StartInv, OnceInv, FailureInv
<1>3. ActiveItems = {}
  BY DEF ActiveItems
<1>4. IsFiniteSet(ActiveItems) /\ Cardinality(ActiveItems) = 0
  BY <1>3, FS_EmptySet
<1>5. CountInv
  BY <1>4, ReferencesAre DEF CountInv, ParentActive
<1> QED
  BY <1>1, <1>2, <1>5 DEF IndInv

(* An item that goes on with its reference keeps the count.                *)
LEMMA ItemMoves ==
  ASSUME IndInv, NEW i \in Items,
         NEW s \in ItemStates \ {"idle", "refused", "last", "done"},
         item[i] \notin {"idle", "last", "done"},
         item' = [item EXCEPT ![i] = s],
         completion_type' \in CompletionTypes,
         stop' \in {stop, TRUE},
         UNCHANGED <<ref_counter, outerStop, callback, parent, delivered>>
  PROVE  TypeOK' /\ StartInv' /\ OnceInv' /\ CountInv'
<1> TypeOK /\ StartInv /\ OnceInv /\ CountInv
  BY DEF IndInv
<1>1. TypeOK'
  BY DEF TypeOK
<1>2. parent \notin {"idle", "registered", "starting", "refused"}
  BY DEF StartInv
<1>3. StartInv'
  BY <1>2 DEF StartInv
<1>4. OnceInv'
  BY DEF OnceInv, TypeOK
<1>5. ActiveItems' = ActiveItems \union {i}
  BY DEF ActiveItems, TypeOK
<1>6. IsFiniteSet(ActiveItems')
  BY <1>5, FS_AddElement DEF CountInv
<1>7. CountInv'
  <2> SUFFICES ASSUME ~outerStop
               PROVE  /\ callback \in {"none", "registered", "reset"}
                      /\ ref_counter = References'
                      /\ \A j \in Items : item'[j] # "refused"
    BY <1>2, <1>6 DEF CountInv
  <2>1. i \in ActiveItems
    BY DEF CountInv, ActiveItems
  <2>2. ActiveItems' = ActiveItems
    BY <1>5, <2>1
  <2>3. References' = References
    BY <2>2 DEF References, ActiveItems
  <2> QED
    BY <2>3 DEF CountInv, TypeOK
<1> QED
  BY <1>1, <1>3, <1>4, <1>7

(* What an item does between acquiring its reference and dropping it.      *)
LEMMA ItemStepInv ==
  ASSUME IndInv, NEW i \in Items, ItemStep(i), ~DecreaseRefItem(i)
  PROVE  IndInv'
<1> TypeOK /\ FailureInv
  BY DEF IndInv
<1>1. delivered # <<"value">>
  BY DEF FailureInv, ItemStep, ItemStopped, ItemValue, Allocated, ItemError,
         ItemClaimError, ItemEmplaceError, AbandonItem, StartItem, ItemDone,
         ItemDeleted
<1>2. ASSUME ItemStopped(i) \/ ItemValue(i) \/ Allocated(i) \/ AbandonItem(i)
               \/ StartItem(i) \/ ItemDone(i) \/ ItemDeleted(i)
      PROVE  IndInv'
  <2>1. PICK s \in ItemStates \ {"idle", "refused", "last", "done", "set_error",
                                 "emplacing"} :
          /\ item[i] \notin {"idle", "last", "done", "set_error", "emplacing"}
          /\ item' = [item EXCEPT ![i] = s]
          /\ stop' \in {stop, TRUE}
          /\ UNCHANGED <<ref_counter, completion_type, outerStop, callback,
                         parent, failures, delivered>>
    BY <1>2 DEF ItemStopped, ItemValue, Allocated, AbandonItem, StartItem,
                ItemDone, ItemDeleted, ItemStates
  <2>2. FailureInv'
    BY <1>1, <2>1 DEF FailureInv, TypeOK
  <2> QED
    BY <2>1, <2>2, ItemMoves DEF IndInv, TypeOK
<1>3. CASE ItemError(i)
  <2>1. FailureInv'
    BY <1>1, <1>3 DEF ItemError, FailureInv, TypeOK
  <2> QED
    BY <1>3, <2>1, ItemMoves DEF IndInv, ItemError, TypeOK, ItemStates
<1>4. CASE ItemClaimError(i)
  <2>1. FailureInv'
    BY <1>1, <1>4 DEF ItemClaimError, FailureInv, TypeOK
  <2> QED
    BY <1>4, <2>1, ItemMoves
    DEF IndInv, ItemClaimError, TypeOK, ItemStates, CompletionTypes
<1>5. CASE ItemEmplaceError(i)
  <2>1. FailureInv'
    BY <1>1, <1>5 DEF ItemEmplaceError, FailureInv, TypeOK
  <2> QED
    BY <1>5, <2>1, ItemMoves
    DEF IndInv, ItemEmplaceError, TypeOK, ItemStates, CompletionTypes
<1> QED
  BY <1>2, <1>3, <1>4, <1>5 DEF ItemStep

(* increase_ref: the count is positive before a stop request, so the item  *)
(* gets its reference.                                                     *)
LEMMA SetNextInv ==
  ASSUME IndInv, NEW i \in Items, SetNext(i)
  PROVE  IndInv'
<1> TypeOK /\ StartInv /\ OnceInv /\ CountInv /\ FailureInv
  BY DEF IndInv
<1>1. /\ parent = "running"
      /\ item[i] = "idle"
      /\ \E s \in {"refused", "acquired"} : item' = [item EXCEPT ![i] = s]
      /\ ref_counter' \in Int
      /\ ref_counter <= 0 => ref_counter' <= 0
      /\ UNCHANGED <<completion_type, stop, outerStop, callback, parent,
                     failures, delivered>>
  <2>1. CASE ref_counter = 0
    BY <2>1 DEF SetNext
  <2>2. CASE ref_counter # 0
    BY <2>2 DEF SetNext, TypeOK
  <2> QED
    BY <2>1, <2>2
<1>2. TypeOK'
  BY <1>1 DEF TypeOK, ItemStates
<1>3. StartInv'
  BY <1>1 DEF StartInv
<1>4. OnceInv'
  BY <1>1 DEF OnceInv, TypeOK
<1>5. FailureInv'
  BY <1>1 DEF FailureInv, TypeOK
<1>6. i \notin ActiveItems /\ ActiveItems' \in {ActiveItems, ActiveItems \union {i}}
  BY <1>1 DEF ActiveItems, TypeOK
<1>7. IsFiniteSet(ActiveItems')
  BY <1>6, FS_AddElement DEF CountInv
<1>8. ASSUME ~outerStop
      PROVE  /\ ref_counter' = References'
             /\ \A j \in Items : item'[j] # "refused"
  <2>1. ref_counter = References /\ ref_counter >= 1
    BY <1>1, <1>8, ReferencesCount DEF CountInv, ParentActive
  <2>2. item' = [item EXCEPT ![i] = "acquired"] /\ ref_counter' = ref_counter + 1
    <3>1. ref_counter # 0
      BY <2>1
    <3> QED
      BY <3>1 DEF SetNext
  <2>3. ActiveItems' = ActiveItems \union {i}
    BY <2>2 DEF ActiveItems, TypeOK
  <2>4. References' = References + 1
    BY <1>1, <1>6, <2>3, ItemActivated DEF CountInv
  <2> QED
    BY <1>8, <2>1, <2>2, <2>4 DEF CountInv, TypeOK
<1>9. CountInv'
  BY <1>1, <1>7, <1>8 DEF CountInv
<1> QED
  BY <1>2, <1>3, <1>4, <1>5, <1>9 DEF IndInv

(* decrease_ref by an item: it finds the last reference only if nobody has *)
(* found it before.                                                        *)
LEMMA DecreaseRefItemInv ==
  ASSUME IndInv, NEW i \in Items, DecreaseRefItem(i)
  PROVE  IndInv'
<1> TypeOK /\ StartInv /\ OnceInv /\ CountInv /\ FailureInv
  BY DEF IndInv
<1>1. /\ item[i] = "decreasing"
      /\ ref_counter' = ref_counter - 1
      /\ \/ ref_counter = 1 /\ item' = [item EXCEPT ![i] = "last"]
         \/ ref_counter # 1 /\ item' = [item EXCEPT ![i] = "done"]
      /\ UNCHANGED <<completion_type, stop, outerStop, callback, parent,
                     failures, delivered>>
  BY DEF DecreaseRefItem, LastReference
<1>2. TypeOK'
  BY <1>1 DEF TypeOK, ItemStates
<1>3. StartInv'
  BY <1>1 DEF StartInv
<1>4. OnceInv'
  <2>1. CASE ref_counter = 1
    BY <1>1, <2>1 DEF OnceInv, TypeOK
  <2>2. CASE ref_counter # 1
    BY <1>1, <2>2 DEF OnceInv, TypeOK
  <2> QED
    BY <2>1, <2>2
<1>5. FailureInv'
  BY <1>1 DEF FailureInv, TypeOK
<1>6. i \in ActiveItems /\ ActiveItems' = ActiveItems \ {i}
  BY <1>1 DEF ActiveItems, TypeOK
<1>7. IsFiniteSet(ActiveItems') /\ References' = References - 1
  BY <1>1, <1>6, ItemDeactivated DEF CountInv
<1>8. CountInv'
  BY <1>1, <1>7 DEF CountInv, TypeOK
<1> QED
  BY <1>2, <1>3, <1>4, <1>5, <1>8 DEF IndInv

-----------------------------------------------------------------------------
(* start() registers the stop callback; a stop requested before takes the  *)
(* count below 0.                                                          *)
LEMMA StartActionInv ==
  ASSUME IndInv, Start
  PROVE  IndInv'
<1> TypeOK /\ StartInv /\ OnceInv /\ CountInv /\ FailureInv
  BY DEF IndInv
<1>1. /\ parent = "idle" /\ parent' = "registered"
      /\ \/ /\ outerStop /\ stop' = TRUE
            /\ ref_counter' = ref_counter - 1 /\ callback' = "returned"
         \/ /\ ~outerStop /\ callback' = "registered"
            /\ UNCHANGED <<stop, ref_counter>>
      /\ UNCHANGED <<completion_type, outerStop, item, failures, delivered>>
  BY DEF Start
<1>2. TypeOK'
  <2>1. /\ ref_counter' \in Int
        /\ callback' \in CallbackStates
        /\ parent' \in ParentStates
    BY <1>1 DEF TypeOK, ParentStates, CallbackStates
  <2>2. stop' \in BOOLEAN
    BY <1>1 DEF TypeOK
  <2> QED
    BY <1>1, <2>1, <2>2 DEF TypeOK
<1>3. StartInv' /\ OnceInv' /\ FailureInv'
  BY <1>1 DEF StartInv, OnceInv, FailureInv, TypeOK
<1>4. ActiveItems' = ActiveItems /\ References' = References
  BY <1>1, ReferencesAre, ParentReferences DEF ParentActive
<1>5. CountInv'
  BY <1>1, <1>4 DEF CountInv
<1> QED
  BY <1>2, <1>3, <1>5 DEF IndInv

(* start() goes on to start the parent.                                    *)
LEMMA PassStopCheckInv ==
  ASSUME IndInv, PassStopCheck
  PROVE  IndInv'
<1> TypeOK /\ StartInv /\ OnceInv /\ CountInv /\ FailureInv
  BY DEF IndInv
<1> USE DEF PassStopCheck
<1>1. TypeOK' /\ StartInv' /\ OnceInv' /\ FailureInv'
  BY DEF TypeOK, ParentStates, StartInv, OnceInv, FailureInv
<1>2. ActiveItems' = ActiveItems /\ References' = References
  BY ReferencesAre, ParentReferences DEF ParentActive
<1>3. CountInv'
  BY <1>2 DEF CountInv
<1> QED
  BY <1>1, <1>3 DEF IndInv

(* start() takes the first reference for the parent sequence.              *)
LEMMA StartParentInv ==
  ASSUME IndInv, StartParent
  PROVE  IndInv'
<1> TypeOK /\ StartInv /\ OnceInv /\ CountInv /\ FailureInv
  BY DEF IndInv
<1> USE DEF StartParent
<1>1. TypeOK'
  BY DEF TypeOK, ParentStates
<1>2. StartInv' /\ OnceInv' /\ FailureInv'
  BY DEF StartInv, OnceInv, FailureInv, TypeOK
<1>3. ActiveItems = {} /\ Cardinality(ActiveItems) = 0
  BY FS_EmptySet DEF ActiveItems, StartInv
<1>4. ActiveItems' = ActiveItems /\ References' = 1
  BY <1>3, ParentReferences DEF ParentActive
<1>5. CountInv'
  BY <1>4 DEF CountInv
<1> QED
  BY <1>1, <1>2, <1>5 DEF IndInv

(* start() completes a receiver that was stopped, which cannot be while    *)
(* nobody requested it.                                                    *)
LEMMA RefuseStartInv ==
  ASSUME IndInv, RefuseStart
  PROVE  IndInv'
<1> TypeOK /\ StartInv /\ OnceInv /\ CountInv /\ FailureInv
  BY DEF IndInv
<1>0. parent = "registered" /\ delivered = <<>> /\ delivered' = <<"stopped">>
  BY DEF RefuseStart, StartInv
<1>1. delivered' \in Seq(Signals) /\ Len(delivered') = 1 /\ delivered' # <<"value">>
      /\ delivered' # <<>>
  BY <1>0 DEF Signals
<1> USE DEF RefuseStart, CallbackUnderWay
<1>2. TypeOK'
  BY <1>1 DEF TypeOK, ParentStates, CallbackStates
<1>3. StartInv' /\ FailureInv'
  BY <1>1 DEF StartInv, FailureInv
<1>4. OnceInv'
  BY <1>1 DEF StartInv, OnceInv
<1>5. ActiveItems' = ActiveItems
  BY ParentReferences
<1>6. CountInv'
  BY <1>5 DEF CountInv
<1> QED
  BY <1>2, <1>3, <1>4, <1>6 DEF IndInv

(* The parent goes on with its reference.                                  *)
LEMMA ParentMoves ==
  ASSUME IndInv,
         NEW s \in ParentStates \ {"idle", "registered", "starting", "last", "done", "refused"},
         parent \notin {"idle", "registered", "starting", "last", "done", "refused"},
         parent' = s,
         completion_type' \in CompletionTypes,
         stop' \in {stop, TRUE},
         UNCHANGED <<ref_counter, outerStop, callback, item, delivered>>
  PROVE  TypeOK' /\ StartInv' /\ OnceInv' /\ CountInv'
<1> TypeOK /\ StartInv /\ OnceInv /\ CountInv
  BY DEF IndInv
<1>1. TypeOK'
  BY DEF TypeOK
<1>2. StartInv' /\ OnceInv'
  BY DEF StartInv, OnceInv
<1>3. ActiveItems' = ActiveItems /\ References' = References
  BY ReferencesAre, ParentReferences DEF ParentActive
<1>4. CountInv'
  BY <1>3 DEF CountInv
<1> QED
  BY <1>1, <1>2, <1>4

(* The completion of the parent, up to dropping its reference.             *)
LEMMA ParentCompletionInv ==
  ASSUME IndInv,
         \/ ParentValue \/ ParentStopped \/ ParentError \/ ParentClaimError
         \/ ParentEmplaceError \/ ParentRequestStop
  PROVE  IndInv'
<1> TypeOK /\ FailureInv
  BY DEF IndInv
<1> USE DEF ParentValue, ParentStopped, ParentError, ParentClaimError,
            ParentEmplaceError, ParentRequestStop
<1>1. TypeOK' /\ StartInv' /\ OnceInv' /\ CountInv'
  <2>1. /\ parent' \in ParentStates \ {"idle", "registered", "starting", "last", "done",
                                        "refused"}
        /\ parent \notin {"idle", "registered", "starting", "last", "done", "refused"}
        /\ completion_type' \in CompletionTypes
        /\ stop' \in {stop, TRUE}
        /\ UNCHANGED <<ref_counter, outerStop, callback, item, delivered>>
    BY DEF ParentStates, CompletionTypes, TypeOK
  <2> QED
    BY <2>1, ParentMoves
<1>2. FailureInv'
  <2>1. CASE ParentValue \/ ParentRequestStop
    BY <2>1 DEF FailureInv
  <2>2. CASE ParentStopped \/ ParentError
    BY <2>2 DEF FailureInv
  <2>3. CASE ParentClaimError \/ ParentEmplaceError
    BY <2>3 DEF FailureInv
  <2> QED
    BY <2>1, <2>2, <2>3
<1> QED
  BY <1>1, <1>2 DEF IndInv

(* decrease_ref by the parent.                                             *)
LEMMA DecreaseRefParentInv ==
  ASSUME IndInv, DecreaseRefParent
  PROVE  IndInv'
<1> TypeOK /\ StartInv /\ OnceInv /\ CountInv /\ FailureInv
  BY DEF IndInv
<1>1. /\ parent = "decreasing"
      /\ ref_counter' = ref_counter - 1
      /\ \/ ref_counter = 1 /\ parent' = "last"
         \/ ref_counter # 1 /\ parent' = "done"
      /\ UNCHANGED <<completion_type, stop, outerStop, callback, item,
                     failures, delivered>>
  BY DEF DecreaseRefParent, LastReference
<1>2. TypeOK'
  BY <1>1 DEF TypeOK, ParentStates
<1>3. StartInv' /\ FailureInv'
  BY <1>1 DEF StartInv, FailureInv
<1>4. OnceInv'
  BY <1>1 DEF OnceInv, TypeOK
<1>5. ActiveItems' = ActiveItems /\ References' = References - 1
  <2>1. Cardinality(ActiveItems) \in Nat
    BY FS_CardinalityType DEF CountInv
  <2> QED
    BY <1>1, <2>1, ReferencesAre, ParentReferences DEF ParentActive
<1>6. CountInv'
  BY <1>1, <1>5 DEF CountInv, TypeOK
<1> QED
  BY <1>2, <1>3, <1>4, <1>6 DEF IndInv

-----------------------------------------------------------------------------
(* The receiver is told set_value only when nobody is about to store an    *)
(* error and none is stored.                                               *)
LEMMA ValueMeansNoFailure ==
  ASSUME IndInv, Result = "value",
         parent = "last" \/ callback = "last" \/ \E i \in Items : item[i] = "last"
  PROVE  /\ parent \in {"last", "done"}
         /\ \A i \in Items : item[i] \in {"idle", "last", "done"}
         /\ callback # "last"
         /\ failures = {}
         /\ completion_type = "value"
<1> TypeOK /\ StartInv /\ OnceInv /\ CountInv /\ FailureInv
  BY DEF IndInv
<1>1. completion_type \in {"value", "emplacing"} /\ ~outerStop
  BY DEF Result, TypeOK, CompletionTypes
<1>2. callback # "last" /\ ref_counter <= 0 /\ ref_counter = References
  BY <1>1 DEF CountInv, OnceInv
<1>3. ActiveItems = {} /\ ~ParentActive
  BY <1>2, ReferencesCount DEF CountInv
<1>4. \A i \in Items : item[i] \in {"idle", "last", "done"}
  BY <1>1, <1>3 DEF ActiveItems, CountInv
<1>5. parent \in {"last", "done"}
  BY <1>1, <1>2, <1>3 DEF ParentActive, StartInv, CountInv
<1>6. completion_type = "value"
  BY <1>1, <1>4, <1>5 DEF FailureInv
<1>7. failures = {}
  BY <1>4, <1>5, <1>6 DEF FailureInv
<1> QED
  BY <1>2, <1>4, <1>5, <1>6, <1>7

(* What the receiver is told is a signal.                                  *)
LEMMA ResultType == TypeOK => Result \in Signals
BY DEF TypeOK, Result, Signals, CompletionTypes

(* The one who found the last reference completes the receiver, which      *)
(* nobody has completed before.                                            *)
LEMMA CompleteInv ==
  ASSUME IndInv, Complete
  PROVE  IndInv'
<1> TypeOK /\ StartInv /\ OnceInv /\ CountInv /\ FailureInv
  BY DEF IndInv
<1>1. /\ \/ callback' = "reset"
         \/ callback = "stopping" /\ callback' = callback
      /\ delivered' = Append(delivered, Result)
      /\ UNCHANGED <<ref_counter, completion_type, stop, outerStop, failures>>
  BY DEF Complete
<1>2. \/ /\ parent = "last" /\ parent' = "done"
         /\ UNCHANGED item
      \/ \E i \in Items :
           /\ item[i] = "last" /\ item' = [item EXCEPT ![i] = "done"]
           /\ UNCHANGED parent
  BY DEF Complete
<1>3. delivered = <<>> /\ ref_counter <= 0
  BY <1>2 DEF OnceInv
<1>4. delivered' = <<Result>> /\ Result \in Signals
  BY <1>1, <1>3, ResultType
<1>5. delivered' \in Seq(Signals) /\ Len(delivered') = 1 /\ delivered' # <<>>
  BY <1>4
<1>6. TypeOK'
  BY <1>1, <1>2, <1>5 DEF TypeOK, ParentStates, CallbackStates, ItemStates
<1>7. parent \notin {"idle", "registered", "starting", "refused"}
  BY <1>2 DEF StartInv
<1>8. StartInv'
  BY <1>2, <1>7 DEF StartInv
<1>9. parent' # "last" /\ \A i \in Items : item'[i] # "last"
  BY <1>2 DEF OnceInv, TypeOK
<1>10. OnceInv'
  BY <1>1, <1>3, <1>5, <1>9 DEF OnceInv
<1>11. ActiveItems' = ActiveItems /\ References' = References
  <2>1. ActiveItems' = ActiveItems
    BY <1>2 DEF ActiveItems, TypeOK
  <2>2. ParentActive' = ParentActive
    BY <1>2 DEF ParentActive
  <2> QED
    BY <2>1, <2>2 DEF References, ActiveItems, ParentActive
<1>12. CountInv'
  BY <1>1, <1>2, <1>7, <1>11 DEF CountInv, TypeOK
<1>13. FailureInv'
  <2>1. ASSUME Result = "value"
        PROVE  /\ parent' = "done"
               /\ \A i \in Items : item'[i] \in {"idle", "done"}
               /\ failures = {}
               /\ completion_type = "value"
    <3>1. /\ parent \in {"last", "done"}
          /\ \A i \in Items : item[i] \in {"idle", "last", "done"}
          /\ failures = {}
          /\ completion_type = "value"
      BY <1>2, <2>1, ValueMeansNoFailure
    <3> QED
      BY <1>2, <1>9, <3>1 DEF TypeOK
  <2>2. delivered' = <<"value">> => Result = "value"
    BY <1>4
  <2>3. (failures' # {} =>
           \/ completion_type' # "value"
           \/ parent' = "set_error"
           \/ \E i \in Items : item'[i] = "set_error")
    BY <1>1, <1>2 DEF FailureInv, TypeOK
  <2>4. completion_type' = "emplacing" =>
          parent' = "emplacing" \/ \E i \in Items : item'[i] = "emplacing"
    BY <1>1, <1>2 DEF FailureInv, TypeOK
  <2> QED
    <3>1. Result = "value" => callback' = "reset"
      BY <1>1 DEF CountInv, Result, TypeOK, CompletionTypes
    <3> QED
      BY <1>1, <2>1, <2>2, <2>3, <2>4, <3>1 DEF FailureInv
<1> QED
  BY <1>6, <1>8, <1>10, <1>12, <1>13 DEF IndInv

(* The stop callback begins.                                               *)
LEMMA OuterStopInv ==
  ASSUME IndInv, OuterStop
  PROVE  IndInv'
<1> TypeOK /\ StartInv /\ OnceInv /\ CountInv /\ FailureInv
  BY DEF IndInv
<1>1. /\ outerStop' = TRUE
      /\ \/ callback = "registered" /\ callback' = "running"
         \/ callback # "registered" /\ callback' = callback
      /\ UNCHANGED <<ref_counter, completion_type, stop, parent, item, failures,
                     delivered>>
  BY DEF OuterStop
<1>2. TypeOK'
  BY <1>1 DEF TypeOK, CallbackStates
<1>3. StartInv' /\ OnceInv' /\ FailureInv'
  BY <1>1 DEF StartInv, OnceInv, FailureInv
<1>4. CountInv'
  BY <1>1, ParentReferences DEF CountInv
<1> QED
  BY <1>2, <1>3, <1>4 DEF IndInv

(* The stop callback requests stop, takes a reference that is not its own  *)
(* and completes the receiver if it was the last.                          *)
LEMMA CallbackStepInv ==
  ASSUME IndInv, CallbackStep
  PROVE  IndInv'
<1> TypeOK /\ StartInv /\ OnceInv /\ CountInv /\ FailureInv
  BY DEF IndInv
<1>1. outerStop
  BY DEF CallbackStep, CallbackRequestStop, CallbackStopReturns, CallbackDecreaseRef,
         CallbackComplete, CountInv
<1>2. UNCHANGED <<outerStop, completion_type, parent, item, failures>>
  BY DEF CallbackStep, CallbackRequestStop, CallbackStopReturns, CallbackDecreaseRef,
         CallbackComplete
<1>3. CountInv'
  BY <1>1, <1>2, ParentReferences DEF CountInv
<1>4. CASE CallbackRequestStop \/ CallbackStopReturns
  <2>1. TypeOK'
    BY <1>4 DEF CallbackRequestStop, CallbackStopReturns, TypeOK, CallbackStates
  <2>2. StartInv' /\ OnceInv' /\ FailureInv'
    BY <1>4 DEF CallbackRequestStop, CallbackStopReturns, StartInv, OnceInv, FailureInv
  <2> QED
    BY <1>3, <2>1, <2>2 DEF IndInv
<1>5. CASE CallbackDecreaseRef
  <2>1. /\ callback = "decreasing"
        /\ ref_counter' = ref_counter - 1
        /\ \/ ref_counter = 1 /\ callback' = "last"
           \/ ref_counter # 1 /\ callback' = "returned"
        /\ UNCHANGED <<stop, delivered>>
    BY <1>5 DEF CallbackDecreaseRef
  <2>2. TypeOK'
    BY <1>2, <2>1 DEF TypeOK, CallbackStates
  <2>3. StartInv' /\ OnceInv' /\ FailureInv'
    BY <1>2, <2>1 DEF StartInv, OnceInv, FailureInv, TypeOK
  <2> QED
    BY <1>3, <2>2, <2>3 DEF IndInv
<1>6. CASE CallbackComplete
  <2>1. /\ callback = "last" /\ callback' = "reset"
        /\ delivered' = Append(delivered, Result)
        /\ UNCHANGED <<ref_counter, stop>>
    BY <1>6 DEF CallbackComplete
  <2>2. delivered = <<>> /\ ref_counter <= 0
    BY <2>1 DEF OnceInv
  <2>3. Result # "value" /\ Result \in Signals
    BY <2>1, ResultType, ValueMeansNoFailure
  <2>4. delivered' = <<Result>> /\ Len(delivered') = 1 /\ delivered' # <<"value">>
    BY <2>1, <2>2, <2>3
  <2>5. TypeOK'
    BY <1>2, <2>1, <2>3, <2>4 DEF TypeOK, CallbackStates
  <2>6. StartInv' /\ OnceInv' /\ FailureInv'
    BY <1>2, <2>1, <2>2, <2>4 DEF StartInv, OnceInv, FailureInv
  <2> QED
    BY <1>3, <2>5, <2>6 DEF IndInv
<1> QED
  BY <1>4, <1>5, <1>6 DEF CallbackStep

-----------------------------------------------------------------------------
(* Every step of Next and every stuttering step keeps the invariant.       *)
LEMMA NextInv == IndInv /\ [Next]_vars => IndInv'
<1> SUFFICES ASSUME IndInv, [Next]_vars PROVE IndInv'
  OBVIOUS
<1>1. CASE Start
  BY <1>1, StartActionInv
<1>2. CASE ParentStep
  BY <1>2, PassStopCheckInv, StartParentInv, RefuseStartInv, ParentCompletionInv,
     DecreaseRefParentInv DEF ParentStep
<1>3. ASSUME NEW i \in Items, SetNext(i) PROVE IndInv'
  BY <1>3, SetNextInv
<1>4. ASSUME NEW i \in Items, ItemStep(i) PROVE IndInv'
  BY <1>4, ItemStepInv, DecreaseRefItemInv
<1>5. CASE Complete
  BY <1>5, CompleteInv
<1>6. CASE OuterStop
  BY <1>6, OuterStopInv
<1>7. CASE CallbackStep
  BY <1>7, CallbackStepInv
<1>8. CASE UNCHANGED vars
  <2>1. UNCHANGED References /\ UNCHANGED ActiveItems
    BY <1>8 DEF vars, References, ActiveItems
  <2> QED
    BY <1>8, <2>1
    DEF vars, IndInv, TypeOK, StartInv, OnceInv, CountInv, FailureInv
<1> QED
  BY <1>1, <1>2, <1>3, <1>4, <1>5, <1>6, <1>7, <1>8 DEF Next, Terminated

(* The invariant holds in every state fork can reach.                      *)
LEMMA Invariant == SafeSpec => []IndInv
<1> QED
  BY InitInv, NextInv, PTL DEF SafeSpec

(* decrease_ref finds the last reference once, also when the stop callback *)
(* takes a reference nobody gave it: the receiver is completed once.       *)
THEOREM CompletedOnceHolds == SafeSpec => []CompletedOnce
<1>1. ASSUME IndInv PROVE CompletedOnce
  <2>1. CASE delivered = <<>>
    BY <2>1 DEF CompletedOnce
  <2>2. CASE delivered # <<>>
    <3>1. Len(delivered) = 1
      BY <1>1, <2>2 DEF IndInv, OnceInv
    <3> QED
      BY <3>1 DEF CompletedOnce
  <2> QED
    BY <2>1, <2>2
<1> QED
  BY <1>1, Invariant, PTL

(* A receiver that is not stopped is completed after the parent and every  *)
(* item, and increase_ref never refuses an item.                           *)
THEOREM CompletesAfterAllItemsHolds == SafeSpec => []CompletesAfterAllItems
<1>1. ASSUME IndInv PROVE CompletesAfterAllItems
  <2> SUFFICES ASSUME ~outerStop, delivered # <<>>
               PROVE  /\ parent \in {"done", "refused"}
                      /\ \A i \in Items : item[i] \in {"idle", "done"}
    BY <1>1 DEF IndInv, CountInv, CompletesAfterAllItems
  <2> TypeOK /\ StartInv /\ OnceInv /\ CountInv
    BY <1>1 DEF IndInv
  <2>1. ref_counter <= 0 /\ ref_counter = References
    BY DEF OnceInv, CountInv
  <2>2. ActiveItems = {} /\ ~ParentActive
    BY <2>1, ReferencesCount DEF CountInv
  <2>3. \A i \in Items : item[i] \in {"idle", "done"}
    BY <2>2 DEF ActiveItems, CountInv, OnceInv
  <2>4. parent \in {"done", "refused"}
    BY <2>2 DEF ParentActive, OnceInv, StartInv
  <2> QED
    BY <2>3, <2>4
<1> QED
  BY <1>1, Invariant, PTL

(* A failure that set_error has begun to store is never overtaken by a     *)
(* set_value of whoever drops the last reference.                          *)
THEOREM FailureShowsHolds == SafeSpec => []FailureShows
<1>1. ASSUME IndInv PROVE FailureShows
  <2> SUFFICES ASSUME NEW n \in 1..Len(delivered), delivered[n] = "value"
               PROVE  failures = {} /\ completion_type = "value"
    BY DEF FailureShows
  <2>1. delivered \in Seq(Signals)
    BY <1>1 DEF IndInv, TypeOK
  <2>2. Len(delivered) = 1 /\ n = 1
    <3>1. delivered # <<>>
      OBVIOUS
    <3>2. Len(delivered) = 1
      BY <1>1, <3>1 DEF IndInv, OnceInv
    <3> QED
      BY <3>2
  <2>3. delivered = <<"value">>
    BY <2>1, <2>2
  <2> QED
    BY <1>1, <2>3 DEF IndInv, FailureInv
<1> QED
  BY <1>1, Invariant, PTL
=============================================================================
