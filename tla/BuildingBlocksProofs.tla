------------------------ MODULE BuildingBlocksProofs ------------------------
(***************************************************************************)
(* Proofs about what the library is built from: AsyncResource for any set  *)
(* of resources, the intrusive containers for any set of nodes,            *)
(* AsyncChannel for any set of observers and any number of items, the      *)
(* sequence of transfers for any buffers, offsets and results of the       *)
(* kernel, subspans of buffers of any sizes, and deferred in any places.   *)
(***************************************************************************)
EXTENDS MCBuildingBlocks, ListLemmas, FiniteSetTheorems

(***************************************************************************)
(* AsyncResource.                                                          *)
(***************************************************************************)

ResourceSpec == ResourceInit /\ [][ResourceNext]_resourceVars

BodyResults == {"value", "error", "stopped"}

UseStates ==
  {"idle", "opening", "pushing", "ready", "used", "closing",
   "value", "stopped", "error", "failing", "ended"}

ResourceTypeOK ==
  /\ use \in [Resources -> UseStates]
  /\ handle \in [Resources -> {"none", "open", "lost", "closed"}]
  /\ body \in {"waiting", "running", "done"}
  /\ result \in BodyResults \union {"none"}

(* Where the sequence of a resource is says what its descriptor is.        *)
HandleInv ==
  \A r \in Resources :
    /\ use[r] \in {"idle", "opening"} => handle[r] = "none"
    /\ use[r] \in {"pushing", "ready", "used", "closing"} => handle[r] = "open"
    /\ handle[r] = "open" => use[r] \in {"pushing", "ready", "used", "closing"}

(* fn's sender runs while all resources are in use, and the receiver is    *)
(* completed after all of them have left.                                  *)
UseInv ==
  /\ body = "running" => \A r \in Resources : use[r] = "used"
  /\ body = "running" => "body" \notin requesting \union draining
  /\ body = "waiting" => "body" \notin requesting \union draining
  /\ outcome # "none" => Resources # {} /\ Departed = Resources
  /\ body = "done" => result # "none"

ResourceInv == ResourceTypeOK /\ HandleInv /\ UseInv /\ ResultSurvives

-----------------------------------------------------------------------------
(* Nothing is open before the start.                                       *)
LEMMA ResourceInitInv == ResourceInit => ResourceInv
BY DEF ResourceInit, ResourceInv, ResourceTypeOK, UseStates, HandleInv, UseInv,
       ResultSurvives, BodyResults

(* A sequence goes on, and its descriptor with it.                         *)
LEMMA GoesInv ==
  ASSUME ResourceInv, NEW r \in Resources, use[r] \notin {"failing", "ended"},
         body # "running" \/ use[r] # "used",
         NEW to \in UseStates, Goes(r, to),
         NEW h \in {"none", "open", "lost", "closed"}, handle' = [handle EXCEPT ![r] = h],
         to \in {"idle", "opening"} => h = "none",
         to \in {"pushing", "ready", "used", "closing"} <=> h = "open",
         UNCHANGED <<stopVars, errors, body, result, outcome>>
  PROVE  ResourceInv'
<1> ResourceTypeOK /\ HandleInv /\ UseInv /\ ResultSurvives
  BY DEF ResourceInv
<1>1. ResourceTypeOK' /\ HandleInv'
  BY DEF ResourceTypeOK, HandleInv, Goes
<1>2. body # "running"
  BY DEF UseInv
<1>3. outcome = "none"
  BY DEF UseInv, Departed
<1> QED
  BY <1>1, <1>2, <1>3 DEF ResourceInv, UseInv, ResultSurvives, stopVars

(* The steps of one resource up to its completion.                         *)
LEMMA ResourceStepInv ==
  ASSUME ResourceInv, NEW r \in Resources,
         \/ StartOpen(r) \/ OpenValue(r) \/ PushToken(r)
         \/ OpenThrows(r) \/ OpenFails(r) \/ CloseDone(r)
  PROVE  ResourceInv'
<1> ResourceTypeOK /\ HandleInv
  BY DEF ResourceInv
<1>0. handle = [handle EXCEPT ![r] = handle[r]]
  BY DEF ResourceTypeOK
<1>1. CASE StartOpen(r)
  <2>1. handle' = [handle EXCEPT ![r] = "none"]
    BY <1>0, <1>1 DEF StartOpen, HandleInv
  <2> QED
    BY <1>1, <2>1, GoesInv DEF StartOpen, UseStates
<1>2. CASE OpenValue(r)
  <2>1. PICK s \in {"closing", "pushing"} : Goes(r, s)
    BY <1>2 DEF OpenValue
  <2> QED
    BY <1>2, <2>1, GoesInv DEF OpenValue, UseStates
<1>3. CASE PushToken(r)
  <2>1. handle' = [handle EXCEPT ![r] = "open"]
    BY <1>0, <1>3 DEF PushToken, HandleInv
  <2> QED
    BY <1>3, <2>1, GoesInv DEF PushToken, UseStates
<1>4. CASE OpenThrows(r)
  BY <1>4, GoesInv DEF OpenThrows, UseStates
<1>5. CASE OpenFails(r)
  <2>1. handle' = [handle EXCEPT ![r] = "none"]
    BY <1>0, <1>5 DEF OpenFails, HandleInv
  <2>2. PICK s \in {"error", "value", "stopped"} : Goes(r, s)
    BY <1>5 DEF OpenFails, Unless
  <2> QED
    BY <1>5, <2>1, <2>2, GoesInv DEF OpenFails, UseStates
<1>6. CASE CloseDone(r)
  <2>1. handle' = [handle EXCEPT ![r] = "closed"]
    BY <1>6 DEF CloseDone, HandleInv
  <2>2. PICK s \in {"error", "value", "stopped"} : Goes(r, s)
    BY <1>6 DEF CloseDone, Unless
  <2> QED
    BY <1>6, <2>1, <2>2, GoesInv DEF CloseDone, UseStates
<1> QED
  BY <1>1, <1>2, <1>3, <1>4, <1>5, <1>6

(* A child that ends has no open descriptor: the last one delivers the     *)
(* result of fn's sender or an error.                                      *)
LEMMA ChildEndsInv ==
  ASSUME ResourceInv, NEW r \in Resources, ChildEnds(r)
  PROVE  ResourceInv'
<1> DEFINE last == Resources \ {r} \subseteq Departed
<1> ResourceTypeOK /\ HandleInv /\ UseInv /\ ResultSurvives
  BY DEF ResourceInv
<1>1. /\ use[r] \in {"value", "stopped", "error"}
      /\ \E s \in {"failing", "ended"} : use' = [use EXCEPT ![r] = s]
      /\ requesting' \in {requesting, requesting \union {r}}
      /\ UNCHANGED <<handle, requested, draining, errors, body, result>>
  BY DEF ChildEnds, Goes
<1>2. outcome' = IF last THEN Ending(use[r]) ELSE outcome
  BY DEF ChildEnds
<1>3. r # "body"
  BY StoppersAssumption
<1>4. body # "running"
  BY <1>1 DEF UseInv
<1>5. outcome = "none"
  BY <1>1 DEF UseInv, Departed
<1>6. ResourceTypeOK' /\ HandleInv'
  BY <1>1 DEF ResourceTypeOK, UseStates, HandleInv
<1>7. last => Departed' = Resources
  BY <1>1 DEF Departed, ResourceTypeOK
<1>8. UseInv'
  BY <1>1, <1>2, <1>3, <1>4, <1>5, <1>7 DEF UseInv
<1>9. ResultSurvives'
  <2> SUFFICES ASSUME outcome' # "none", body = "done", "outer" \notin requested
               PROVE  outcome' \in {result, "error"}
    BY <1>1 DEF ResultSurvives
  <2>1. outcome' = Ending(use[r])
    BY <1>2, <1>5
  <2>2. result # "none"
    BY DEF UseInv
  <2> QED
    BY <2>1, <2>2 DEF Ending, Visit
<1> QED
  BY <1>6, <1>8, <1>9 DEF ResourceInv

(* notify_error and notify_stop.                                           *)
LEMMA NotifyInv ==
  ASSUME ResourceInv,
         \/ \E r \in Resources : NotifyError(r)
         \/ \E x \in Stoppers : RequestZipStop(x) \/ Drain(x)
  PROVE  ResourceInv'
<1> ResourceTypeOK /\ HandleInv /\ UseInv /\ ResultSurvives
  BY DEF ResourceInv
<1>1. ASSUME NEW r \in Resources, NotifyError(r) PROVE ResourceInv'
  <2>1. /\ use[r] = "failing" /\ use' = [use EXCEPT ![r] = "ended"]
        /\ requesting' = requesting \union {r}
        /\ UNCHANGED <<handle, requested, draining, body, result, outcome>>
    BY <1>1 DEF NotifyError, Goes
  <2>2. r # "body" /\ body # "running"
    BY <2>1, StoppersAssumption DEF UseInv
  <2>3. ResourceTypeOK' /\ HandleInv'
    BY <2>1 DEF ResourceTypeOK, UseStates, HandleInv
  <2>4. Departed' = Departed
    BY <2>1 DEF Departed, ResourceTypeOK
  <2> QED
    BY <2>1, <2>2, <2>3, <2>4 DEF ResourceInv, UseInv, ResultSurvives
<1>2. ASSUME NEW x \in Stoppers, RequestZipStop(x) PROVE ResourceInv'
  <2>1. /\ UNCHANGED <<use, handle, body, result, outcome>>
        /\ requesting' \union draining' = requesting \union draining
        /\ "outer" \in requested' <=> "outer" \in requested
    BY <1>2 DEF RequestZipStop
  <2>2. ResourceTypeOK' /\ HandleInv' /\ ResultSurvives' /\ Departed' = Departed
    BY <2>1 DEF ResourceTypeOK, HandleInv, ResultSurvives, Departed
  <2> QED
    BY <2>1, <2>2 DEF ResourceInv, UseInv
<1>3. ASSUME NEW x \in Stoppers, Drain(x) PROVE ResourceInv'
  <2>1. /\ x \in draining /\ draining' = draining \ {x}
        /\ UNCHANGED <<handle, requested, requesting, body, result, outcome>>
    BY <1>3 DEF Drain
  <2>2. body = "running" => x # "body"
    BY <2>1 DEF UseInv
  <2>3. ResourceTypeOK' /\ \A r \in Resources :
          \/ use'[r] = use[r]
          \/ use[r] = "ready" /\ use'[r] = "closing"
          \/ body # "running" /\ use[r] = "used" /\ use'[r] = "closing"
    BY <1>3, <2>1, <2>2 DEF Drain, ResourceTypeOK, UseStates
  <2>4. HandleInv'
    BY <2>1, <2>3 DEF HandleInv
  <2>5. Departed' = Departed
    BY <2>3 DEF Departed
  <2>6. body = "running" => \A r \in Resources : use'[r] = "used"
    BY <2>3 DEF UseInv
  <2>7. UseInv' /\ ResultSurvives'
    BY <2>1, <2>5, <2>6 DEF UseInv, ResultSurvives
  <2> QED
    BY <2>3, <2>4, <2>7 DEF ResourceInv
<1> QED
  BY <1>1, <1>2, <1>3

(* fn's sender starts with everything open, and ends once.                 *)
LEMMA BodyInv ==
  ASSUME ResourceInv, BeginUse \/ EndUse
  PROVE  ResourceInv'
<1> ResourceTypeOK /\ HandleInv /\ UseInv /\ ResultSurvives
  BY DEF ResourceInv
<1>1. CASE BeginUse
  <2>1. /\ body = "waiting" /\ \A r \in Resources : use[r] = "ready"
        /\ UNCHANGED <<handle, stopVars, errors, result, outcome>>
        /\ \/ body' = body /\ use' = [r \in Resources |-> "closing"]
           \/ body' = "running" /\ use' = [r \in Resources |-> "used"]
    BY <1>1 DEF BeginUse
  <2>2. outcome = "none"
    BY <2>1 DEF UseInv, Departed
  <2> QED
    BY <2>1, <2>2
    DEF ResourceInv, ResourceTypeOK, UseStates, HandleInv, UseInv, ResultSurvives, stopVars
<1>2. CASE EndUse
  <2>1. PICK with \in BodyResults :
          /\ body = "running" /\ body' = "done" /\ result' = with
          /\ UNCHANGED <<use, handle, requested, draining, errors, outcome>>
    BY <1>2 DEF EndUse, BodyResults
  <2>2. outcome = "none"
    BY <2>1 DEF UseInv, Departed
  <2> QED
    BY <2>1, <2>2 DEF ResourceInv, ResourceTypeOK, HandleInv, UseInv, ResultSurvives, BodyResults
<1> QED
  BY <1>1, <1>2

(* Every step of ResourceNext and every stuttering step keeps the          *)
(* invariant.                                                              *)
LEMMA ResourceNextInv == ResourceInv /\ [ResourceNext]_resourceVars => ResourceInv'
<1> SUFFICES ASSUME ResourceInv, [ResourceNext]_resourceVars PROVE ResourceInv'
  OBVIOUS
<1> ResourceTypeOK /\ HandleInv /\ UseInv /\ ResultSurvives
  BY DEF ResourceInv
<1>1. CASE ResourceStop
  BY <1>1
  DEF ResourceStop, ResourceInv, ResourceTypeOK, HandleInv, UseInv, ResultSurvives, Departed
<1>2. CASE UNCHANGED resourceVars
  BY <1>2 DEF resourceVars, stopVars, ResourceInv, ResourceTypeOK, HandleInv, UseInv,
              ResultSurvives, Departed
<1> QED
  BY <1>1, <1>2, ResourceStepInv, ChildEndsInv, NotifyInv, BodyInv
  DEF ResourceNext, ResourceStep

(* The invariant holds in every state use_resources can reach.             *)
LEMMA ResourceInvariant == ResourceSpec => []ResourceInv
<1> QED
  BY ResourceInitInv, ResourceNextInv, PTL DEF ResourceSpec

(* However the openings, failures and stop requests of any number of       *)
(* resources interleave, what was opened is closed once, after fn's sender *)
(* and before the receiver is completed.                                   *)
THEOREM OpenedIsClosedOnceHolds == ResourceSpec => []OpenedIsClosedOnce
<1>1. ResourceInv => OpenedIsClosedOnce
  BY DEF ResourceInv, ResourceTypeOK, HandleInv, UseInv, Departed, OpenedIsClosedOnce
<1> QED
  BY <1>1, ResourceInvariant, PTL

(* The result of fn's sender is not lost in the stop requests with which   *)
(* first and zip end the resources.                                        *)
THEOREM ResultSurvivesHolds == ResourceSpec => []ResultSurvives
<1>1. ResourceInv => ResultSurvives
  BY DEF ResourceInv
<1> QED
  BY <1>1, ResourceInvariant, PTL

(***************************************************************************)
(* IntrusiveList.                                                          *)
(***************************************************************************)

ListSpec == ListInit /\ [][ListNext]_listsVars

(* The types of head_ and tail_, and of the links.                         *)
Ends == [head : Nodes \union {Null}, tail : Nodes \union {Null}]

Links == [Nodes -> Nodes \union {Null}]

(* The two lists have different nodes, linked in order.                    *)
ListsApart ==
  /\ ends \in [BothLists -> Ends]
  /\ lnext \in Links
  /\ lprev \in Links
  /\ litems \in [BothLists -> Seq(Nodes)]
  /\ \A q \in BothLists : NoDuplicates(litems[q])
  /\ \A q \in BothLists : Elements(litems[q]) \cap Elements(litems[OtherList(q)]) = {}
  /\ \A q \in BothLists : Linked(At(q), litems[q], joints)

ListInv == ~lost => ListsApart

-----------------------------------------------------------------------------
(* What is in a sequence has a place in it.                                *)
LEMMA ToSetIsElements == ASSUME NEW S, NEW s \in Seq(S) PROVE ToSet(s) = Elements(s)
BY DEF ToSet, Elements

(* RemoveFirst closes the gap.                                             *)
LEMMA RemovedItems ==
  ASSUME NEW S, NEW s \in Seq(S), NoDuplicates(s), NEW k \in 1..Len(s)
  PROVE  /\ RemoveFirst(s, s[k]) = Without(s, k)
         /\ RemoveFirst(s, s[k]) \in Seq(S)
         /\ NoDuplicates(RemoveFirst(s, s[k]))
         /\ ToSet(RemoveFirst(s, s[k])) = ToSet(s) \ {s[k]}
         /\ Len(RemoveFirst(s, s[k])) = Len(s) - 1
         /\ \A i \in 1..(Len(s) - 1) :
              RemoveFirst(s, s[k])[i] = IF i < k THEN s[i] ELSE s[i + 1]
<1>1. SelectInSeq(s, LAMBDA v : v = s[k]) = k
  <2> DEFINE I == {i \in 1..Len(s) : s[i] = s[k]}
  <2>1. I = {k}
    BY DEF NoDuplicates
  <2>2. Min(I) = k
    BY <2>1 DEF Min
  <2> QED
    BY <2>1, <2>2 DEF SelectInSeq
<1>2. RemoveFirst(s, s[k]) = Without(s, k)
  BY <1>1 DEF RemoveFirst, RemoveAt, Without
<1>3. ToSet(Without(s, k)) = ToSet(s) \ {s[k]}
  BY WithoutElements, ToSetIsElements
<1> QED
  BY <1>2, <1>3, WithoutElements

(* What is not in a sequence cannot be removed from it.                    *)
LEMMA RemovedNothing ==
  ASSUME NEW S, NEW s \in Seq(S), NEW n, n \notin ToSet(s)
  PROVE  RemoveFirst(s, n) = s
BY DEF RemoveFirst, ToSet

(* The two lists.                                                          *)
LEMMA TwoLists ==
  ASSUME NEW q \in BothLists
  PROVE  OtherList(q) \in BothLists /\ OtherList(q) # q /\ OtherList(OtherList(q)) = q
         /\ \A p \in BothLists : p = q \/ p = OtherList(q)
BY DEF BothLists, OtherList

(* What the invariant says of one list and of the other.                   *)
LEMMA ListFacts ==
  ASSUME ListsApart, NEW q \in BothLists, NEW r, r = OtherList(q)
  PROVE  /\ At(q) \in IntrusiveLists(Nodes) /\ At(r) \in IntrusiveLists(Nodes)
         /\ At(q).head = ends[q].head /\ At(q).tail = ends[q].tail
         /\ At(r).head = ends[r].head /\ At(r).tail = ends[r].tail
         /\ At(q).next = lnext /\ At(q).prev = lprev
         /\ At(r).next = lnext /\ At(r).prev = lprev
         /\ litems[q] \in Seq(Nodes) /\ litems[r] \in Seq(Nodes)
         /\ NoDuplicates(litems[q]) /\ NoDuplicates(litems[r])
         /\ Elements(litems[q]) \cap Elements(litems[r]) = {}
         /\ Elements(litems[q]) \subseteq Nodes /\ Elements(litems[r]) \subseteq Nodes
         /\ Linked(At(q), litems[q], joints) /\ Linked(At(r), litems[r], joints)
         /\ ToSet(litems[q]) = Elements(litems[q])
         /\ ToSet(litems[r]) = Elements(litems[r])
<1>1. r \in BothLists /\ q \in BothLists
  BY TwoLists
<1>2. ASSUME NEW p \in BothLists
      PROVE  /\ At(p) \in IntrusiveLists(Nodes)
             /\ At(p).head = ends[p].head /\ At(p).tail = ends[p].tail
             /\ At(p).next = lnext /\ At(p).prev = lprev
  <2>1. ends[p] \in Ends /\ lnext \in Links /\ lprev \in Links
    BY DEF ListsApart
  <2> QED
    BY <2>1 DEF At, IntrusiveLists, Ends, Links
<1>3. ASSUME NEW p \in BothLists
      PROVE  /\ litems[p] \in Seq(Nodes) /\ NoDuplicates(litems[p])
             /\ Linked(At(p), litems[p], joints)
             /\ Elements(litems[p]) \subseteq Nodes
             /\ ToSet(litems[p]) = Elements(litems[p])
  <2>1. litems[p] \in Seq(Nodes)
    BY DEF ListsApart
  <2> QED
    BY <2>1, ElementsTyped, ToSetIsElements DEF ListsApart
<1>4. Elements(litems[q]) \cap Elements(litems[r]) = {}
  BY DEF ListsApart
<1> QED
  BY <1>1, <1>2, <1>3, <1>4

(* The ends of a list that is not empty are among its nodes.               *)
LEMMA EndsAreLinked ==
  ASSUME NEW l, NEW s \in Seq(Nodes), NEW J, Linked(l, s, J)
  PROVE  /\ l.head = Null <=> s = <<>>
         /\ l.tail = Null <=> s = <<>>
         /\ s # <<>> => l.head \in Elements(s) /\ l.tail \in Elements(s)
         /\ \A n \in Elements(s) : l.next[n] = Null \/ l.next[n] \in Elements(s)
         /\ \A n \in Elements(s) : n \notin J => l.prev[n] = Null \/ l.prev[n] \in Elements(s)
<1>1. CASE s = <<>>
  BY <1>1 DEF Linked, Elements
<1>2. CASE s # <<>>
  <2>1. Len(s) \in Nat /\ 1 \in 1..Len(s) /\ Len(s) \in 1..Len(s)
    BY <1>2
  <2>2. \A i \in 1..Len(s) : s[i] \in Nodes /\ s[i] # Null /\ s[i] \in Elements(s)
    BY NullIsNoNode DEF Elements
  <2>3. l.head = s[1] /\ l.tail = s[Len(s)]
    BY <1>2 DEF Linked
  <2>4. ASSUME NEW n \in Elements(s)
        PROVE  /\ l.next[n] = Null \/ l.next[n] \in Elements(s)
               /\ n \notin J => l.prev[n] = Null \/ l.prev[n] \in Elements(s)
    <3> PICK i \in 1..Len(s) : n = s[i]
      BY DEF Elements
    <3>1. (i # Len(s) => i + 1 \in 1..Len(s)) /\ (i # 1 => i - 1 \in 1..Len(s))
      BY <2>1
    <3>2. /\ l.next[n] = IF i = Len(s) THEN Null ELSE s[i + 1]
          /\ n \notin J => l.prev[n] = IF i = 1 THEN Null ELSE s[i - 1]
      BY DEF Linked
    <3> QED
      BY <2>2, <3>1, <3>2
  <2> QED
    BY <1>2, <2>1, <2>2, <2>3, <2>4
<1> QED
  BY <1>1, <1>2

(* A call on one list that leaves the links of the other alone.            *)
LEMMA OneListChanges ==
  ASSUME ListsApart, NEW q \in BothLists, NEW l \in IntrusiveLists(Nodes),
         NEW s \in Seq(Nodes), NoDuplicates(s), Linked(l, s, joints'), Becomes(q, l),
         litems' = [litems EXCEPT ![q] = s],
         Elements(s) \cap Elements(litems[OtherList(q)]) = {},
         \A m \in Elements(litems[OtherList(q)]) :
           /\ l.next[m] = lnext[m]
           /\ m \notin joints' => m \notin joints /\ l.prev[m] = lprev[m]
  PROVE  ListsApart'
<1> DEFINE r == OtherList(q)
<1>1. r \in BothLists /\ r # q /\ OtherList(r) = q /\ \A p \in BothLists : p = q \/ p = r
  BY TwoLists
<1>2. /\ l.head \in Nodes \union {Null} /\ l.tail \in Nodes \union {Null}
      /\ l.next \in Links /\ l.prev \in Links
  BY DEF IntrusiveLists, Links
<1>3. /\ ends \in [BothLists -> Ends] /\ litems \in [BothLists -> Seq(Nodes)]
      /\ NoDuplicates(litems[r])
  BY <1>1 DEF ListsApart
<1>4. /\ ends' = [ends EXCEPT ![q] = [head |-> l.head, tail |-> l.tail]]
      /\ lnext' = l.next /\ lprev' = l.prev
  BY DEF Becomes
<1>5. [head |-> l.head, tail |-> l.tail] \in Ends
  BY <1>2 DEF Ends
<1>6. /\ ends' \in [BothLists -> Ends] /\ ends'[q] = [head |-> l.head, tail |-> l.tail]
      /\ ends'[r] = ends[r]
      /\ litems' \in [BothLists -> Seq(Nodes)] /\ litems'[q] = s /\ litems'[r] = litems[r]
  BY <1>1, <1>3, <1>4, <1>5
<1>7. Linked(At(q), litems[q], joints)'
  <2>1. At(q)'.head = l.head /\ At(q)'.tail = l.tail /\ At(q)'.next = l.next /\ At(q)'.prev = l.prev
    BY <1>4, <1>6 DEF At
  <2>2. Linked(At(q)', s, joints')
    BY <2>1 DEF Linked
  <2> QED
    BY <1>6, <2>2
<1>8. Linked(At(r), litems[r], joints)'
  <2>1. Linked(At(r), litems[r], joints)
    BY <1>1 DEF ListsApart
  <2>2. /\ At(r)'.head = At(r).head /\ At(r)'.tail = At(r).tail
        /\ At(r)'.next = l.next /\ At(r)'.prev = l.prev
        /\ At(r).next = lnext /\ At(r).prev = lprev
    BY <1>4, <1>6 DEF At
  <2>3. \A m \in Elements(litems[r]) :
          /\ At(r)'.next[m] = At(r).next[m]
          /\ m \notin joints' => m \notin joints /\ At(r)'.prev[m] = At(r).prev[m]
    BY <2>2
  <2> HIDE DEF r
  <2> DEFINE a == At(r)
             b == At(r)'
             J == joints'
             u == litems[r]
  <2>4. /\ Linked(a, u, joints) /\ b.head = a.head /\ b.tail = a.tail
        /\ \A m \in Elements(u) : /\ b.next[m] = a.next[m]
                                  /\ m \notin J => m \notin joints /\ b.prev[m] = a.prev[m]
    BY <2>1, <2>2, <2>3
  <2> HIDE DEF a, b, J, u
  <2>5. Linked(b, u, J)
    BY <2>4, SameLinks
  <2> QED
    BY <1>6, <2>5 DEF b, J, u
<1>9. \A p \in BothLists : NoDuplicates(litems[p])'
  BY <1>1, <1>3, <1>6
<1>10. \A p \in BothLists : (Elements(litems[p]) \cap Elements(litems[OtherList(p)]) = {})'
  BY <1>1, <1>6
<1>11. \A p \in BothLists : Linked(At(p), litems[p], joints)'
  BY <1>1, <1>7, <1>8
<1> HIDE DEF r
<1> QED
  BY <1>2, <1>4, <1>6, <1>9, <1>10, <1>11 DEF ListsApart

(* A call that moves the nodes of the other list to this one.              *)
LEMMA OtherListMoves ==
  ASSUME ListsApart, NEW q \in BothLists, NEW l \in IntrusiveLists(Nodes),
         NEW s \in Seq(Nodes), NoDuplicates(s), Linked(l, s, joints'),
         ends' = [ends EXCEPT ![q] = [head |-> l.head, tail |-> l.tail],
                              ![OtherList(q)] = NoEnds],
         lnext' = l.next, lprev' = l.prev,
         litems' = [litems EXCEPT ![q] = s, ![OtherList(q)] = <<>>]
  PROVE  ListsApart'
<1> DEFINE r == OtherList(q)
<1>1. r \in BothLists /\ r # q /\ OtherList(r) = q /\ \A p \in BothLists : p = q \/ p = r
  BY TwoLists
<1>2. /\ l.head \in Nodes \union {Null} /\ l.tail \in Nodes \union {Null}
      /\ l.next \in Links /\ l.prev \in Links
  BY DEF IntrusiveLists, Links
<1>3. ends \in [BothLists -> Ends] /\ litems \in [BothLists -> Seq(Nodes)]
  BY DEF ListsApart
<1>4. [head |-> l.head, tail |-> l.tail] \in Ends /\ NoEnds \in Ends /\ <<>> \in Seq(Nodes)
  BY <1>2 DEF Ends, NoEnds
<1> HIDE DEF r
<1>5. /\ ends' = [[ends EXCEPT ![q] = [head |-> l.head, tail |-> l.tail]]
                        EXCEPT ![r] = NoEnds]
      /\ litems' = [[litems EXCEPT ![q] = s] EXCEPT ![r] = <<>>]
  BY DEF r
<1>6. /\ ends' \in [BothLists -> Ends] /\ ends'[q] = [head |-> l.head, tail |-> l.tail]
      /\ ends'[r] = NoEnds
  <2> DEFINE e == [head |-> l.head, tail |-> l.tail]
             f == [ends EXCEPT ![q] = e]
  <2> HIDE DEF e
  <2>1. e \in Ends /\ f \in [BothLists -> Ends] /\ f[q] = e
    BY <1>3, <1>4 DEF e
  <2>2. ends' = [f EXCEPT ![r] = NoEnds]
    BY <1>5 DEF e
  <2> HIDE DEF f
  <2>3. ends' \in [BothLists -> Ends] /\ ends'[q] = e /\ ends'[r] = NoEnds
    BY <1>1, <1>4, <2>1, <2>2
  <2> QED
    BY <2>3 DEF e
<1>7. litems' \in [BothLists -> Seq(Nodes)] /\ litems'[q] = s /\ litems'[r] = <<>>
  <2> DEFINE f == [litems EXCEPT ![q] = s]
             none == <<>>
  <2>1. f \in [BothLists -> Seq(Nodes)] /\ f[q] = s /\ none \in Seq(Nodes)
    BY <1>3, <1>4
  <2>2. litems' = [f EXCEPT ![r] = none]
    BY <1>5
  <2> HIDE DEF f, none
  <2>3. litems' \in [BothLists -> Seq(Nodes)] /\ litems'[q] = s /\ litems'[r] = none
    BY <1>1, <2>1, <2>2
  <2> QED
    BY <2>3 DEF none
<1>8. Linked(At(q), litems[q], joints)'
  <2>1. At(q)'.head = l.head /\ At(q)'.tail = l.tail /\ At(q)'.next = l.next /\ At(q)'.prev = l.prev
    BY <1>6 DEF At
  <2>2. Linked(At(q)', s, joints')
    BY <2>1 DEF Linked
  <2> QED
    BY <1>7, <2>2
<1>9. Linked(At(r), litems[r], joints)'
  <2>1. At(r)'.head = Null /\ At(r)'.tail = Null
    BY <1>6 DEF At, NoEnds
  <2>2. Linked(At(r)', <<>>, joints')
    BY <2>1 DEF Linked
  <2> QED
    BY <1>7, <2>2
<1>10. /\ NoDuplicates(litems[q])' /\ NoDuplicates(litems[r])'
       /\ Elements(litems[r])' = {}
  BY <1>7, EmptyListElements
<1>11. \A p \in BothLists : NoDuplicates(litems[p])'
  BY <1>1, <1>10
<1>12. \A p \in BothLists : (Elements(litems[p]) \cap Elements(litems[OtherList(p)]) = {})'
  <2>1. OtherList(q) = r
    BY DEF r
  <2> QED
    BY <1>1, <1>10, <2>1
<1>13. \A p \in BothLists : Linked(At(p), litems[p], joints)'
  BY <1>1, <1>8, <1>9
<1> QED
  BY <1>2, <1>6, <1>7, <1>11, <1>12, <1>13 DEF ListsApart

(* The links before the first call.                                        *)
LEMMA ListInitInv == ListInit => ListInv
<1> SUFFICES ASSUME ListInit PROVE ListsApart
  BY DEF ListInv
<1>1. /\ ends \in [BothLists -> Ends] /\ lnext \in Links /\ lprev \in Links
      /\ litems \in [BothLists -> Seq(Nodes)]
  BY DEF ListInit, Ends, Links, NoEnds
<1>2. \A q \in BothLists : litems[q] = <<>> /\ ends[q] = NoEnds
  BY DEF ListInit
<1>3. \A q \in BothLists : Linked(At(q), litems[q], joints)
  BY <1>2 DEF Linked, At, NoEnds
<1>4. \A q \in BothLists : litems[OtherList(q)] = <<>>
  BY <1>2, TwoLists
<1>5. \A q \in BothLists : /\ NoDuplicates(litems[q])
                           /\ Elements(litems[q]) \cap Elements(litems[OtherList(q)]) = {}
  BY <1>2, <1>4, EmptyListElements
<1> QED
  BY <1>1, <1>3, <1>5 DEF ListsApart

(* push_back.                                                              *)
LEMMA PushBackStep ==
  ASSUME ListsApart, NEW q \in BothLists, NEW n \in Nodes, PushBack(q, n)
  PROVE  ListsApart'
<1> DEFINE r == OtherList(q)
           l == push_back(At(q), n)
           s == Append(litems[q], n)
<1>1. /\ Becomes(q, l) /\ litems' = [litems EXCEPT ![q] = s] /\ joints' = joints \ {n}
      /\ n \notin ToSet(litems[q]) /\ n \notin ToSet(litems[r])
  BY TwoLists DEF PushBack, InNoList
<1>2. /\ At(q) \in IntrusiveLists(Nodes) /\ At(q).next = lnext /\ At(q).prev = lprev
      /\ litems[q] \in Seq(Nodes) /\ NoDuplicates(litems[q])
      /\ Linked(At(q), litems[q], joints)
      /\ Elements(litems[q]) \cap Elements(litems[r]) = {}
      /\ Elements(litems[q]) \subseteq Nodes /\ Elements(litems[r]) \subseteq Nodes
      /\ n \notin Elements(litems[q]) /\ n \notin Elements(litems[r])
  BY <1>1, ListFacts
<1>3. l \in IntrusiveLists(Nodes) /\ Linked(l, s, joints \ {n})
  BY <1>2, NullIsNoNode, PushBackLinks
<1>4. s \in Seq(Nodes) /\ NoDuplicates(s) /\ Elements(s) = Elements(litems[q]) \union {n}
  BY <1>2, PushBackElements
<1>5. \A m \in Elements(litems[r]) : l.next[m] = lnext[m] /\ l.prev[m] = lprev[m]
  <2> SUFFICES ASSUME NEW m \in Elements(litems[r])
               PROVE  l.next[m] = lnext[m] /\ l.prev[m] = lprev[m]
    OBVIOUS
  <2>1. m \in Nodes /\ m # n /\ m # At(q).tail
    BY <1>2, EndsAreLinked, NullIsNoNode
  <2> QED
    BY <1>2, <2>1, CallsKeepLinks, NullIsNoNode
<1>6. \A m \in Elements(litems[r]) : m \notin joints \ {n} => m \notin joints
  BY <1>2
<1> HIDE DEF l, s
<1> QED
  BY <1>1, <1>2, <1>3, <1>4, <1>5, <1>6, OneListChanges

(* push_front.                                                             *)
LEMMA PushFrontStep ==
  ASSUME ListsApart, NEW q \in BothLists, NEW n \in Nodes, PushFront(q, n)
  PROVE  ListsApart'
<1> DEFINE r == OtherList(q)
           l == push_front(At(q), n)
           s == <<n>> \o litems[q]
           J == joints \union {n, At(q).head}
<1>1. /\ Becomes(q, l) /\ litems' = [litems EXCEPT ![q] = s]
      /\ joints' = joints \union {n, ends[q].head} /\ ends[q].tail # Null
      /\ n \notin ToSet(litems[q]) /\ n \notin ToSet(litems[r])
  BY TwoLists DEF PushFront, InNoList
<1>2. /\ At(q) \in IntrusiveLists(Nodes) /\ At(q).next = lnext /\ At(q).prev = lprev
      /\ At(q).head = ends[q].head /\ At(q).tail = ends[q].tail
      /\ litems[q] \in Seq(Nodes) /\ NoDuplicates(litems[q])
      /\ Linked(At(q), litems[q], joints)
      /\ Elements(litems[q]) \cap Elements(litems[r]) = {}
      /\ Elements(litems[q]) \subseteq Nodes /\ Elements(litems[r]) \subseteq Nodes
      /\ n \notin Elements(litems[q]) /\ n \notin Elements(litems[r])
  BY <1>1, ListFacts
<1>3. litems[q] # <<>>
  BY <1>1, <1>2, EndsAreLinked
<1>4. l \in IntrusiveLists(Nodes) /\ Linked(l, s, J)
  BY <1>2, <1>3, NullIsNoNode, PushFrontLinks
<1>5. /\ <<n>> \in Seq(Nodes) /\ NoDuplicates(<<n>>) /\ Elements(<<n>>) = {n}
  <2> DEFINE u == <<n>>
  <2>1. u \in Seq(Nodes) /\ Len(u) = 1 /\ u[1] = n
    OBVIOUS
  <2> HIDE DEF u
  <2>2. NoDuplicates(u) /\ Elements(u) = {n}
    BY <2>1 DEF NoDuplicates, Elements
  <2> QED
    BY <2>1, <2>2 DEF u
<1>6. s \in Seq(Nodes) /\ NoDuplicates(s) /\ Elements(s) = Elements(litems[q]) \union {n}
  <2> DEFINE u == <<n>>
  <2>1. /\ u \in Seq(Nodes) /\ NoDuplicates(u) /\ Elements(u) = {n}
        /\ Elements(u) \cap Elements(litems[q]) = {}
    BY <1>2, <1>5
  <2> HIDE DEF u
  <2>2. /\ u \o litems[q] \in Seq(Nodes) /\ NoDuplicates(u \o litems[q])
        /\ Elements(u \o litems[q]) = Elements(u) \union Elements(litems[q])
    BY <1>2, <2>1, ConcatElements
  <2> QED
    BY <2>1, <2>2 DEF u
<1>7. \A m \in Elements(litems[r]) : l.next[m] = lnext[m] /\ l.prev[m] = lprev[m]
  BY <1>2, CallsKeepLinks, NullIsNoNode
<1>8. joints' = J /\ \A m : m \notin J => m \notin joints
  BY <1>1, <1>2
<1> HIDE DEF l, s, J
<1> QED
  BY <1>1, <1>2, <1>4, <1>6, <1>7, <1>8, OneListChanges

(* pop_front.                                                              *)
LEMMA PopFrontStep ==
  ASSUME ListsApart, NEW q \in BothLists, PopFront(q)
  PROVE  ListsApart'
<1> DEFINE r == OtherList(q)
           l == pop_front(At(q))
           s == Tail(litems[q])
           h == ends[q].head
           second == lnext[h]
<1>1. /\ Becomes(q, l) /\ litems' = [litems EXCEPT ![q] = s]
      /\ joints' = joints \ {h, second} /\ litems[q] # <<>>
  BY DEF PopFront
<1>2. /\ At(q) \in IntrusiveLists(Nodes) /\ At(q).next = lnext /\ At(q).prev = lprev
      /\ At(q).head = h
      /\ litems[q] \in Seq(Nodes) /\ NoDuplicates(litems[q])
      /\ Linked(At(q), litems[q], joints)
      /\ Elements(litems[q]) \cap Elements(litems[r]) = {}
      /\ Elements(litems[q]) \subseteq Nodes /\ Elements(litems[r]) \subseteq Nodes
  BY ListFacts
<1>3. /\ h \in Elements(litems[q]) /\ h \in Nodes /\ h # Null
      /\ second = Null \/ second \in Elements(litems[q])
  <2>1. h \in Elements(litems[q])
    BY <1>1, <1>2, EndsAreLinked
  <2> QED
    BY <1>2, <2>1, EndsAreLinked, NullIsNoNode
<1>4. l \in IntrusiveLists(Nodes) /\ Linked(l, s, joints \ {second})
  BY <1>1, <1>2, NullIsNoNode, PopFrontLinks
<1>5. /\ s \in Seq(Nodes) /\ NoDuplicates(s)
      /\ Elements(s) = Elements(litems[q]) \ {litems[q][1]}
  BY <1>1, <1>2, PopFrontElements
<1>6. h = litems[q][1]
  BY <1>1, <1>2 DEF Linked
<1>7. Linked(l, s, joints')
  <2>1. \A m \in Elements(s) : m \notin joints' => m \notin joints \ {second}
    BY <1>1, <1>5, <1>6
  <2> HIDE DEF l, s, second
  <2> QED
    BY <1>4, <2>1, SameLinks
<1>8. \A m \in Elements(litems[r]) : l.next[m] = lnext[m] /\ l.prev[m] = lprev[m]
  <2> SUFFICES ASSUME NEW m \in Elements(litems[r])
               PROVE  l.next[m] = lnext[m] /\ l.prev[m] = lprev[m]
    OBVIOUS
  <2>1. m \in Nodes /\ m # second
    BY <1>2, <1>3, NullIsNoNode
  <2> QED
    BY <1>2, <1>3, <2>1, CallsKeepLinks, NullIsNoNode
<1>9. \A m \in Elements(litems[r]) : m \notin joints' => m \notin joints
  BY <1>1, <1>2, <1>3, NullIsNoNode
<1>10. Elements(s) \cap Elements(litems[r]) = {}
  BY <1>2, <1>5
<1> HIDE DEF l, s
<1> QED
  BY <1>1, <1>4, <1>5, <1>7, <1>8, <1>9, <1>10, OneListChanges

(* erase of a node whose Prev is right.                                    *)
LEMMA EraseStep ==
  ASSUME ListsApart, NEW q \in BothLists, NEW n \in Nodes, Erase(q, n)
  PROVE  ListsApart'
<1> DEFINE r == OtherList(q)
           l == erase(At(q), n)
           s == RemoveFirst(litems[q], n)
<1>1. /\ Becomes(q, l) /\ litems' = [litems EXCEPT ![q] = s]
      /\ joints' = joints \ {lnext[n]} /\ n \in ToSet(litems[q]) /\ n \notin joints
  BY DEF Erase
<1>2. /\ At(q) \in IntrusiveLists(Nodes) /\ At(q).next = lnext /\ At(q).prev = lprev
      /\ litems[q] \in Seq(Nodes) /\ NoDuplicates(litems[q])
      /\ Linked(At(q), litems[q], joints)
      /\ Elements(litems[q]) \cap Elements(litems[r]) = {}
      /\ Elements(litems[q]) \subseteq Nodes /\ Elements(litems[r]) \subseteq Nodes
      /\ n \in Elements(litems[q])
  BY <1>1, ListFacts
<1>3. /\ lnext[n] = Null \/ lnext[n] \in Elements(litems[q])
      /\ lprev[n] = Null \/ lprev[n] \in Elements(litems[q])
  BY <1>1, <1>2, EndsAreLinked
<1>4. PICK k \in 1..Len(litems[q]) : n = litems[q][k]
  BY <1>2 DEF Elements
<1>5. /\ s = Without(litems[q], k) /\ s \in Seq(Nodes) /\ NoDuplicates(s)
      /\ Elements(s) = Elements(litems[q]) \ {n}
  <2>1. s = Without(litems[q], k)
    BY <1>2, <1>4, RemovedItems
  <2> HIDE DEF s
  <2> QED
    BY <1>2, <1>4, <2>1, WithoutElements
<1>6. l \in IntrusiveLists(Nodes) /\ Linked(l, s, joints \ {lnext[n]})
  <2> DEFINE u == litems[q]
             a == At(q)
  <2>1. /\ a \in IntrusiveLists(Nodes) /\ u \in Seq(Nodes) /\ NoDuplicates(u)
        /\ Linked(a, u, joints) /\ u[k] \notin joints /\ k \in 1..Len(u)
    BY <1>1, <1>2, <1>4
  <2> HIDE DEF u, a
  <2>2. /\ erase(a, u[k]) \in IntrusiveLists(Nodes)
        /\ Linked(erase(a, u[k]), Without(u, k), joints \ {a.next[u[k]]})
    BY <2>1, NullIsNoNode, EraseLinks
  <2> QED
    BY <1>2, <1>4, <1>5, <2>2 DEF u, a
<1>7. \A m \in Elements(litems[r]) : l.next[m] = lnext[m] /\ l.prev[m] = lprev[m]
  <2> SUFFICES ASSUME NEW m \in Elements(litems[r])
               PROVE  l.next[m] = lnext[m] /\ l.prev[m] = lprev[m]
    OBVIOUS
  <2>1. m \in Nodes /\ m # lnext[n] /\ m # lprev[n]
    BY <1>2, <1>3, NullIsNoNode
  <2> QED
    BY <1>2, <2>1, CallsKeepLinks, NullIsNoNode
<1>8. \A m \in Elements(litems[r]) : m \notin joints' => m \notin joints
  BY <1>1, <1>2, <1>3, NullIsNoNode
<1>9. Elements(s) \cap Elements(litems[r]) = {}
  BY <1>2, <1>5
<1> HIDE DEF l, s
<1> QED
  BY <1>1, <1>5, <1>6, <1>7, <1>8, <1>9, OneListChanges

(* append.                                                                 *)
LEMMA AppendStep ==
  ASSUME ListsApart, NEW q \in BothLists, AppendOther(q)
  PROVE  ListsApart'
<1> DEFINE r == OtherList(q)
           l == append(At(q), ends[r])
           s == litems[q] \o litems[r]
<1>1. /\ ends' = [ends EXCEPT ![q] = [head |-> l.head, tail |-> l.tail], ![r] = NoEnds]
      /\ lnext' = l.next /\ lprev' = lprev
      /\ litems' = [litems EXCEPT ![q] = s, ![r] = <<>>]
      /\ joints' = joints \union (IF ends[q].head = Null THEN {} ELSE {ends[r].head})
      /\ ends[r].head # Null
  BY DEF AppendOther
<1>2. /\ At(q) \in IntrusiveLists(Nodes) /\ At(r) \in IntrusiveLists(Nodes)
      /\ At(q).next = lnext /\ At(q).prev = lprev /\ At(r).next = lnext /\ At(r).prev = lprev
      /\ At(q).head = ends[q].head /\ At(r).head = ends[r].head /\ At(r).tail = ends[r].tail
      /\ litems[q] \in Seq(Nodes) /\ litems[r] \in Seq(Nodes)
      /\ NoDuplicates(litems[q]) /\ NoDuplicates(litems[r])
      /\ Elements(litems[q]) \cap Elements(litems[r]) = {}
      /\ Linked(At(q), litems[q], joints) /\ Linked(At(r), litems[r], joints)
  BY ListFacts
<1>3. litems[r] # <<>>
  BY <1>1, <1>2, EndsAreLinked
<1>4. append(At(q), At(r)) = l /\ l.prev = lprev
  BY <1>2 DEF append, At
<1> HIDE DEF l
<1>5. /\ l \in IntrusiveLists(Nodes) /\ l.prev = lprev
      /\ Linked(l, s, joints')
  <2> DEFINE a == At(q)
             b == At(r)
             u == litems[q]
             v == litems[r]
             K == joints'
  <2>1. /\ a \in IntrusiveLists(Nodes) /\ b \in IntrusiveLists(Nodes)
        /\ b.next = a.next /\ b.prev = a.prev
        /\ u \in Seq(Nodes) /\ v \in Seq(Nodes) /\ v # <<>>
        /\ NoDuplicates(u) /\ NoDuplicates(v) /\ Elements(u) \cap Elements(v) = {}
        /\ Linked(a, u, joints) /\ Linked(b, v, joints)
        /\ K = IF a.head = Null THEN joints ELSE joints \union {b.head}
    BY <1>1, <1>2, <1>3
  <2>2. ListsToJoin(Nodes, joints, a, u, b, v)
    BY <2>1, NullIsNoNode DEF ListsToJoin
  <2> HIDE DEF a, b, u, v, K
  <2>3. /\ append(a, b) \in IntrusiveLists(Nodes)
        /\ Linked(append(a, b), u \o v, K)
    BY <2>1, <2>2, AppendLinks
  <2> QED
    BY <1>4, <2>1, <2>3 DEF a, b, u, v, K
<1>6. s \in Seq(Nodes) /\ NoDuplicates(s)
  BY <1>2, ConcatElements
<1>7. Linked(l, s, joints') /\ lprev' = l.prev
  BY <1>1, <1>2, <1>5
<1> HIDE DEF s
<1> QED
  BY <1>1, <1>5, <1>6, <1>7, OtherListMoves

(* prepend.                                                                *)
LEMMA PrependStep ==
  ASSUME ListsApart, NEW q \in BothLists, PrependOther(q)
  PROVE  ListsApart'
<1> DEFINE r == OtherList(q)
           l == prepend(At(q), ends[r])
           s == litems[r] \o litems[q]
<1>1. /\ ends' = [ends EXCEPT ![q] = [head |-> l.head, tail |-> l.tail], ![r] = NoEnds]
      /\ lnext' = l.next /\ lprev' = lprev
      /\ litems' = [litems EXCEPT ![q] = s, ![r] = <<>>]
      /\ joints' = joints \union (IF ends[q].head = Null THEN {} ELSE {ends[q].head})
      /\ ends[r].head # Null
  BY DEF PrependOther
<1>2. /\ At(q) \in IntrusiveLists(Nodes) /\ At(r) \in IntrusiveLists(Nodes)
      /\ At(q).next = lnext /\ At(q).prev = lprev /\ At(r).next = lnext /\ At(r).prev = lprev
      /\ At(q).head = ends[q].head /\ At(r).head = ends[r].head /\ At(r).tail = ends[r].tail
      /\ litems[q] \in Seq(Nodes) /\ litems[r] \in Seq(Nodes)
      /\ NoDuplicates(litems[q]) /\ NoDuplicates(litems[r])
      /\ Elements(litems[q]) \cap Elements(litems[r]) = {}
      /\ Linked(At(q), litems[q], joints) /\ Linked(At(r), litems[r], joints)
  BY ListFacts
<1>3. litems[r] # <<>>
  BY <1>1, <1>2, EndsAreLinked
<1>4. prepend(At(q), At(r)) = l /\ l.prev = lprev
  BY <1>2 DEF prepend, At
<1> HIDE DEF l
<1>5. /\ l \in IntrusiveLists(Nodes) /\ l.prev = lprev
      /\ Linked(l, s, joints')
  <2> DEFINE a == At(q)
             b == At(r)
             u == litems[q]
             v == litems[r]
             K == joints'
  <2>1. /\ a \in IntrusiveLists(Nodes) /\ b \in IntrusiveLists(Nodes)
        /\ b.next = a.next /\ b.prev = a.prev
        /\ u \in Seq(Nodes) /\ v \in Seq(Nodes) /\ v # <<>>
        /\ NoDuplicates(u) /\ NoDuplicates(v) /\ Elements(u) \cap Elements(v) = {}
        /\ Linked(a, u, joints) /\ Linked(b, v, joints)
        /\ K = IF a.head = Null THEN joints ELSE joints \union {a.head}
    BY <1>1, <1>2, <1>3
  <2>2. ListsToJoin(Nodes, joints, a, u, b, v)
    BY <2>1, NullIsNoNode DEF ListsToJoin
  <2> HIDE DEF a, b, u, v, K
  <2>3. /\ prepend(a, b) \in IntrusiveLists(Nodes)
        /\ Linked(prepend(a, b), v \o u, K)
    BY <2>1, <2>2, PrependLinks
  <2> QED
    BY <1>4, <2>1, <2>3 DEF a, b, u, v, K
<1>6. s \in Seq(Nodes) /\ NoDuplicates(s)
  <2>1. Elements(litems[r]) \cap Elements(litems[q]) = {}
    BY <1>2
  <2> QED
    BY <1>2, <2>1, ConcatElements
<1>7. Linked(l, s, joints') /\ lprev' = l.prev
  BY <1>1, <1>2, <1>5
<1> HIDE DEF s
<1> QED
  BY <1>1, <1>5, <1>6, <1>7, OtherListMoves

(* Every step of ListNext and every stuttering step keeps the invariant.   *)
LEMMA ListNextInv == ListInv /\ [ListNext]_listsVars => ListInv'
<1> SUFFICES ASSUME ListInv, [ListNext]_listsVars PROVE ListInv'
  OBVIOUS
<1>1. CASE ListNext
  <2>1. ListsApart /\ ~lost
    BY <1>1 DEF ListNext, ListInv
  <2>2. PICK q \in BothLists :
          \/ \E n \in Nodes : \/ PushBack(q, n) \/ PushFront(q, n)
                              \/ PushFrontOnEmpty(q, n)
                              \/ Erase(q, n) \/ EraseJoint(q, n)
          \/ PopFront(q) \/ AppendOther(q) \/ PrependOther(q)
    BY <1>1 DEF ListNext
  <2>3. ASSUME NEW n \in Nodes, PushFrontOnEmpty(q, n) \/ EraseJoint(q, n)
        PROVE  ListInv'
    BY <2>3 DEF PushFrontOnEmpty, EraseJoint, ListInv
  <2>4. ASSUME NEW n \in Nodes, PushBack(q, n) \/ PushFront(q, n) \/ Erase(q, n)
        PROVE  ListsApart'
    BY <2>1, <2>4, PushBackStep, PushFrontStep, EraseStep
  <2>5. ASSUME PopFront(q) \/ AppendOther(q) \/ PrependOther(q)
        PROVE  ListsApart'
    BY <2>1, <2>5, PopFrontStep, AppendStep, PrependStep
  <2> QED
    BY <2>2, <2>3, <2>4, <2>5 DEF ListInv
<1>2. CASE UNCHANGED listsVars
  BY <1>2 DEF listsVars, ListInv, ListsApart, At
<1> QED
  BY <1>1, <1>2

(* For any set of nodes and any sequence of the calls of intrusive_list,   *)
(* as long as none needs a Prev that a joint left wrong and push_front is  *)
(* not called on an empty list: each of two lists that share the nodes     *)
(* holds what was put into it and not taken out.                           *)
THEOREM ListHoldsItsItems == ListSpec => []ListsHoldTheirItems
<1>1. ListInv => ListsHoldTheirItems
  BY DEF ListInv, ListsApart, ListsHoldTheirItems
<1> QED
  BY <1>1, ListInitInv, ListNextInv, PTL DEF ListSpec

(***************************************************************************)
(* IntrusiveQueue.                                                         *)
(***************************************************************************)

QueueSpec == QueueInit /\ [][QueueNext]_queueVars

(* The links of a queue lead from its head_ to its tail_ through s.        *)
Chain(next, head, tail, s) ==
  /\ head = IF s = <<>> THEN Null ELSE s[1]
  /\ tail = IF s = <<>> THEN Null ELSE s[Len(s)]
  /\ \A i \in 1..Len(s) : next[s[i]] = IF i = Len(s) THEN Null ELSE s[i + 1]

ChainOf(q) == Chain(qnext, queue[q].head, queue[q].tail, qitems[q])

(* The queues are chains of different nodes.                               *)
QueueInv ==
  /\ queue \in [Queues -> Ends]
  /\ qnext \in [Nodes -> Nodes \union {Null}]
  /\ qitems \in [Queues -> Seq(Nodes)]
  /\ \A q \in Queues : NoDuplicates(qitems[q])
  /\ \A q \in Queues : Elements(qitems[q]) \cap Elements(qitems[Other(q)]) = {}
  /\ \A q \in Queues : ChainOf(q)

-----------------------------------------------------------------------------
(* The two queues.                                                         *)
LEMMA TwoQueues ==
  ASSUME NEW q \in Queues
  PROVE  Other(q) \in Queues /\ Other(q) # q /\ Other(Other(q)) = q
         /\ \A p \in Queues : p = q \/ p = Other(q)
BY DEF Queues, Other

(* The first and the last node of a queue.                                 *)
LEMMA ChainEnds ==
  ASSUME NEW next, NEW head, NEW tail, NEW s \in Seq(Nodes), Chain(next, head, tail, s)
  PROVE  /\ head \in Nodes \union {Null} /\ tail \in Nodes \union {Null}
         /\ head = Null <=> s = <<>>
         /\ tail = Null <=> s = <<>>
         /\ s # <<>> => /\ head = s[1] /\ tail = s[Len(s)]
                        /\ 1 \in 1..Len(s) /\ Len(s) \in 1..Len(s)
                        /\ head \in Elements(s) /\ tail \in Elements(s)
<1>1. Len(s) \in Nat /\ (s # <<>> => Len(s) >= 1)
  OBVIOUS
<1>2. s # <<>> => 1 \in 1..Len(s) /\ Len(s) \in 1..Len(s)
  BY <1>1
<1>3. \A i \in 1..Len(s) : s[i] \in Nodes /\ s[i] # Null /\ s[i] \in Elements(s)
  BY NullIsNoNode DEF Elements
<1> QED
  BY <1>2, <1>3 DEF Chain

(* A link that does not start in a queue is none of its links.             *)
LEMMA ChainKept ==
  ASSUME NEW next, NEW head, NEW tail, NEW s \in Seq(Nodes), Chain(next, head, tail, s),
         NEW links, \A n \in Elements(s) : links[n] = next[n]
  PROVE  Chain(links, head, tail, s)
<1>1. \A i \in 1..Len(s) : links[s[i]] = next[s[i]]
  BY DEF Elements
<1> QED
  BY <1>1 DEF Chain

(* pop_front.                                                              *)
LEMMA ChainPopFront ==
  ASSUME NEW next, NEW head, NEW tail, NEW s \in Seq(Nodes), Chain(next, head, tail, s),
         s # <<>>
  PROVE  Chain(next, next[head], IF next[head] = Null THEN Null ELSE tail, Tail(s))
<1> DEFINE t == Tail(s)
<1>1. /\ t \in Seq(Nodes) /\ Len(s) \in Nat /\ Len(s) >= 1 /\ Len(t) = Len(s) - 1
      /\ \A i \in 1..(Len(s) - 1) : t[i] = s[i + 1]
  OBVIOUS
<1>2. \A i \in 1..Len(s) : s[i] \in Nodes /\ s[i] # Null
  BY NullIsNoNode
<1>3. head = s[1] /\ tail = s[Len(s)] /\ 1 \in 1..Len(s)
  BY ChainEnds
<1>4. next[head] = IF 1 = Len(s) THEN Null ELSE s[1 + 1]
  BY <1>3 DEF Chain
<1> HIDE DEF t
<1>5. CASE Len(s) = 1
  <2>1. t = <<>> /\ Len(t) = 0
    BY <1>1, <1>5
  <2>2. next[head] = Null
    BY <1>4, <1>5
  <2>3. Chain(next, Null, Null, t)
    BY <2>1 DEF Chain
  <2> QED
    BY <2>2, <2>3 DEF t
<1>6. CASE Len(s) # 1
  <2>1. 2 \in 1..Len(s) /\ t # <<>> /\ t[1] = s[2] /\ t[Len(t)] = s[Len(s)]
    BY <1>1, <1>6
  <2>2. next[head] = t[1] /\ next[head] # Null
    BY <1>2, <1>4, <1>6, <2>1
  <2>3. ASSUME NEW i \in 1..Len(t)
        PROVE  next[t[i]] = IF i = Len(t) THEN Null ELSE t[i + 1]
    <3>1. i + 1 \in 1..Len(s) /\ t[i] = s[i + 1] /\ (i + 1 = Len(s) <=> i = Len(t))
      BY <1>1
    <3>2. next[s[i + 1]] = IF i + 1 = Len(s) THEN Null ELSE s[(i + 1) + 1]
      BY <3>1 DEF Chain
    <3>3. i # Len(t) => t[i + 1] = s[(i + 1) + 1]
      BY <1>1
    <3> QED
      BY <3>1, <3>2, <3>3
  <2> QED
    BY <1>3, <2>1, <2>2, <2>3 DEF Chain, t
<1> QED
  BY <1>5, <1>6

(* append: the links of two queues with one more between them.             *)
LEMMA ChainConcat ==
  ASSUME NEW next, NEW head, NEW tail, NEW s \in Seq(Nodes), Chain(next, head, tail, s),
         NEW first, NEW last, NEW u \in Seq(Nodes), Chain(next, first, last, u),
         NoDuplicates(s), Elements(s) \cap Elements(u) = {}, u # <<>>, s # <<>>,
         NEW links, links[tail] = first,
         \A n \in Nodes : n # tail => links[n] = next[n]
  PROVE  Chain(links, head, last, s \o u)
<1> DEFINE t == s \o u
<1>1. /\ t \in Seq(Nodes) /\ Len(t) = Len(s) + Len(u)
      /\ \A i \in 1..Len(s) : t[i] = s[i]
      /\ \A i \in 1..Len(u) : t[Len(s) + i] = u[i]
  BY ConcatElements
<1>2. /\ Len(s) \in Nat /\ Len(u) \in Nat /\ Len(s) >= 1 /\ Len(u) >= 1
  OBVIOUS
<1>3. head = s[1] /\ tail = s[Len(s)] /\ first = u[1] /\ last = u[Len(u)]
      /\ tail \in Elements(s)
  BY ChainEnds
<1>6. \A i \in 1..Len(t) : i \in 1..Len(s) \/ \E j \in 1..Len(u) : i = Len(s) + j
  BY ConcatElements
<1> HIDE DEF t
<1>4. t # <<>> /\ t[1] = s[1] /\ t[Len(t)] = u[Len(u)]
  BY <1>1, <1>2
<1>5. ASSUME NEW i \in 1..Len(t)
      PROVE  links[t[i]] = IF i = Len(t) THEN Null ELSE t[i + 1]
  <2>1. CASE i < Len(s)
    <3>1. i \in 1..Len(s) /\ i + 1 \in 1..Len(s) /\ Len(s) \in 1..Len(s) /\ i # Len(t)
      BY <1>1, <1>2, <2>1
    <3>2. s[i] # tail /\ s[i] \in Nodes
      BY <1>3, <2>1, <3>1 DEF NoDuplicates
    <3>3. next[s[i]] = s[i + 1]
      BY <2>1, <3>1 DEF Chain
    <3> QED
      BY <1>1, <3>1, <3>2, <3>3
  <2>2. CASE i = Len(s)
    <3>1. Len(s) \in 1..Len(s) /\ 1 \in 1..Len(u) /\ i # Len(t)
      BY <1>1, <1>2, <2>2
    <3>2. t[i] = tail /\ t[i + 1] = first
      BY <1>1, <1>3, <2>2, <3>1
    <3> QED
      BY <3>1, <3>2
  <2>3. CASE i > Len(s)
    <3>0. i \notin 1..Len(s)
      BY <1>2, <2>3
    <3> PICK j \in 1..Len(u) : i = Len(s) + j
      BY <1>6, <3>0
    <3>1. j = Len(u) <=> i = Len(t)
      <4>1. Len(t) = Len(s) + Len(u)
        BY <1>1
      <4> QED
        BY <1>2, <4>1
    <3>2. t[i] = u[j]
      BY <1>1
    <3>3. j # Len(u) => t[i + 1] = u[j + 1]
      <4> SUFFICES ASSUME j # Len(u) PROVE t[i + 1] = u[j + 1]
        OBVIOUS
      <4>1. j + 1 \in 1..Len(u) /\ i + 1 = Len(s) + (j + 1)
        BY <1>2
      <4>2. t[Len(s) + (j + 1)] = u[j + 1]
        BY <1>1, <4>1
      <4> QED
        BY <4>1, <4>2, Zenon
    <3>4. u[j] \in Nodes /\ u[j] # tail
      <4>1. u[j] \in Nodes
        OBVIOUS
      <4>2. u[j] \in Elements(u)
        BY DEF Elements
      <4> QED
        BY <1>3, <4>1, <4>2
    <3>5. next[u[j]] = IF j = Len(u) THEN Null ELSE u[j + 1]
      BY DEF Chain
    <3> QED
      BY <3>1, <3>2, <3>3, <3>4, <3>5
  <2> QED
    BY <1>1, <1>2, <2>1, <2>2, <2>3
<1> QED
  BY <1>3, <1>4, <1>5 DEF Chain, t

(* push_back and push_front: a node alone is a queue.                      *)
LEMMA ChainOfOne ==
  ASSUME NEW next, NEW n \in Nodes, next[n] = Null
  PROVE  Chain(next, n, n, <<n>>) /\ <<n>> \in Seq(Nodes) /\ <<n>> # <<>>
         /\ NoDuplicates(<<n>>) /\ Elements(<<n>>) = {n}
<1> DEFINE s == <<n>>
<1>1. s \in Seq(Nodes) /\ s # <<>> /\ Len(s) = 1 /\ s[1] = n
  OBVIOUS
<1> HIDE DEF s
<1>2. Chain(next, n, n, s)
  BY <1>1 DEF Chain
<1>3. NoDuplicates(s) /\ Elements(s) = {n}
  BY <1>1 DEF NoDuplicates, Elements
<1> QED
  BY <1>1, <1>2, <1>3 DEF s

(* Nothing is in the queues before the first call.                         *)
LEMMA QueueInitInv == QueueInit => QueueInv
<1> SUFFICES ASSUME QueueInit PROVE QueueInv
  OBVIOUS
<1>1. \A q \in Queues : /\ queue[q].head = Null /\ queue[q].tail = Null
                        /\ qitems[q] = <<>> /\ qitems[Other(q)] = <<>>
  BY TwoQueues DEF QueueInit
<1>2. /\ queue \in [Queues -> Ends]
      /\ qnext \in [Nodes -> Nodes \union {Null}]
      /\ qitems \in [Queues -> Seq(Nodes)]
  BY DEF QueueInit, Ends
<1> QED
  BY <1>1, <1>2, EmptyListElements DEF QueueInv, ChainOf, Chain

(* A call that changes one queue and no link of the other.                 *)
LEMMA OneQueueChanges ==
  ASSUME QueueInv, NEW q \in Queues, NEW head, NEW tail, NEW s \in Seq(Nodes),
         queue' = [queue EXCEPT ![q] = [head |-> head, tail |-> tail]],
         qitems' = [qitems EXCEPT ![q] = s],
         qnext' \in [Nodes -> Nodes \union {Null}],
         \A n \in Elements(qitems[Other(q)]) : qnext'[n] = qnext[n],
         Chain(qnext', head, tail, s), NoDuplicates(s),
         Elements(s) \cap Elements(qitems[Other(q)]) = {}
  PROVE  QueueInv'
<1>1. head \in Nodes \union {Null} /\ tail \in Nodes \union {Null}
  BY ChainEnds
<1>2. Other(q) \in Queues /\ Other(q) # q /\ Other(Other(q)) = q
      /\ \A p \in Queues : p = q \/ p = Other(q)
  BY TwoQueues
<1>3. /\ queue' \in [Queues -> Ends] /\ qitems' \in [Queues -> Seq(Nodes)]
      /\ queue'[q].head = head /\ queue'[q].tail = tail /\ qitems'[q] = s
      /\ queue'[Other(q)] = queue[Other(q)] /\ qitems'[Other(q)] = qitems[Other(q)]
  BY <1>1, <1>2 DEF QueueInv, Ends
<1>4. ChainOf(q)'
  BY <1>3 DEF ChainOf
<1>5. ChainOf(Other(q))'
  <2>1. Chain(qnext, queue[Other(q)].head, queue[Other(q)].tail, qitems[Other(q)])
        /\ qitems[Other(q)] \in Seq(Nodes)
    BY <1>2 DEF QueueInv, ChainOf
  <2>2. Chain(qnext', queue[Other(q)].head, queue[Other(q)].tail, qitems[Other(q)])
    BY <2>1, ChainKept
  <2> QED
    BY <1>3, <2>2 DEF ChainOf
<1>6. NoDuplicates(qitems'[Other(q)])
  BY <1>2, <1>3 DEF QueueInv
<1> QED
  BY <1>2, <1>3, <1>4, <1>5, <1>6 DEF QueueInv

(* A call that splices one queue to the other, which it leaves empty.      *)
LEMMA QueuesSpliced ==
  ASSUME QueueInv, NEW q \in Queues, NEW head, NEW tail, NEW s \in Seq(Nodes),
         queue' = [queue EXCEPT ![q] = [head |-> head, tail |-> tail],
                                ![Other(q)] = [head |-> Null, tail |-> Null]],
         qitems' = [qitems EXCEPT ![q] = s, ![Other(q)] = <<>>],
         qnext' \in [Nodes -> Nodes \union {Null}],
         Chain(qnext', head, tail, s), NoDuplicates(s)
  PROVE  QueueInv'
<1>1. head \in Nodes \union {Null} /\ tail \in Nodes \union {Null}
  BY ChainEnds
<1>2. Other(q) \in Queues /\ Other(q) # q /\ Other(Other(q)) = q
      /\ \A p \in Queues : p = q \/ p = Other(q)
  BY TwoQueues
<1>3. /\ queue' \in [Queues -> Ends] /\ qitems' \in [Queues -> Seq(Nodes)]
      /\ queue'[q].head = head /\ queue'[q].tail = tail /\ qitems'[q] = s
      /\ queue'[Other(q)].head = Null /\ queue'[Other(q)].tail = Null
      /\ qitems'[Other(q)] = <<>>
  BY <1>1, <1>2 DEF QueueInv, Ends
<1>4. ChainOf(q)'
  BY <1>3 DEF ChainOf
<1>5. ChainOf(Other(q))'
  BY <1>3 DEF ChainOf, Chain
<1> QED
  BY <1>2, <1>3, <1>4, <1>5, EmptyListElements DEF QueueInv

(* What QueueInv says of the queue q and the other one.                    *)
LEMMA QueueParts ==
  ASSUME QueueInv, NEW q \in Queues
  PROVE  /\ qitems[q] \in Seq(Nodes) /\ qitems[Other(q)] \in Seq(Nodes)
         /\ NoDuplicates(qitems[q]) /\ NoDuplicates(qitems[Other(q)])
         /\ Elements(qitems[q]) \cap Elements(qitems[Other(q)]) = {}
         /\ Chain(qnext, queue[q].head, queue[q].tail, qitems[q])
         /\ Chain(qnext, queue[Other(q)].head, queue[Other(q)].tail, qitems[Other(q)])
         /\ queue[q] = [head |-> queue[q].head, tail |-> queue[q].tail]
         /\ qnext \in [Nodes -> Nodes \union {Null}]
         /\ queue \in [Queues -> Ends] /\ qitems \in [Queues -> Seq(Nodes)]
<1>1. Other(q) \in Queues
  BY TwoQueues
<1>2. queue[q] \in Ends
  BY DEF QueueInv
<1>3. queue[q] = [head |-> queue[q].head, tail |-> queue[q].tail]
  BY <1>2 DEF Ends
<1> QED
  BY <1>1, <1>3 DEF QueueInv, ChainOf

(* The head_ and the tail_ of a queue are all of it.                       *)
LEMMA EndsReplaced ==
  ASSUME QueueInv, NEW q \in Queues, NEW h, NEW t
  PROVE  [queue EXCEPT ![q].head = h, ![q].tail = t]
           = [queue EXCEPT ![q] = [head |-> h, tail |-> t]]
<1>1. queue[q] = [head |-> queue[q].head, tail |-> queue[q].tail]
      /\ queue \in [Queues -> Ends]
  BY QueueParts
<1>2. \A a, b :
        /\ [[head |-> a, tail |-> b] EXCEPT !.head = h] = [head |-> h, tail |-> b]
        /\ [[head |-> h, tail |-> b] EXCEPT !.tail = t] = [head |-> h, tail |-> t]
  OBVIOUS
<1>3. [[queue[q] EXCEPT !.head = h] EXCEPT !.tail = t] = [head |-> h, tail |-> t]
  <2> DEFINE a == queue[q].head
             b == queue[q].tail
  <2>1. queue[q] = [head |-> a, tail |-> b]
    BY <1>1
  <2> HIDE DEF a, b
  <2> QED
    BY <1>2, <2>1
<1> QED
  BY <1>1, <1>3

(* pop_front.                                                              *)
LEMMA QueuePopFrontInv ==
  ASSUME QueueInv, NEW q \in Queues, QueuePopFront(q)
  PROVE  QueueInv'
<1> DEFINE s == qitems[q]
           h == queue[q].head
           second == qnext[h]
           tail == IF second = Null THEN Null ELSE queue[q].tail
<1>1. /\ s # <<>> /\ qitems' = [qitems EXCEPT ![q] = Tail(s)] /\ qnext' = qnext
      /\ queue' = [queue EXCEPT ![q].head = second,
                                ![q].tail = tail]
  BY QueueParts DEF QueuePopFront
<1>2. queue' = [queue EXCEPT ![q] = [head |-> second, tail |-> tail]]
  BY <1>1, EndsReplaced, ZenonT(30)
<1>3. Chain(qnext', second, tail, Tail(s))
  BY <1>1, QueueParts, ChainPopFront
<1>4. /\ Tail(s) \in Seq(Nodes) /\ NoDuplicates(Tail(s))
      /\ Elements(Tail(s)) \subseteq Elements(s)
  BY <1>1, QueueParts, PopFrontElements, ZenonT(30)
<1>5. /\ Elements(Tail(s)) \cap Elements(qitems[Other(q)]) = {}
      /\ qnext' \in [Nodes -> Nodes \union {Null}]
      /\ \A n \in Elements(qitems[Other(q)]) : qnext'[n] = qnext[n]
  BY <1>1, <1>4, QueueParts
<1> HIDE DEF second, tail, s
<1> QED
  BY <1>1, <1>2, <1>3, <1>4, <1>5, OneQueueChanges

(* A node that is in no queue, with its link cleared, next to a queue.     *)
LEMMA NodeAlone ==
  ASSUME QueueInv, NEW q \in Queues, NEW n \in Nodes, Unlinked(n)
  PROVE  LET base == [qnext EXCEPT ![n] = Null] IN
           /\ n \notin Elements(qitems[q]) /\ n \notin Elements(qitems[Other(q)])
           /\ base \in [Nodes -> Nodes \union {Null}]
           /\ base[n] = Null /\ \A m \in Nodes : m # n => base[m] = qnext[m]
           /\ Chain(base, queue[q].head, queue[q].tail, qitems[q])
<1> DEFINE base == [qnext EXCEPT ![n] = Null]
<1>1. n \notin Elements(qitems[q]) /\ n \notin Elements(qitems[Other(q)])
  <2>1. /\ ToSet(qitems[q]) = Elements(qitems[q])
        /\ ToSet(qitems[Other(q)]) = Elements(qitems[Other(q)])
    BY QueueParts, ToSetIsElements
  <2> QED
    BY <2>1, TwoQueues DEF Unlinked
<1>2. /\ base \in [Nodes -> Nodes \union {Null}]
      /\ base[n] = Null /\ \A m \in Nodes : m # n => base[m] = qnext[m]
  BY QueueParts
<1>3. \A m \in Elements(qitems[q]) : base[m] = qnext[m]
  BY <1>1, <1>2, QueueParts, ElementsTyped
<1> HIDE DEF base
<1>4. Chain(base, queue[q].head, queue[q].tail, qitems[q])
  BY <1>3, QueueParts, ChainKept
<1> QED
  BY <1>1, <1>2, <1>4 DEF base

(* push_front.                                                             *)
LEMMA QueuePushFrontInv ==
  ASSUME QueueInv, NEW q \in Queues, NEW n \in Nodes, QueuePushFront(q, n)
  PROVE  QueueInv'
<1> DEFINE s == qitems[q]
           h == queue[q].head
           tail == IF queue[q].tail = Null THEN n ELSE queue[q].tail
           base == [qnext EXCEPT ![n] = Null]
<1>1. /\ Unlinked(n) /\ qitems' = [qitems EXCEPT ![q] = <<n>> \o s]
      /\ qnext' = [qnext EXCEPT ![n] = h]
      /\ queue' = [queue EXCEPT ![q].head = n, ![q].tail = tail]
  BY QueueParts DEF QueuePushFront
<1>2. queue' = [queue EXCEPT ![q] = [head |-> n, tail |-> tail]]
  BY <1>1, EndsReplaced, ZenonT(30)
<1>3. /\ h \in Nodes \union {Null} /\ (h = Null <=> s = <<>>)
      /\ (queue[q].tail = Null <=> s = <<>>)
  <2>1. s \in Seq(Nodes) /\ Chain(qnext, h, queue[q].tail, s)
    BY QueueParts
  <2> HIDE DEF s, h
  <2> QED
    BY <2>1, ChainEnds
<1>4. /\ qnext' \in [Nodes -> Nodes \union {Null}] /\ qnext'[n] = h
      /\ \A m \in Nodes : m # n => qnext'[m] = qnext[m]
  BY <1>1, <1>3, QueueParts
<1>5. /\ n \notin Elements(s) /\ n \notin Elements(qitems[Other(q)])
      /\ base[n] = Null /\ \A m \in Nodes : m # n => base[m] = qnext[m]
      /\ Chain(base, h, queue[q].tail, s)
  BY <1>1, NodeAlone
<1>6. /\ <<n>> \o s \in Seq(Nodes) /\ NoDuplicates(<<n>> \o s)
      /\ Elements(<<n>> \o s) = {n} \union Elements(s)
  <2>1. s \in Seq(Nodes) /\ NoDuplicates(s)
    BY QueueParts
  <2> HIDE DEF s
  <2> QED
    BY <1>5, <2>1, PushFrontElements
<1>7. s \in Seq(Nodes) /\ Elements(qitems[Other(q)]) \subseteq Nodes
      /\ Elements(s) \cap Elements(qitems[Other(q)]) = {}
  BY QueueParts, ElementsTyped
<1> HIDE DEF s, h, tail, base
<1>8. Chain(qnext', n, tail, <<n>> \o s)
  <2>1. CASE s = <<>>
    <3>1. <<n>> \o s = <<n>>
      BY <2>1
    <3>2. tail = n /\ qnext'[n] = Null
      BY <1>3, <1>4, <2>1 DEF tail
    <3>3. Chain(qnext', n, n, <<n>>)
      BY <3>2, ChainOfOne
    <3> QED
      BY <3>1, <3>2, <3>3
  <2>2. CASE s # <<>>
    <3>1. tail = queue[q].tail
      BY <1>3, <2>2 DEF tail
    <3>2. /\ Chain(base, n, n, <<n>>) /\ <<n>> \in Seq(Nodes) /\ <<n>> # <<>>
          /\ NoDuplicates(<<n>>) /\ Elements(<<n>>) \cap Elements(s) = {}
      BY <1>5, ChainOfOne
    <3>3. \A m \in Nodes : m # n => qnext'[m] = base[m]
      BY <1>4, <1>5
    <3> QED
      BY <1>4, <1>5, <1>7, <2>2, <3>1, <3>2, <3>3, ChainConcat, ZenonT(30)
  <2> QED
    BY <2>1, <2>2
<1>9. Elements(<<n>> \o s) \cap Elements(qitems[Other(q)]) = {}
      /\ \A m \in Elements(qitems[Other(q)]) : qnext'[m] = qnext[m]
  BY <1>4, <1>5, <1>6, <1>7
<1> QED
  BY <1>1, <1>2, <1>4, <1>6, <1>8, <1>9, OneQueueChanges

(* push_back.                                                              *)
LEMMA QueuePushBackInv ==
  ASSUME QueueInv, NEW q \in Queues, NEW n \in Nodes, QueuePushBack(q, n)
  PROVE  QueueInv'
<1> DEFINE s == qitems[q]
           t == queue[q].tail
           head == IF t = Null THEN n ELSE queue[q].head
           base == [qnext EXCEPT ![n] = Null]
<1>1. /\ Unlinked(n) /\ qitems' = [qitems EXCEPT ![q] = Append(s, n)]
      /\ qnext' = SetMember(base, t, n)
      /\ queue' = [queue EXCEPT ![q].head = head, ![q].tail = n]
  BY QueueParts DEF QueuePushBack
<1>2. queue' = [queue EXCEPT ![q] = [head |-> head, tail |-> n]]
  BY <1>1, EndsReplaced, ZenonT(30)
<1>3. t \in Nodes \union {Null} /\ (t = Null <=> s = <<>>)
      /\ (s # <<>> => t \in Elements(s))
  <2>1. s \in Seq(Nodes) /\ Chain(qnext, queue[q].head, t, s)
    BY QueueParts
  <2> HIDE DEF s, t
  <2> QED
    BY <2>1, ChainEnds
<1>4. /\ base \in [Nodes -> Nodes \union {Null}]
      /\ n \notin Elements(s) /\ n \notin Elements(qitems[Other(q)])
      /\ base[n] = Null /\ \A m \in Nodes : m # n => base[m] = qnext[m]
      /\ Chain(base, queue[q].head, t, s)
  BY <1>1, NodeAlone
<1> HIDE DEF base
<1>5. /\ qnext' \in [Nodes -> Nodes \union {Null}]
      /\ t # Null => qnext'[t] = n
      /\ \A m \in Nodes : m # t => qnext'[m] = base[m]
  BY <1>1, <1>3, <1>4 DEF SetMember
<1>6. /\ Append(s, n) \in Seq(Nodes) /\ NoDuplicates(Append(s, n))
      /\ Elements(Append(s, n)) = Elements(s) \union {n}
  <2>1. s \in Seq(Nodes) /\ NoDuplicates(s)
    BY QueueParts
  <2> HIDE DEF s
  <2> QED
    BY <1>4, <2>1, PushBackElements
<1>7. s \in Seq(Nodes) /\ NoDuplicates(s) /\ Elements(qitems[Other(q)]) \subseteq Nodes
      /\ Elements(s) \cap Elements(qitems[Other(q)]) = {}
  BY QueueParts, ElementsTyped
<1>8. Append(s, n) = s \o <<n>> /\ Append(<<>>, n) = <<n>>
  BY <1>7
<1> HIDE DEF s, t, head
<1>9. Chain(qnext', head, n, Append(s, n))
  <2>1. CASE s = <<>>
    <3>1. head = n /\ t = Null /\ qnext'[n] = Null
      BY <1>3, <1>4, <1>5, <2>1, NullIsNoNode DEF head
    <3>2. Append(s, n) = <<n>>
      BY <1>8, <2>1
    <3>3. Chain(qnext', n, n, <<n>>)
      BY <3>1, ChainOfOne
    <3> QED
      BY <3>1, <3>2, <3>3
  <2>2. CASE s # <<>>
    <3>1. head = queue[q].head /\ qnext'[t] = n
      BY <1>3, <1>5, <2>2 DEF head
    <3>2. /\ Chain(base, n, n, <<n>>) /\ <<n>> \in Seq(Nodes) /\ <<n>> # <<>>
          /\ Elements(s) \cap Elements(<<n>>) = {}
      BY <1>4, ChainOfOne
    <3>3. Chain(base, head, t, s)
      BY <1>4, <3>1
    <3>4. \A m \in Nodes : m # t => qnext'[m] = base[m]
      BY <1>5
    <3>5. Chain(qnext', head, n, s \o <<n>>)
      <4> DEFINE one == <<n>>
      <4>1. /\ Chain(base, n, n, one) /\ one \in Seq(Nodes) /\ one # <<>>
            /\ Elements(s) \cap Elements(one) = {}
        BY <3>2
      <4> HIDE DEF one
      <4>2. Chain(qnext', head, n, s \o one)
        BY <1>7, <2>2, <3>1, <3>3, <3>4, <4>1, ChainConcat
      <4> QED
        BY <4>2 DEF one
    <3> QED
      BY <1>8, <3>5
  <2> QED
    BY <2>1, <2>2
<1>10. Elements(Append(s, n)) \cap Elements(qitems[Other(q)]) = {}
      /\ \A m \in Elements(qitems[Other(q)]) : qnext'[m] = qnext[m]
  <2>1. \A m \in Elements(qitems[Other(q)]) : m # t
    BY <1>3, <1>7, NullIsNoNode
  <2> QED
    BY <1>4, <1>5, <1>6, <1>7, <2>1
<1> QED
  BY <1>1, <1>2, <1>5, <1>6, <1>9, <1>10, OneQueueChanges

(* append.                                                                 *)
LEMMA QueueAppendInv ==
  ASSUME QueueInv, NEW q \in Queues, QueueAppend(q)
  PROVE  QueueInv'
<1> DEFINE s == qitems[q]
           u == qitems[Other(q)]
           h == queue[q].head
           t == queue[q].tail
           other == queue[Other(q)]
           head == IF h = Null THEN other.head ELSE h
<1>1. /\ other.head # Null
      /\ qnext' = IF h = Null THEN qnext ELSE [qnext EXCEPT ![t] = other.head]
      /\ queue' = [queue EXCEPT ![q] = [head |-> head, tail |-> other.tail],
                                ![Other(q)] = [head |-> Null, tail |-> Null]]
      /\ qitems' = [qitems EXCEPT ![q] = s \o u, ![Other(q)] = <<>>]
  BY QueueParts DEF QueueAppend
<1>2. /\ s \in Seq(Nodes) /\ u \in Seq(Nodes) /\ NoDuplicates(s) /\ NoDuplicates(u)
      /\ Elements(s) \cap Elements(u) = {}
      /\ Chain(qnext, h, t, s) /\ Chain(qnext, other.head, other.tail, u)
      /\ qnext \in [Nodes -> Nodes \union {Null}]
  BY QueueParts
<1> HIDE DEF s, u, h, t, other, head
<1>3. /\ u # <<>> /\ other.head \in Nodes /\ (h = Null <=> s = <<>>)
      /\ (s # <<>> => t \in Nodes)
  BY <1>1, <1>2, ChainEnds, NullIsNoNode
<1>4. s \o u \in Seq(Nodes) /\ NoDuplicates(s \o u)
  BY <1>2, ConcatElements
<1>5. Chain(qnext', head, other.tail, s \o u) /\ qnext' \in [Nodes -> Nodes \union {Null}]
  <2>1. CASE s = <<>>
    <3>1. s \o u = u /\ head = other.head /\ qnext' = qnext
      BY <1>1, <1>2, <1>3, <2>1 DEF head
    <3> QED
      BY <1>2, <3>1
  <2>2. CASE s # <<>>
    <3>1. /\ head = h /\ qnext' \in [Nodes -> Nodes \union {Null}]
          /\ qnext'[t] = other.head /\ \A n \in Nodes : n # t => qnext'[n] = qnext[n]
      BY <1>1, <1>2, <1>3, <2>2 DEF head
    <3> QED
      BY <1>2, <1>3, <2>2, <3>1, ChainConcat
  <2> QED
    BY <2>1, <2>2
<1> QED
  BY <1>1, <1>4, <1>5, QueuesSpliced

(* prepend.                                                                *)
LEMMA QueuePrependInv ==
  ASSUME QueueInv, NEW q \in Queues, QueuePrepend(q)
  PROVE  QueueInv'
<1> DEFINE s == qitems[q]
           u == qitems[Other(q)]
           h == queue[q].head
           t == queue[q].tail
           other == queue[Other(q)]
           tail == IF t = Null THEN other.tail ELSE t
<1>1. /\ other.head # Null
      /\ qnext' = [qnext EXCEPT ![other.tail] = h]
      /\ queue' = [queue EXCEPT ![q] = [head |-> other.head, tail |-> tail],
                                ![Other(q)] = [head |-> Null, tail |-> Null]]
      /\ qitems' = [qitems EXCEPT ![q] = u \o s, ![Other(q)] = <<>>]
  BY QueueParts DEF QueuePrepend
<1>2. /\ s \in Seq(Nodes) /\ u \in Seq(Nodes) /\ NoDuplicates(s) /\ NoDuplicates(u)
      /\ Elements(s) \cap Elements(u) = {}
      /\ Chain(qnext, h, t, s) /\ Chain(qnext, other.head, other.tail, u)
      /\ qnext \in [Nodes -> Nodes \union {Null}]
  BY QueueParts
<1> HIDE DEF s, u, h, t, other, tail
<1>3. /\ u # <<>> /\ other.tail \in Nodes /\ other.tail \in Elements(u)
      /\ h \in Nodes \union {Null} /\ (h = Null <=> s = <<>>) /\ (t = Null <=> s = <<>>)
      /\ other.tail = u[Len(u)] /\ Len(u) \in 1..Len(u)
  BY <1>1, <1>2, ChainEnds, NullIsNoNode
<1>4. u \o s \in Seq(Nodes) /\ NoDuplicates(u \o s)
  BY <1>2, ConcatElements
<1>5. /\ qnext' \in [Nodes -> Nodes \union {Null}]
      /\ qnext'[other.tail] = h
      /\ \A n \in Nodes : n # other.tail => qnext'[n] = qnext[n]
  BY <1>1, <1>2, <1>3
<1>6. Chain(qnext', other.head, tail, u \o s)
  <2>1. CASE s = <<>>
    <3>1. u \o s = u /\ tail = other.tail /\ h = Null
      BY <1>2, <1>3, <2>1 DEF tail
    <3>2. qnext[other.tail] = Null
      BY <1>2, <1>3 DEF Chain
    <3>3. \A n \in Elements(u) : qnext'[n] = qnext[n]
      BY <1>2, <1>5, <3>1, <3>2, ElementsTyped
    <3> QED
      BY <1>2, <3>1, <3>3, ChainKept
  <2>2. CASE s # <<>>
    <3>1. tail = t
      BY <1>3, <2>2 DEF tail
    <3> QED
      BY <1>2, <1>3, <1>5, <2>2, <3>1, ChainConcat
  <2> QED
    BY <2>1, <2>2
<1> QED
  BY <1>1, <1>4, <1>5, <1>6, QueuesSpliced

(* What make_reversed works on: the links, the list it has built and the   *)
(* rest of the list it has still to go through.                            *)
Reversal == [links    : [Nodes -> Nodes \union {Null}],
             new_head : Nodes \union {Null},
             list     : Nodes \union {Null}]

(* A round of make_reversed.                                               *)
Round(r) ==
  IF r.list = Null THEN r
  ELSE [links |-> [r.links EXCEPT ![r.list] = r.new_head],
        new_head |-> r.list,
        list |-> r.links[r.list]]

(* A round of make_reversed leaves a typed state.                          *)
LEMMA RoundTyped ==
  ASSUME NEW r \in Reversal
  PROVE  Round(r) \in Reversal
<1>1. /\ r.links \in [Nodes -> Nodes \union {Null}] /\ r.new_head \in Nodes \union {Null}
      /\ r.list \in Nodes \union {Null}
  BY DEF Reversal
<1>2. CASE r.list = Null
  BY <1>2 DEF Round
<1>3. CASE r.list # Null
  <2>1. r.list \in Nodes
    BY <1>1, <1>3
  <2>2. /\ r.links[r.list] \in Nodes \union {Null}
        /\ [r.links EXCEPT ![r.list] = r.new_head] \in [Nodes -> Nodes \union {Null}]
    BY <1>1, <2>1
  <2> QED
    BY <1>1, <1>3, <2>2 DEF Round, Reversal
<1> QED
  BY <1>2, <1>3

(* The loop of make_reversed goes through a sequence of rounds.            *)
LEMMA ReversedByRounds ==
  ASSUME QueueInv, NEW first \in Nodes \union {Null}
  PROVE  \E m \in Nat :
           /\ m = Len(qitems[1]) + Len(qitems[2])
           /\ \E f \in [0..m -> Reversal] :
                /\ ReversedAfter(first) = f[m]
                /\ f[0] = [links |-> qnext, new_head |-> Null, list |-> first]
                /\ \A k \in 1..m : f[k] = Round(f[k - 1])
<1> DEFINE m == Len(qitems[1]) + Len(qitems[2])
           start == [links |-> qnext, new_head |-> Null, list |-> first]
           P(f) == f = [k \in 0..m |-> IF k = 0 THEN start ELSE Round(f[k - 1])]
           step == [r \in Reversal |-> Round(r)]
<1>1. start \in Reversal
  BY DEF QueueInv, Reversal
<1>2. ReversedAfter(first) = (CHOOSE f : P(f))[m]
  BY DEF ReversedAfter, Round
<1>12. step \in [Reversal -> Reversal] /\ \A r \in Reversal : step[r] = Round(r)
  <2> HIDE DEF P, start
  <2> QED
    BY RoundTyped
<1> HIDE DEF P, start, step
<1>13. m \in Nat
  BY DEF QueueInv, Queues
<1> HIDE DEF m
<1>3. \E f \in [0..m -> Reversal] : /\ f[0] = start
                                   /\ \A k \in 1..m : f[k] = step[f[k - 1]]
  <2>1. start \in Reversal /\ step \in [Reversal -> Reversal]
    BY <1>1, <1>12
  <2>2. \E f : Iterates(f, m, Reversal, start, step)
    BY <1>13, <2>1, RecursionExists, Zenon
  <2> QED
    BY <2>2 DEF Iterates
<1>4. PICK g \in [0..m -> Reversal] : /\ g[0] = start
                                     /\ \A k \in 1..m : g[k] = step[g[k - 1]]
  BY <1>3
<1>5. P(g)
  <2>1. \A k \in 1..m : k \in Nat /\ k - 1 \in 0..m /\ g[k] = Round(g[k - 1])
    <3> SUFFICES ASSUME NEW k \in 1..m
                 PROVE  k \in Nat /\ k - 1 \in 0..m /\ g[k] = Round(g[k - 1])
      OBVIOUS
    <3>1. k \in Nat /\ k - 1 \in 0..m
      BY <1>13
    <3>2. g[k - 1] \in Reversal
      BY <3>1
    <3>3. step[g[k - 1]] = Round(g[k - 1])
      BY <1>12, <3>1, <3>2
    <3> QED
      BY <1>4, <3>1, <3>3
  <2>2. \A k \in 0..m : g[k] = IF k = 0 THEN start ELSE Round(g[k - 1])
    BY <1>4, <2>1
  <2> QED
    BY <2>2 DEF P
<1>6. P(CHOOSE f : P(f))
  BY <1>5
<1> DEFINE loop == CHOOSE f : P(f)
<1> HIDE DEF loop
<1>7. P(loop) /\ ReversedAfter(first) = loop[m]
  BY <1>2, <1>6 DEF loop
<1>8. loop = [k \in 0..m |-> IF k = 0 THEN start ELSE Round(loop[k - 1])]
  BY <1>7 DEF P
<1>9. loop[0] = start /\ \A k \in 1..m : loop[k] = Round(loop[k - 1])
  BY <1>8, <1>13
<1>10. \A k \in 0..m : loop[k] \in Reversal
  <2> DEFINE S == {k \in Nat : k \in 0..m => loop[k] \in Reversal}
  <2>1. 0 \in S
    BY <1>1, <1>9
  <2>2. ASSUME NEW k \in Nat, k \in S
        PROVE  k + 1 \in S
    <3> SUFFICES ASSUME k + 1 \in 0..m PROVE loop[k + 1] \in Reversal
      OBVIOUS
    <3>1. k \in 0..m /\ k + 1 \in 1..m /\ (k + 1) - 1 = k
      BY <1>13
    <3>2. loop[k] \in Reversal /\ loop[k + 1] = Round(loop[k])
      BY <1>9, <2>2, <3>1
    <3> QED
      BY <3>2, RoundTyped
  <2>3. Nat \subseteq S
    <3> HIDE DEF S
    <3> QED
      BY <2>1, <2>2, NatSetInduction
  <2> QED
    BY <2>3
<1>11. loop \in [0..m -> Reversal]
  <2>1. DOMAIN loop = 0..m /\ loop = [k \in 0..m |-> loop[k]]
    BY <1>8
  <2> QED
    BY <1>10, <2>1
<1> QED
  BY <1>7, <1>9, <1>11, <1>13 DEF m, start

(* Reverse(s): the items of s from the last to the first.                  *)
LEMMA ReverseElements ==
  ASSUME NEW s \in Seq(Nodes)
  PROVE  /\ Reverse(s) \in Seq(Nodes) /\ Len(Reverse(s)) = Len(s)
         /\ \A i \in 1..Len(s) : /\ (Len(s) - i) + 1 \in 1..Len(s)
                                 /\ Reverse(s)[i] = s[(Len(s) - i) + 1]
         /\ Elements(Reverse(s)) = Elements(s)
         /\ NoDuplicates(s) => NoDuplicates(Reverse(s))
<1> DEFINE t == Reverse(s)
           L == Len(s)
<1>1. L \in Nat
  OBVIOUS
<1>2. \A i \in 1..L : (L - i) + 1 \in 1..L /\ (L - ((L - i) + 1)) + 1 = i
  BY <1>1
<1>3. t \in Seq(Nodes) /\ Len(t) = L
  BY <1>1, <1>2 DEF Reverse
<1>4. \A i \in 1..L : t[i] = s[(L - i) + 1]
  BY DEF Reverse
<1> HIDE DEF t, L
<1>5. Elements(t) = Elements(s)
  <2>1. \A i \in 1..L : t[(L - i) + 1] = s[i]
    BY <1>2, <1>4
  <2>2. \A i \in 1..Len(s) : s[i] \in Elements(t)
    BY <1>2, <1>3, <2>1 DEF Elements, L
  <2>3. \A i \in 1..Len(t) : t[i] \in Elements(s)
    BY <1>2, <1>3, <1>4 DEF Elements, L
  <2> QED
    BY <2>2, <2>3 DEF Elements
<1>6. NoDuplicates(s) => NoDuplicates(t)
  <2> SUFFICES ASSUME NoDuplicates(s), NEW i \in 1..L, NEW j \in 1..L, t[i] = t[j]
               PROVE  i = j
    BY <1>3 DEF NoDuplicates
  <2>1. (L - i) + 1 = (L - j) + 1
    BY <1>2, <1>4 DEF NoDuplicates, L
  <2> QED
    BY <1>1, <2>1
<1> QED
  BY <1>2, <1>3, <1>4, <1>5, <1>6 DEF t, L

(* After j rounds: the first j items of s are linked backwards, and the    *)
(* rest of the list begins at the next one.                                *)
Reversed(r, s, next, j) ==
  /\ r \in Reversal
  /\ r.new_head = IF j = 0 THEN Null ELSE s[j]
  /\ r.list = IF j = Len(s) THEN Null ELSE s[j + 1]
  /\ \A i \in 1..j : r.links[s[i]] = IF i = 1 THEN Null ELSE s[i - 1]
  /\ \A n \in Nodes : (\A i \in 1..j : n # s[i]) => r.links[n] = next[n]

(* A round links the next item backwards.                                  *)
LEMMA RoundReverses ==
  ASSUME NEW next, NEW head, NEW tail, NEW s \in Seq(Nodes), Chain(next, head, tail, s),
         NoDuplicates(s), NEW j \in 0..Len(s), NEW r, Reversed(r, s, next, j)
  PROVE  IF j = Len(s) THEN Round(r) = r
         ELSE j + 1 \in 0..Len(s) /\ Reversed(Round(r), s, next, j + 1)
<1>1. Len(s) \in Nat /\ j \in Nat
  OBVIOUS
<1>2. CASE j = Len(s)
  BY <1>2 DEF Reversed, Round
<1>3. CASE j # Len(s)
  <2> DEFINE p == Round(r)
             n == s[j + 1]
  <2>1. j + 1 \in 1..Len(s) /\ n \in Nodes /\ n # Null
    BY <1>1, <1>3, NullIsNoNode
  <2>2. r.list = n /\ r \in Reversal /\ r.links \in [Nodes -> Nodes \union {Null}]
    BY <1>3 DEF Reversed, Reversal
  <2>3. /\ p.links = [r.links EXCEPT ![n] = r.new_head] /\ p.new_head = n
        /\ p.list = r.links[n]
    BY <2>1, <2>2 DEF Round
  <2>4. p \in Reversal
    BY <2>2, RoundTyped
  <2> HIDE DEF p
  <2>5. \A i \in 1..j : i \in 1..Len(s) /\ s[i] \in Nodes /\ s[i] # n
    <3> SUFFICES ASSUME NEW i \in 1..j
                 PROVE  i \in 1..Len(s) /\ s[i] \in Nodes /\ s[i] # n
      OBVIOUS
    <3>1. i \in 1..Len(s) /\ i # j + 1
      BY <1>1, <2>1
    <3> QED
      BY <2>1, <3>1 DEF NoDuplicates
  <2> HIDE DEF n
  <2>6. p.list = IF j + 1 = Len(s) THEN Null ELSE s[(j + 1) + 1]
    <3>1. r.links[n] = next[n]
      BY <2>1, <2>5 DEF Reversed
    <3>2. next[n] = IF j + 1 = Len(s) THEN Null ELSE s[(j + 1) + 1]
      BY <2>1 DEF Chain, n
    <3> QED
      BY <2>3, <3>1, <3>2
  <2>7. ASSUME NEW i \in 1..(j + 1)
        PROVE  p.links[s[i]] = IF i = 1 THEN Null ELSE s[i - 1]
    <3>1. CASE i = j + 1
      <4>1. s[i] = n /\ p.links[n] = r.new_head
        BY <2>1, <2>2, <2>3, <3>1 DEF n
      <4>2. r.new_head = IF j = 0 THEN Null ELSE s[j]
        BY DEF Reversed
      <4>3. (i = 1 <=> j = 0) /\ i - 1 = j
        BY <1>1, <3>1
      <4> QED
        BY <4>1, <4>2, <4>3
    <3>2. CASE i # j + 1
      <4>1. i \in 1..j
        BY <1>1, <3>2
      <4>2. p.links[s[i]] = r.links[s[i]]
        BY <2>2, <2>3, <2>5, <4>1
      <4> QED
        BY <4>1, <4>2 DEF Reversed
    <3> QED
      BY <3>1, <3>2
  <2>8. ASSUME NEW k \in Nodes, \A i \in 1..(j + 1) : k # s[i]
        PROVE  p.links[k] = next[k]
    <3>1. k # n
      BY <1>1, <2>8 DEF n
    <3>2. \A i \in 1..j : k # s[i]
      BY <1>1, <2>8
    <3>3. r.links[k] = next[k]
      BY <3>2 DEF Reversed
    <3> QED
      BY <2>2, <2>3, <3>1, <3>3
  <2>9. p.new_head = IF j + 1 = 0 THEN Null ELSE s[j + 1]
    BY <1>1, <2>3 DEF n
  <2>10. j + 1 \in 0..Len(s)
    BY <1>1, <2>1
  <2>11. Reversed(p, s, next, j + 1)
    BY <2>4, <2>6, <2>7, <2>8, <2>9 DEF Reversed
  <2> QED
    BY <1>3, <2>10, <2>11 DEF p
<1> QED
  BY <1>2, <1>3

(* What make_reversed returns when it has gone through the list.           *)
LEMMA ReversedChain ==
  ASSUME NEW next, NEW head, NEW tail, NEW s \in Seq(Nodes), Chain(next, head, tail, s),
         NEW r, Reversed(r, s, next, Len(s))
  PROVE  Chain(r.links, r.new_head, head, Reverse(s))
<1> DEFINE t == Reverse(s)
<1>1. /\ Len(s) \in Nat /\ t \in Seq(Nodes) /\ Len(t) = Len(s)
      /\ \A i \in 1..Len(s) : (Len(s) - i) + 1 \in 1..Len(s) /\ t[i] = s[(Len(s) - i) + 1]
  BY ReverseElements
<1> HIDE DEF t
<1>2. CASE s = <<>>
  <2>1. Len(s) = 0 /\ t = <<>> /\ head = Null /\ r.new_head = Null
    BY <1>1, <1>2 DEF Chain, Reversed
  <2> QED
    BY <1>1, <2>1 DEF Chain, t
<1>3. CASE s # <<>>
  <2>1. Len(s) >= 1 /\ t # <<>> /\ Len(s) \in 1..Len(s) /\ 1 \in 1..Len(s)
    BY <1>1, <1>3
  <2>2. r.new_head = s[Len(s)] /\ head = s[1]
    BY <1>1, <1>3, <2>1 DEF Chain, Reversed
  <2>3. t[1] = s[Len(s)] /\ t[Len(t)] = s[1]
    <3>1. (Len(s) - 1) + 1 = Len(s) /\ (Len(s) - Len(s)) + 1 = 1
      BY <1>1
    <3>2. t[1] = s[(Len(s) - 1) + 1] /\ t[Len(s)] = s[(Len(s) - Len(s)) + 1]
      BY <1>1, <2>1
    <3> QED
      BY <1>1, <3>1, <3>2
  <2>4. ASSUME NEW i \in 1..Len(t)
        PROVE  r.links[t[i]] = IF i = Len(t) THEN Null ELSE t[i + 1]
    <3> DEFINE k == (Len(s) - i) + 1
    <3>1. /\ k \in 1..Len(s) /\ t[i] = s[k] /\ (k = 1 <=> i = Len(t))
          /\ i \in 1..Len(s)
      <4>1. Len(s) \in Nat /\ Len(t) = Len(s) /\ i \in 1..Len(s)
        BY <1>1
      <4>2. t[i] = s[k]
        BY <1>1, <4>1
      <4>3. k \in 1..Len(s) /\ (k = 1 <=> i = Len(s))
        BY <4>1
      <4> QED
        BY <4>1, <4>2, <4>3
    <3>2. i # Len(t) => t[i + 1] = s[k - 1]
      <4> SUFFICES ASSUME i # Len(t) PROVE t[i + 1] = s[k - 1]
        OBVIOUS
      <4>1. i + 1 \in 1..Len(s) /\ (Len(s) - (i + 1)) + 1 = k - 1
        BY <1>1, <3>1
      <4> HIDE DEF k
      <4>2. t[i + 1] = s[(Len(s) - (i + 1)) + 1]
        BY <1>1, <4>1
      <4> QED
        BY <4>1, <4>2, Zenon
    <3> HIDE DEF k
    <3>3. r.links[s[k]] = IF k = 1 THEN Null ELSE s[k - 1]
      BY <3>1 DEF Reversed
    <3> QED
      BY <3>1, <3>2, <3>3
  <2> QED
    BY <2>1, <2>2, <2>3, <2>4 DEF Chain, t
<1> QED
  BY <1>2, <1>3

(* make_reversed.                                                          *)
LEMMA QueueMakeReversedInv ==
  ASSUME QueueInv, NEW q \in Queues, MakeReversed(q)
  PROVE  QueueInv'
<1> DEFINE s == qitems[q]
           h == queue[q].head
           r == ReversedAfter(h)
<1>1. /\ qnext' = r.links /\ qitems' = [qitems EXCEPT ![q] = Reverse(s)]
      /\ queue' = [queue EXCEPT ![q] = [head |-> r.new_head, tail |-> h]]
  BY QueueParts DEF MakeReversed
<1>2. /\ s \in Seq(Nodes) /\ NoDuplicates(s) /\ Chain(qnext, h, queue[q].tail, s)
      /\ Elements(s) \cap Elements(qitems[Other(q)]) = {}
      /\ Elements(qitems[Other(q)]) \subseteq Nodes
      /\ qnext \in [Nodes -> Nodes \union {Null}]
  BY QueueParts, ElementsTyped
<1>3. h \in Nodes \union {Null} /\ h = IF s = <<>> THEN Null ELSE s[1]
  BY <1>2, ChainEnds DEF Chain
<1>4. PICK m \in Nat :
        /\ m = Len(qitems[1]) + Len(qitems[2])
        /\ \E f \in [0..m -> Reversal] :
             /\ r = f[m]
             /\ f[0] = [links |-> qnext, new_head |-> Null, list |-> h]
             /\ \A k \in 1..m : f[k] = Round(f[k - 1])
  BY <1>3, ReversedByRounds
<1>5. Len(s) \in Nat /\ Len(s) <= m
  <2>1. Len(qitems[1]) \in Nat /\ Len(qitems[2]) \in Nat /\ (q = 1 \/ q = 2)
    BY DEF QueueInv, Queues
  <2>2. \A a, b \in Nat : a <= a + b /\ b <= a + b
    OBVIOUS
  <2>3. Len(qitems[1]) <= m /\ Len(qitems[2]) <= m
    BY <1>4, <2>1, <2>2
  <2> QED
    BY <2>1, <2>3
<1>6. PICK f \in [0..m -> Reversal] :
        /\ r = f[m]
        /\ f[0] = [links |-> qnext, new_head |-> Null, list |-> h]
        /\ \A k \in 1..m : f[k] = Round(f[k - 1])
  BY <1>4
<1> HIDE DEF s, h, r
<1>7. Reversed(f[0], s, qnext, 0)
  <2>1. f[0] \in Reversal /\ 0 \in 0..m
    BY <1>5
  <2>2. h = IF 0 = Len(s) THEN Null ELSE s[0 + 1]
    BY <1>2, <1>3
  <2> QED
    BY <1>6, <2>1, <2>2 DEF Reversed
<1> DEFINE S == {k \in Nat : k <= m => \E j \in 0..Len(s) :
                                        /\ Reversed(f[k], s, qnext, j)
                                        /\ j = Len(s) \/ j = k}
<1>8. 0 \in S
  BY <1>5, <1>7
<1>9. ASSUME NEW k \in Nat, k \in S
      PROVE  k + 1 \in S
  <2> SUFFICES ASSUME k + 1 <= m
               PROVE  \E j \in 0..Len(s) : /\ Reversed(f[k + 1], s, qnext, j)
                                           /\ j = Len(s) \/ j = k + 1
    OBVIOUS
  <2>1. k <= m /\ k + 1 \in 1..m /\ (k + 1) - 1 = k
    OBVIOUS
  <2>2. PICK j \in 0..Len(s) : /\ Reversed(f[k], s, qnext, j)
                               /\ j = Len(s) \/ j = k
    BY <1>9, <2>1
  <2>3. f[k + 1] = Round(f[k])
    BY <1>6, <2>1
  <2> HIDE DEF S
  <2>4. IF j = Len(s) THEN Round(f[k]) = f[k]
        ELSE j + 1 \in 0..Len(s) /\ Reversed(Round(f[k]), s, qnext, j + 1)
    BY <1>2, <2>2, RoundReverses
  <2>5. CASE j = Len(s)
    BY <2>2, <2>3, <2>4, <2>5
  <2>6. CASE j # Len(s)
    BY <2>2, <2>3, <2>4, <2>6
  <2> QED
    BY <2>5, <2>6
<1>10. Nat \subseteq S
  <2> HIDE DEF S
  <2> QED
    BY <1>8, <1>9, NatSetInduction
<1>11. Reversed(r, s, qnext, Len(s))
  <2>1. PICK j \in 0..Len(s) : Reversed(f[m], s, qnext, j) /\ (j = Len(s) \/ j = m)
    BY <1>10
  <2>2. j = Len(s)
    BY <1>5, <2>1
  <2> QED
    BY <1>6, <2>1, <2>2
<1> HIDE DEF S
<1>12. Chain(qnext', r.new_head, h, Reverse(s))
  BY <1>1, <1>2, <1>11, ReversedChain
<1>13. /\ Reverse(s) \in Seq(Nodes) /\ NoDuplicates(Reverse(s))
       /\ Elements(Reverse(s)) = Elements(s)
  BY <1>2, ReverseElements
<1>14. qnext' \in [Nodes -> Nodes \union {Null}]
  BY <1>1, <1>11 DEF Reversed, Reversal
<1>15. \A n \in Elements(qitems[Other(q)]) : qnext'[n] = qnext[n]
  <2>1. \A n \in Elements(qitems[Other(q)]) : n \in Nodes /\ \A i \in 1..Len(s) : n # s[i]
    BY <1>2 DEF Elements
  <2> QED
    BY <1>1, <1>11, <2>1 DEF Reversed
<1> QED
  BY <1>1, <1>2, <1>12, <1>13, <1>14, <1>15, OneQueueChanges

(* Every call on a queue keeps both queues.                                *)
LEMMA QueueNextInv == QueueInv /\ [QueueNext]_queueVars => QueueInv'
<1> SUFFICES ASSUME QueueInv, [QueueNext]_queueVars
             PROVE  QueueInv'
  OBVIOUS
<1>1. ASSUME NEW q \in Queues, NEW n \in Nodes, QueuePushFront(q, n) PROVE QueueInv'
  BY <1>1, QueuePushFrontInv
<1>2. ASSUME NEW q \in Queues, NEW n \in Nodes, QueuePushBack(q, n) PROVE QueueInv'
  BY <1>2, QueuePushBackInv
<1>3. ASSUME NEW q \in Queues, QueuePopFront(q) PROVE QueueInv'
  BY <1>3, QueuePopFrontInv
<1>4. ASSUME NEW q \in Queues, QueueAppend(q) PROVE QueueInv'
  BY <1>4, QueueAppendInv
<1>5. ASSUME NEW q \in Queues, QueuePrepend(q) PROVE QueueInv'
  BY <1>5, QueuePrependInv
<1>6. ASSUME NEW q \in Queues, MakeReversed(q) PROVE QueueInv'
  BY <1>6, QueueMakeReversedInv
<1>7. CASE UNCHANGED queueVars
  BY <1>7 DEF queueVars, QueueInv, ChainOf
<1> QED
  BY <1>1, <1>2, <1>3, <1>4, <1>5, <1>6, <1>7 DEF QueueNext

(* A chain is what QueuesHoldTheirItems asks of a queue.                   *)
LEMMA ChainsHold == QueueInv => QueuesHoldTheirItems
BY DEF QueueInv, ChainOf, Chain, QueuesHoldTheirItems

(* intrusive_queue: whatever was pushed, popped, spliced and reversed      *)
(* before, each queue holds exactly its items in order and tail_ is the    *)
(* last of them, for every set of nodes.                                   *)
THEOREM QueueHoldsItsItems == QueueSpec => []QueuesHoldTheirItems
<1>1. QueueInv => QueuesHoldTheirItems
  BY ChainsHold
<1> QED
  BY <1>1, QueueInitInv, QueueNextInv, PTL DEF QueueSpec

-----------------------------------------------------------------------------
(* What a behaviour that is about a container keeps.                       *)
ContainersInv ==
  /\ part = "list" => ListInv
  /\ part = "queue" => QueueInv

(* A step of another part changes no container.                            *)
LEMMA ContainersNextInv ==
  ContainersInv /\ [MCNext]_<<vars, others>> => ContainersInv'
<1> SUFFICES ASSUME ContainersInv, [MCNext]_<<vars, others>> PROVE ContainersInv'
  OBVIOUS
<1>1. CASE ListOnly(ListNext)
  <2>1. part = "list" /\ part' = "list" /\ ListNext
    BY <1>1 DEF ListOnly
  <2> QED
    BY <2>1, ListNextInv DEF ContainersInv
<1>2. CASE QueueOnly(QueueNext)
  <2>1. part = "queue" /\ part' = "queue" /\ QueueNext
    BY <1>2 DEF QueueOnly
  <2> QED
    BY <2>1, QueueNextInv DEF ContainersInv
<1>3. CASE ForkOnly(Next) \/ ChannelOnly(ChannelNext) \/ SpanOnly(SpanNext)
           \/ TransferOnly(TransferNext) \/ ResourceOnly(ResourceNext)
           \/ DeferredOnly(DeferredNext)
           \/ UNCHANGED <<vars, others>>
  <2>1. part' = part
    BY <1>3 DEF ForkOnly, ChannelOnly, SpanOnly, TransferOnly,
              ResourceOnly, DeferredOnly, others
  <2>2. part = "list" => UNCHANGED listsVars
    BY <1>3 DEF ForkOnly, ChannelOnly, SpanOnly, TransferOnly,
              ResourceOnly, DeferredOnly, others
  <2>3. part = "queue" => UNCHANGED queueVars
    BY <1>3 DEF ForkOnly, ChannelOnly, SpanOnly, TransferOnly,
              ResourceOnly, DeferredOnly, others
  <2> QED
    BY <2>1, <2>2, <2>3, ListNextInv, QueueNextInv DEF ContainersInv
<1> QED
  BY <1>1, <1>2, <1>3 DEF MCNext

(* The lists and the queues hold what was put into them and not taken out, *)
(* the lists until a call needs a Prev that a joint left wrong: in the     *)
(* specification of all building blocks, for every set of nodes.           *)
THEOREM ContainersHold == MCSpec => []ContainersHoldTheirItems
<1>1. MCSpec => MCInit /\ [][MCNext]_<<vars, others>>
  BY PTL DEF MCSpec
<1>2. MCInit => ContainersInv
  BY ListInitInv, QueueInitInv DEF MCInit, ContainersInv
<1>3. ContainersInv => ContainersHoldTheirItems
  BY ChainsHold
  DEF ContainersInv, ListInv, ListsApart, ListsHoldTheirItems, ContainersHoldTheirItems
<1> QED
  BY <1>1, <1>2, <1>3, ContainersNextInv, PTL

(***************************************************************************)
(* AsyncChannel.                                                           *)
(***************************************************************************)

ChannelSpec == ChannelInit /\ [][ChannelNext]_<<listVars, channelVars>>

ChannelTypeOK ==
  /\ n_ops \in [Observers -> {0, 1, 2, 3}]
  /\ sub \in [Observers -> {"idle", "cas", "refused", "locking", "pushed"}]
  /\ stopCallback \in [Observers -> {"none", "registered", "running", "ran", "reset"}]
  /\ stopped \subseteq Observers
  /\ stopOp \in [Observers -> {"none", "locking", "done"}]
  /\ owed \in [Observers -> Nat]
  /\ completed \in [Observers -> Nat]
  /\ notifier \in {"idle", "looping", "spawned", "draining"}
  /\ spawned \in [Observers -> {"none", "running"}]
  /\ closer \in {"open", "closing", "closed"}
  /\ strayErase \in BOOLEAN
  /\ strayNext \in BOOLEAN

(* The completions of a subscription, due or done.                         *)
Completions(o) == completed[o] + owed[o]

(* The exchanges of n_ops_ let one completion through: none is due before  *)
(* one of them has taken n_ops_ to 2 or 3, nor while the stop operation,   *)
(* which is to complete, waits for the mutex.                              *)
OneCompletion(o) ==
  /\ n_ops[o] \in {0, 1} => Completions(o) = 0 /\ stopOp[o] = "none"
  /\ stopOp[o] = "locking" => Completions(o) = 0 /\ n_ops[o] # 1
  /\ Completions(o) <= 1
  /\ sub[o] = "idle" => /\ Completions(o) = 0 /\ n_ops[o] # 1
                        /\ stopCallback[o] = "none" /\ stopOp[o] = "none"

(* The stop operation is started by the callback, and the callback by a    *)
(* stop request.                                                           *)
StopOrder(o) ==
  /\ stopCallback[o] \in {"none", "registered", "running"} => stopOp[o] = "none"
  /\ stopCallback[o] = "running" \/ stopOp[o] = "locking" => o \in stopped

(* Items are spawned in a call of notify_all only, and none is under way   *)
(* when the channel is closed.                                             *)
PhaseInv ==
  /\ notifier = "idle" => ScopeEmpty
  /\ closer # "open" => notifier = "idle"

SubscriptionsInv == \A o \in Observers : OneCompletion(o) /\ StopOrder(o)

(* The links of observers_ are those of a sequence of different observers. *)
ObserverListInv ==
  /\ list \in IntrusiveLists(Observers)
  /\ contents \in Seq(Observers)
  /\ NoDuplicates(contents)
  /\ Denotes(list, contents)

-----------------------------------------------------------------------------
(* The first state.                                                        *)
LEMMA ChannelInitTypes ==
  ChannelInit => ChannelTypeOK /\ SubscriptionsInv /\ PhaseInv
<1> SUFFICES ASSUME ChannelInit PROVE ChannelTypeOK /\ SubscriptionsInv /\ PhaseInv
  OBVIOUS
<1>1. ChannelTypeOK
  BY DEF ChannelInit, ChannelTypeOK
<1>2. SubscriptionsInv
  BY DEF ChannelInit, SubscriptionsInv, OneCompletion, StopOrder, Completions
<1>3. PhaseInv
  BY DEF ChannelInit, PhaseInv, ScopeEmpty
<1> QED
  BY <1>1, <1>2, <1>3

(* The types of the variables.                                             *)
LEMMA ChannelTypes ==
  ChannelTypeOK /\ [ChannelNext]_<<listVars, channelVars>> => ChannelTypeOK'
<1> SUFFICES ASSUME ChannelTypeOK, [ChannelNext]_<<listVars, channelVars>>
             PROVE  ChannelTypeOK'
  OBVIOUS
<1> USE DEF ChannelTypeOK
<1>0. \A c : One(c) \in Nat
  BY DEF One
<1>1. ASSUME NEW o \in Observers, Register(o)
      PROVE  ChannelTypeOK'
  <2>1. stopCallback' \in [Observers -> {"none", "registered", "running", "ran", "reset"}]
    BY <1>1 DEF Register
  <2>2. n_ops' \in [Observers -> {0, 1, 2, 3}]
    BY <1>1 DEF Register
  <2> QED
    BY <1>0, <1>1, <2>1, <2>2 DEF Register
<1>2. ASSUME NEW o \in Observers, RequestStop(o)
      PROVE  ChannelTypeOK'
  <2>1. stopCallback' \in [Observers -> {"none", "registered", "running", "ran", "reset"}]
    BY <1>2 DEF RequestStop
  <2> QED
    BY <1>2, <2>1 DEF RequestStop
<1>3. ASSUME NEW o \in Observers, CompareExchange(o) \/ Subscribe(o)
      PROVE  ChannelTypeOK'
  <2>1. n_ops' = n_ops \/ n_ops' = [n_ops EXCEPT ![o] = 1]
    BY <1>3 DEF CompareExchange, Subscribe
  <2>2. sub' \in [Observers -> {"idle", "cas", "refused", "locking", "pushed"}]
    BY <1>3 DEF CompareExchange, Subscribe
  <2> QED
    BY <1>3, <2>1, <2>2 DEF CompareExchange, Subscribe
<1>8. ASSUME NEW o \in Observers, OnStopRequested(o)
      PROVE  ChannelTypeOK'
  <2>1. stopOp' \in [Observers -> {"none", "locking", "done"}]
    BY <1>8 DEF OnStopRequested
  <2>2. owed' \in [Observers -> Nat]
    BY <1>0, <1>8 DEF OnStopRequested
  <2> QED
    BY <1>8, <2>1, <2>2 DEF OnStopRequested
<1>9. ASSUME NEW o \in Observers, Unsubscribe(o)
      PROVE  ChannelTypeOK'
  <2>1. owed' \in [Observers -> Nat]
    BY <1>0, <1>9 DEF Unsubscribe
  <2> QED
    BY <1>9, <2>1 DEF Unsubscribe, EraseObserver
<1>10. ASSUME NEW o \in Observers, Finish(o)
       PROVE  ChannelTypeOK'
  <2>1. owed' \in [Observers -> Nat]
    BY <1>10 DEF Finish
  <2> QED
    BY <1>10, <2>1 DEF Finish
<1>4. ASSUME NEW o \in Observers, NextEnds(o) \/ NextStopped(o)
      PROVE  ChannelTypeOK'
  <2>1. CASE NextEnds(o)
    BY <2>1 DEF NextEnds
  <2>2. CASE NextStopped(o)
    <3>1. owed' \in [Observers -> Nat]
      BY <1>0, <2>2 DEF NextStopped, WrapSetValue
    <3> QED
      BY <2>2, <3>1 DEF NextStopped, WrapSetValue, EraseObserver
  <2> QED
    BY <1>4, <2>1, <2>2
<1>5. CASE BeginNotify \/ SpawnNext \/ Advance \/ EndLoop \/ EndNotify
  BY <1>5 DEF BeginNotify, SpawnNext, Advance, EndLoop, EndNotify
<1>6. CASE BeginClose \/ CloseNext \/ EndClose
  BY <1>6 DEF BeginClose, CloseNext, EndClose, WrapSetValue, One
<1>7. CASE UNCHANGED <<listVars, channelVars>>
  BY <1>7 DEF channelVars
<1> QED
  BY <1>1, <1>2, <1>3, <1>4, <1>5, <1>6, <1>7, <1>8, <1>9, <1>10
  DEF ChannelNext, ObserverStep, ChannelStep

(* wrap_receiver::set_value, whose observer may be any node.               *)
LEMMA WrapKeepsSubscriptions ==
  ASSUME ChannelTypeOK, SubscriptionsInv, NEW n, WrapSetValue(n),
         UNCHANGED <<sub, stopCallback, stopped, stopOp, completed>>
  PROVE  SubscriptionsInv'
<1> SUFFICES ASSUME NEW p \in Observers
             PROVE  OneCompletion(p)' /\ StopOrder(p)'
  BY DEF SubscriptionsInv
<1>1. OneCompletion(p) /\ StopOrder(p)
  BY DEF SubscriptionsInv
<1>2. /\ completed[p] \in Nat /\ owed[p] \in Nat /\ owed'[p] = owed[p] + (IF p = n THEN One(n_ops[n] = 1) ELSE 0)
      /\ n_ops'[p] = IF p = n THEN 3 ELSE n_ops[p]
  BY DEF ChannelTypeOK, WrapSetValue, One
<1> QED
  BY <1>1, <1>2 DEF OneCompletion, StopOrder, Completions, One

(* Every step lets at most one completion through.                         *)
LEMMA SubscriptionsNext ==
  ChannelTypeOK /\ SubscriptionsInv /\ [ChannelNext]_<<listVars, channelVars>>
    => SubscriptionsInv'
<1> SUFFICES ASSUME ChannelTypeOK, SubscriptionsInv,
                    [ChannelNext]_<<listVars, channelVars>>
             PROVE  SubscriptionsInv'
  OBVIOUS
<1> DEFINE Same(p) == /\ n_ops'[p] = n_ops[p] /\ sub'[p] = sub[p]
                      /\ stopCallback'[p] = stopCallback[p] /\ stopOp'[p] = stopOp[p]
                      /\ owed'[p] = owed[p] /\ completed'[p] = completed[p]
                      /\ p \in stopped => p \in stopped'
<1>1. \A p \in Observers : OneCompletion(p) /\ StopOrder(p)
  BY DEF SubscriptionsInv
<1>2. \A p \in Observers : Same(p) => OneCompletion(p)' /\ StopOrder(p)'
  BY <1>1 DEF OneCompletion, StopOrder, Completions
<1>3. \A p \in Observers : completed[p] \in Nat /\ owed[p] \in Nat
  BY DEF ChannelTypeOK
<1>4. ASSUME NEW o \in Observers, \A p \in Observers \ {o} : Same(p),
             OneCompletion(o)' /\ StopOrder(o)'
      PROVE  SubscriptionsInv'
  BY <1>2, <1>4 DEF SubscriptionsInv
<1>5. ASSUME NEW o \in Observers, Register(o)
      PROVE  SubscriptionsInv'
  <2>1. \A p \in Observers \ {o} : Same(p)
    BY <1>5 DEF Register, ChannelTypeOK
  <2>2. OneCompletion(o)' /\ StopOrder(o)'
    BY <1>1, <1>3, <1>5
    DEF Register, ChannelTypeOK, One, OneCompletion, StopOrder, Completions
  <2> QED
    BY <1>4, <2>1, <2>2
<1>6. ASSUME NEW o \in Observers, RequestStop(o)
      PROVE  SubscriptionsInv'
  <2>1. \A p \in Observers \ {o} : Same(p)
    BY <1>6 DEF RequestStop, ChannelTypeOK
  <2>2. OneCompletion(o)' /\ StopOrder(o)'
    BY <1>1, <1>3, <1>6 DEF RequestStop, ChannelTypeOK, OneCompletion, StopOrder, Completions
  <2> QED
    BY <1>4, <2>1, <2>2
<1>7. ASSUME NEW o \in Observers, CompareExchange(o) \/ Subscribe(o)
      PROVE  SubscriptionsInv'
  <2>1. \A p \in Observers \ {o} : Same(p)
    BY <1>7 DEF CompareExchange, Subscribe, ChannelTypeOK
  <2>2. OneCompletion(o)' /\ StopOrder(o)'
    BY <1>1, <1>3, <1>7
    DEF CompareExchange, Subscribe, ChannelTypeOK, OneCompletion, StopOrder, Completions
  <2> QED
    BY <1>4, <2>1, <2>2
<1>8. ASSUME NEW o \in Observers, OnStopRequested(o)
      PROVE  SubscriptionsInv'
  <2>1. \A p \in Observers \ {o} : Same(p)
    BY <1>8 DEF OnStopRequested, ChannelTypeOK
  <2>2. OneCompletion(o)' /\ StopOrder(o)'
    BY <1>1, <1>3, <1>8
    DEF OnStopRequested, ChannelTypeOK, One, OneCompletion, StopOrder, Completions
  <2> QED
    BY <1>4, <2>1, <2>2
<1>9. ASSUME NEW o \in Observers, Unsubscribe(o)
      PROVE  SubscriptionsInv'
  <2>1. \A p \in Observers \ {o} : Same(p)
    BY <1>9 DEF Unsubscribe, ChannelTypeOK
  <2>2. OneCompletion(o)' /\ StopOrder(o)'
    BY <1>1, <1>3, <1>9
    DEF Unsubscribe, ChannelTypeOK, One, OneCompletion, StopOrder, Completions
  <2> QED
    BY <1>4, <2>1, <2>2
<1>10. ASSUME NEW o \in Observers, Finish(o)
      PROVE  SubscriptionsInv'
  <2>1. \A p \in Observers \ {o} : Same(p)
    BY <1>10 DEF Finish, ChannelTypeOK
  <2>2. OneCompletion(o)' /\ StopOrder(o)'
    BY <1>1, <1>3, <1>10 DEF Finish, ChannelTypeOK, OneCompletion, StopOrder, Completions
  <2> QED
    BY <1>4, <2>1, <2>2
<1>11. ASSUME NEW o \in Observers, NextStopped(o)
      PROVE  SubscriptionsInv'
  BY <1>11, WrapKeepsSubscriptions DEF NextStopped
<1>12. CASE CloseNext
  BY <1>12, WrapKeepsSubscriptions DEF CloseNext
<1>13. ASSUME NEW o \in Observers, NextEnds(o)
       PROVE  SubscriptionsInv'
  BY <1>2, <1>13 DEF NextEnds, SubscriptionsInv
<1>14. CASE BeginNotify \/ SpawnNext \/ Advance \/ EndLoop \/ EndNotify
            \/ BeginClose \/ EndClose \/ UNCHANGED <<listVars, channelVars>>
  BY <1>2, <1>14
  DEF BeginNotify, SpawnNext, Advance, EndLoop, EndNotify, BeginClose, EndClose,
      channelVars, SubscriptionsInv
<1> QED
  BY <1>5, <1>6, <1>7, <1>8, <1>9, <1>10, <1>11, <1>12, <1>13, <1>14
  DEF ChannelNext, ObserverStep, ChannelStep

(* The phases of notify_all and close.                                     *)
LEMMA PhaseNext ==
  ChannelTypeOK /\ PhaseInv /\ [ChannelNext]_<<listVars, channelVars>> => PhaseInv'
<1> SUFFICES ASSUME ChannelTypeOK, PhaseInv, [ChannelNext]_<<listVars, channelVars>>
             PROVE  PhaseInv'
  OBVIOUS
<1> USE DEF PhaseInv, ScopeEmpty
<1>1. ASSUME NEW o \in Observers, NextEnds(o) \/ NextStopped(o)
      PROVE  PhaseInv'
  BY <1>1 DEF NextEnds, NextStopped, ChannelTypeOK
<1>2. ASSUME NEW o \in Observers,
             Register(o) \/ RequestStop(o) \/ CompareExchange(o) \/ Subscribe(o)
               \/ OnStopRequested(o) \/ Unsubscribe(o) \/ Finish(o)
      PROVE  PhaseInv'
  BY <1>2 DEF Register, RequestStop, CompareExchange, Subscribe, OnStopRequested,
              Unsubscribe, Finish
<1>3. CASE BeginNotify \/ SpawnNext \/ Advance \/ EndLoop \/ EndNotify
  BY <1>3 DEF BeginNotify, SpawnNext, Advance, EndLoop, EndNotify
<1>4. CASE BeginClose \/ CloseNext \/ EndClose \/ UNCHANGED <<listVars, channelVars>>
  BY <1>4 DEF BeginClose, CloseNext, EndClose, channelVars
<1> QED
  BY <1>1, <1>2, <1>3, <1>4 DEF ChannelNext, ObserverStep, ChannelStep

-----------------------------------------------------------------------------
(* Where a subscription is that was pushed or is about to be: it is in the *)
(* list until its end is decided, and a stop that was decided first is     *)
(* carried out by the stop operation.                                      *)
InTheList(o) ==
  /\ spawned[o] = "running" => o \in Elements(contents) \/ o \in stopped
  /\ sub[o] = "locking" => n_ops[o] \in {1, 2} /\ Completions(o) = 0
  /\ n_ops[o] = 2 /\ Completions(o) = 0 /\ sub[o] \in {"locking", "pushed"}
       => stopOp[o] = "locking"
  /\ n_ops[o] = 3 /\ sub[o] = "pushed" => Completions(o) = 1 \/ stopOp[o] = "locking"
  /\ sub[o] = "pushed" =>
       (o \in Elements(contents) <=> n_ops[o] \in {1, 2} /\ Completions(o) = 0)

(* The pointers are those of a sequence of observers that were pushed.     *)
ObserversInv ==
  /\ ObserverListInv
  /\ Elements(contents) \subseteq {o \in Observers : sub[o] = "pushed"}
  /\ \A o \in Observers : InTheList(o)

(* The node at which notify_all is to go on.                               *)
NextNode == IF notifier = "looping" THEN cursor ELSE list.next[cursor]

(* notify_all has still to visit the items of the list after the j-th.     *)
ToVisit(j) ==
  /\ \A i \in (j + 1)..Len(contents) : /\ spawned[contents[i]] = "none"
                                       /\ notifier = "spawned" => cursor # contents[i]
  /\ NextNode = IF j = Len(contents) THEN Null ELSE contents[j + 1]

WalkInv ==
  notifier \in {"looping", "spawned"} =>
    /\ \E j \in 0..Len(contents) : ToVisit(j)
    /\ notifier = "spawned" => cursor \in Observers

(* All of it.  An observer is erased that was not linked only where a stop *)
(* request is involved, and until that happens the list is sound.          *)
ChannelInv ==
  /\ ChannelTypeOK
  /\ SubscriptionsInv
  /\ PhaseInv
  /\ strayErase => stopped # {}
  /\ ~strayErase => ObserversInv /\ WalkInv
  /\ strayNext => strayErase

-----------------------------------------------------------------------------
(* A step that leaves the list as it is.                                   *)
LEMMA ListKept ==
  ASSUME ObserversInv, UNCHANGED listVars,
         \A o \in Observers : sub[o] = "pushed" => sub'[o] = "pushed",
         \A o \in Observers : InTheList(o)'
  PROVE  ObserversInv'
<1>1. ObserverListInv'
  BY DEF ObserversInv, ObserverListInv, listVars
<1>2. contents' = contents
  BY DEF listVars
<1> QED
  BY <1>1, <1>2 DEF ObserversInv

(* The steps of one subscription that leave the list as it is.             *)
LEMMA OwnStepKeepsObservers ==
  ASSUME ChannelTypeOK, SubscriptionsInv, ObserversInv, NEW o \in Observers,
         Register(o) \/ CompareExchange(o) \/ RequestStop(o) \/ OnStopRequested(o)
           \/ Finish(o) \/ NextEnds(o)
  PROVE  ObserversInv'
<1> DEFINE Same(p) == /\ n_ops'[p] = n_ops[p] /\ sub'[p] = sub[p]
                      /\ spawned'[p] = spawned[p] /\ stopOp'[p] = stopOp[p]
                      /\ owed'[p] = owed[p] /\ completed'[p] = completed[p]
                      /\ p \in stopped => p \in stopped'
<1>1. UNCHANGED listVars
  BY DEF Register, CompareExchange, RequestStop, OnStopRequested, Finish, NextEnds
<1>2. contents' = contents
  BY <1>1 DEF listVars
<1>3. /\ OneCompletion(o) /\ StopOrder(o) /\ \A p \in Observers : InTheList(p)
      /\ completed[o] \in Nat /\ owed[o] \in Nat
      /\ sub[o] # "pushed" => o \notin Elements(contents)
  BY DEF SubscriptionsInv, ObserversInv, ChannelTypeOK
<1>4. \A p \in Observers : Same(p) => InTheList(p)'
  BY <1>2, <1>3 DEF InTheList, Completions
<1>5. ASSUME \A p \in Observers \ {o} : Same(p),
             sub[o] = "pushed" => sub'[o] = "pushed", InTheList(o)'
      PROVE  ObserversInv'
  BY <1>1, <1>4, <1>5, ListKept
<1>6. CASE Register(o)
  <2>1. \A p \in Observers \ {o} : Same(p)
    BY <1>6 DEF Register, ChannelTypeOK
  <2>2. InTheList(o)'
    BY <1>2, <1>3, <1>6 DEF Register, ChannelTypeOK, InTheList, Completions
  <2>3. sub[o] # "pushed"
    BY <1>6 DEF Register
  <2> QED
    BY <1>5, <2>1, <2>2, <2>3
<1>7. CASE CompareExchange(o)
  <2>1. \A p \in Observers \ {o} : Same(p)
    BY <1>7 DEF CompareExchange, ChannelTypeOK
  <2>2. InTheList(o)'
    BY <1>2, <1>3, <1>7
    DEF CompareExchange, ChannelTypeOK, InTheList, OneCompletion, Completions
  <2>3. sub[o] # "pushed"
    BY <1>7 DEF CompareExchange
  <2> QED
    BY <1>5, <2>1, <2>2, <2>3
<1>8. CASE RequestStop(o)
  <2>1. \A p \in Observers : Same(p)
    BY <1>8 DEF RequestStop
  <2>2. sub' = sub
    BY <1>8 DEF RequestStop
  <2> QED
    BY <1>4, <1>5, <2>1, <2>2
<1>9. CASE OnStopRequested(o)
  <2>1. \A p \in Observers \ {o} : Same(p)
    BY <1>9 DEF OnStopRequested, ChannelTypeOK
  <2>2. InTheList(o)'
    BY <1>2, <1>3, <1>9
    DEF OnStopRequested, ChannelTypeOK, InTheList, OneCompletion, StopOrder, Completions, One
  <2>3. sub' = sub
    BY <1>9 DEF OnStopRequested
  <2> QED
    BY <1>5, <2>1, <2>2, <2>3
<1>10. CASE Finish(o)
  <2>1. \A p \in Observers \ {o} : Same(p)
    BY <1>10 DEF Finish, ChannelTypeOK
  <2>2. Completions(o)' = Completions(o)
    BY <1>3, <1>10 DEF Finish, ChannelTypeOK, Completions
  <2>3. InTheList(o)'
    BY <1>2, <1>3, <1>10, <2>2 DEF Finish, InTheList
  <2>4. sub' = sub
    BY <1>10 DEF Finish
  <2> QED
    BY <1>5, <2>1, <2>3, <2>4
<1>11. CASE NextEnds(o)
  <2>1. \A p \in Observers \ {o} : Same(p)
    BY <1>11 DEF NextEnds, ChannelTypeOK
  <2>2. InTheList(o)'
    BY <1>2, <1>3, <1>11 DEF NextEnds, ChannelTypeOK, InTheList, Completions
  <2>3. sub' = sub
    BY <1>11 DEF NextEnds
  <2> QED
    BY <1>5, <2>1, <2>2, <2>3
<1> QED
  BY <1>6, <1>7, <1>8, <1>9, <1>10, <1>11

(* handle_base::subscribe puts an observer into the list that was not in   *)
(* it.                                                                     *)
LEMMA SubscribeKeepsObservers ==
  ASSUME ChannelTypeOK, ObserversInv, NEW o \in Observers, Subscribe(o)
  PROVE  ObserversInv'
<1>1. /\ sub[o] = "locking" /\ sub' = [sub EXCEPT ![o] = "pushed"]
      /\ list' = push_back(list, o) /\ contents' = Append(contents, o)
      /\ UNCHANGED <<n_ops, stopped, stopOp, owed, completed, spawned>>
  BY DEF Subscribe
<1>2. o \in Observers /\ ObserverListInv /\ \A p \in Observers : InTheList(p)
  BY ChannelAssumption DEF ObserversInv
<1>3. o \notin Elements(contents) /\ list \in IntrusiveLists(Observers) /\ contents \in Seq(Observers)
      /\ NoDuplicates(contents) /\ Denotes(list, contents)
  BY <1>1 DEF ObserversInv, ObserverListInv
<1>4. ObserverListInv'
  <2>1. push_back(list, o) \in IntrusiveLists(Observers)
        /\ Denotes(push_back(list, o), Append(contents, o))
    BY <1>2, <1>3, ChannelAssumption, PushBackDenotes
  <2>2. Append(contents, o) \in Seq(Observers) /\ NoDuplicates(Append(contents, o))
    BY <1>2, <1>3, PushBackElements
  <2> QED
    BY <1>1, <2>1, <2>2 DEF ObserverListInv
<1>5. Elements(contents') = Elements(contents) \union {o}
  BY <1>1, <1>2, <1>3, PushBackElements
<1>6. \A p \in Observers : sub'[p] = IF p = o THEN "pushed" ELSE sub[p]
  BY <1>1 DEF ChannelTypeOK
<1>7. Elements(contents') \subseteq {p \in Observers : sub'[p] = "pushed"}
  BY <1>5, <1>6 DEF ObserversInv
<1>8. ASSUME NEW p \in Observers
      PROVE  InTheList(p)'
  <2>1. InTheList(p)
    BY <1>2
  <2>2. CASE p = o
    BY <1>1, <1>5, <1>6, <2>1, <2>2 DEF InTheList, Completions
  <2>3. CASE p # o
    BY <1>1, <1>5, <1>6, <2>1, <2>3 DEF InTheList, Completions
  <2> QED
    BY <2>2, <2>3
<1> QED
  BY <1>4, <1>7, <1>8 DEF ObserversInv

(* An observer that leaves the list with its end decided.                  *)
LEMMA ObserverRemoved ==
  ASSUME ChannelTypeOK, ObserversInv, NEW n \in Elements(contents),
         ObserverListInv', Elements(contents') = Elements(contents) \ {n},
         UNCHANGED <<sub, stopped>>, n_ops' = [n_ops EXCEPT ![n] = 3],
         Completions(n)' = 1 \/ stopOp'[n] = "locking",
         spawned'[n] = "running" => n \in stopped,
         \A p \in Observers \ {n} :
           /\ spawned'[p] = spawned[p] /\ stopOp'[p] = stopOp[p]
           /\ Completions(p)' = Completions(p)
  PROVE  ObserversInv'
<1>1. n \in Observers /\ \A p \in Observers : InTheList(p)
  BY DEF ObserversInv
<1>2. ASSUME NEW p \in Observers
      PROVE  InTheList(p)'
  <2>1. n_ops'[p] = IF p = n THEN 3 ELSE n_ops[p]
    BY DEF ChannelTypeOK
  <2>2. CASE p = n
    <3>1. sub'[n] = "pushed"
      BY DEF ObserversInv
    <3> QED
      BY <2>1, <2>2, <3>1 DEF InTheList
  <2>3. CASE p # n
    BY <1>1, <2>1, <2>3 DEF InTheList
  <2> QED
    BY <2>2, <2>3
<1>3. Elements(contents') \subseteq {o \in Observers : sub'[o] = "pushed"}
  BY DEF ObserversInv
<1> QED
  BY <1>2, <1>3 DEF ObserversInv

(* wrap_receiver::set_value for an observer of the list: it completes the  *)
(* receiver, or the stop operation is about to.                            *)
LEMMA WrapDecides ==
  ASSUME ChannelTypeOK, ObserversInv, NEW n \in Elements(contents), WrapSetValue(n),
         UNCHANGED <<stopOp, completed>>
  PROVE  /\ n_ops' = [n_ops EXCEPT ![n] = 3]
         /\ Completions(n)' = 1 \/ stopOp'[n] = "locking"
         /\ \A p \in Observers \ {n} : Completions(p)' = Completions(p)
<1>1. n \in Observers /\ sub[n] = "pushed" /\ InTheList(n)
  BY DEF ObserversInv
<1>2. \A p \in Observers : /\ completed[p] \in Nat /\ owed[p] \in Nat
                           /\ owed'[p] = IF p = n THEN owed[n] + One(n_ops[n] = 1)
                                         ELSE owed[p]
  BY DEF ChannelTypeOK, WrapSetValue
<1>3. n_ops[n] \in {1, 2} /\ Completions(n) = 0
  BY <1>1 DEF InTheList
<1>4. CASE n_ops[n] = 1
  <2>1. Completions(n)' = 1
    BY <1>1, <1>2, <1>3, <1>4 DEF Completions, One
  <2> QED
    BY <1>2, <2>1 DEF Completions, WrapSetValue
<1>5. CASE n_ops[n] = 2
  <2>1. stopOp'[n] = "locking"
    BY <1>1, <1>3, <1>5 DEF InTheList
  <2> QED
    BY <1>2, <2>1 DEF Completions, WrapSetValue
<1> QED
  BY <1>3, <1>4, <1>5

(* erase on an observer of the list.                                       *)
LEMMA EraseRemoves ==
  ASSUME ObserverListInv, NEW o, EraseObserver(o), ~strayErase'
  PROVE  /\ o \in Elements(contents) /\ ObserverListInv'
         /\ Elements(contents') = Elements(contents) \ {o}
         /\ ~strayErase
<1>1. contents \in Seq(Observers) /\ NoDuplicates(contents) /\ list \in IntrusiveLists(Observers)
      /\ Denotes(list, contents)
  BY DEF ObserverListInv
<1>2. o \in ToSet(contents) /\ ~strayErase
  BY DEF EraseObserver
<1>3. PICK k \in 1..Len(contents) : contents[k] = o
  BY <1>2 DEF ToSet
<1>4. list' = erase(list, contents[k]) /\ contents' = RemoveFirst(contents, contents[k])
  BY <1>3 DEF EraseObserver
<1>5. ObserverListInv'
  <2>1. erase(list, contents[k]) \in IntrusiveLists(Observers)
        /\ Denotes(erase(list, contents[k]), Without(contents, k))
    BY <1>1, ChannelAssumption, EraseDenotes
  <2> QED
    BY <1>1, <1>4, <2>1, RemovedItems DEF ObserverListInv
<1>6. /\ contents' \in Seq(Observers)
      /\ ToSet(contents') = ToSet(contents) \ {contents[k]}
  BY <1>1, <1>4, RemovedItems
<1> QED
  BY <1>1, <1>2, <1>3, <1>5, <1>6, ToSetIsElements

(* handle_base::unsubscribe.                                               *)
LEMMA UnsubscribeKeepsObservers ==
  ASSUME ChannelTypeOK, SubscriptionsInv, ObserversInv, NEW o \in Observers,
         Unsubscribe(o), ~strayErase'
  PROVE  ObserversInv'
<1>1. /\ o \in Elements(contents) /\ ObserverListInv'
      /\ Elements(contents') = Elements(contents) \ {o}
  BY EraseRemoves DEF Unsubscribe, ObserversInv
<1>2. OneCompletion(o) /\ StopOrder(o)
  BY DEF SubscriptionsInv
<1>3. Completions(o)' = 1
  BY <1>2 DEF Unsubscribe, OneCompletion, Completions, One, ChannelTypeOK
<1>4. o \in stopped
  BY <1>2 DEF Unsubscribe, StopOrder
<1>5. \A p \in Observers \ {o} :
        /\ spawned'[p] = spawned[p] /\ stopOp'[p] = stopOp[p]
        /\ Completions(p)' = Completions(p)
  BY DEF Unsubscribe, Completions, ChannelTypeOK
<1>6. UNCHANGED <<sub, stopped>> /\ n_ops' = [n_ops EXCEPT ![o] = 3]
  BY DEF Unsubscribe
<1> QED
  BY <1>1, <1>3, <1>4, <1>5, <1>6, ObserverRemoved

(* An item that is stopped.                                                *)
LEMMA NextStoppedKeepsObservers ==
  ASSUME ChannelTypeOK, ObserversInv, NEW o \in Observers, NextStopped(o), ~strayErase'
  PROVE  ObserversInv'
<1>1. /\ o \in Elements(contents) /\ ObserverListInv'
      /\ Elements(contents') = Elements(contents) \ {o}
  BY EraseRemoves DEF NextStopped, ObserversInv
<1>2. /\ n_ops' = [n_ops EXCEPT ![o] = 3]
      /\ Completions(o)' = 1 \/ stopOp'[o] = "locking"
      /\ \A p \in Observers \ {o} : Completions(p)' = Completions(p)
  <2>1. WrapSetValue(o) /\ UNCHANGED <<stopOp, completed>>
    BY DEF NextStopped
  <2> QED
    BY <1>1, <2>1, WrapDecides
<1>3. /\ spawned'[o] = "none" /\ UNCHANGED <<sub, stopped, stopOp>>
      /\ \A p \in Observers \ {o} : spawned'[p] = spawned[p]
  BY DEF NextStopped, ChannelTypeOK
<1> QED
  BY <1>1, <1>2, <1>3, ObserverRemoved

(* close takes the front.                                                  *)
LEMMA CloseKeepsObservers ==
  ASSUME ChannelTypeOK, PhaseInv, ObserversInv, CloseNext
  PROVE  ObserversInv'
<1>1. /\ contents \in Seq(Observers) /\ NoDuplicates(contents) /\ list \in IntrusiveLists(Observers)
      /\ Denotes(list, contents)
  BY DEF ObserversInv, ObserverListInv
<1>0. PICK n : n = list.head
  OBVIOUS
<1>2. /\ n # Null /\ list' = pop_front(list) /\ contents' = RemoveFirst(contents, n)
      /\ WrapSetValue(n) /\ closer = "closing"
      /\ UNCHANGED <<sub, stopped, stopOp, completed, spawned>>
  BY <1>0 DEF CloseNext
<1>3. contents # <<>> /\ n = contents[1]
  BY <1>0, <1>1, <1>2 DEF Denotes, Linked
<1>4. 1 \in 1..Len(contents) /\ Len(contents) \in Nat
  BY <1>1, <1>3
<1>5. contents' = Tail(contents)
  <2>1. contents' \in Seq(Observers) /\ Len(contents') = Len(contents) - 1
        /\ \A i \in 1..(Len(contents) - 1) :
             contents'[i] = IF i < 1 THEN contents[i] ELSE contents[i + 1]
    <3>1. contents' = RemoveFirst(contents, contents[1])
      BY <1>2, <1>3
    <3> QED
      BY <1>1, <1>4, <3>1, RemovedItems
  <2>2. Tail(contents) \in Seq(Observers) /\ Len(Tail(contents)) = Len(contents) - 1
        /\ \A i \in 1..(Len(contents) - 1) : Tail(contents)[i] = contents[i + 1]
    BY <1>1, <1>3
  <2>3. \A i \in 1..(Len(contents) - 1) : contents'[i] = Tail(contents)[i]
    BY <1>4, <2>1, <2>2
  <2> QED
    BY <2>1, <2>2, <2>3
<1>6. ObserverListInv' /\ Elements(contents') = Elements(contents) \ {n} /\ n \in Elements(contents)
  <2>1. pop_front(list) \in IntrusiveLists(Observers) /\ Denotes(pop_front(list), Tail(contents))
    BY <1>1, <1>3, ChannelAssumption, PopFrontDenotes
  <2>2. /\ Tail(contents) \in Seq(Observers) /\ NoDuplicates(Tail(contents))
        /\ Elements(Tail(contents)) = Elements(contents) \ {Head(contents)}
        /\ Head(contents) \in Elements(contents)
    BY <1>1, <1>3, PopFrontElements
  <2>3. Head(contents) = n
    BY <1>1, <1>3
  <2> QED
    BY <1>2, <1>5, <2>1, <2>2, <2>3 DEF ObserverListInv
<1>7. /\ n_ops' = [n_ops EXCEPT ![n] = 3]
      /\ Completions(n)' = 1 \/ stopOp'[n] = "locking"
      /\ \A p \in Observers \ {n} : Completions(p)' = Completions(p)
  <2>1. WrapSetValue(n) /\ UNCHANGED <<stopOp, completed>>
    BY <1>2
  <2> QED
    BY <1>6, <2>1, WrapDecides
<1>8. spawned'[n] = "none" /\ n \in Observers
  <2>1. notifier = "idle" /\ spawned' = spawned /\ n \in Observers
    BY <1>2, <1>6 DEF PhaseInv, ObserversInv
  <2> QED
    BY <2>1 DEF PhaseInv, ScopeEmpty
<1> QED
  BY <1>2, <1>6, <1>7, <1>8, ObserverRemoved

-----------------------------------------------------------------------------
(* A step that neither moves notify_all nor changes the list.              *)
LEMMA WalkKept ==
  ASSUME WalkInv, UNCHANGED <<list, contents, notifier, cursor>>,
         \A i \in 1..Len(contents) :
           spawned[contents[i]] = "none" => spawned'[contents[i]] = "none",
         Len(contents) \in Nat
  PROVE  WalkInv'
<1> SUFFICES ASSUME notifier \in {"looping", "spawned"}
             PROVE  /\ \E j \in 0..Len(contents) : ToVisit(j)'
                    /\ notifier = "spawned" => cursor \in Observers
  BY DEF WalkInv
<1>1. PICK j \in 0..Len(contents) : ToVisit(j)
  BY DEF WalkInv
<1>2. NextNode' = NextNode
  BY DEF NextNode
<1>3. \A i \in (j + 1)..Len(contents) : i \in 1..Len(contents)
  OBVIOUS
<1>4. ToVisit(j)'
  BY <1>1, <1>2, <1>3 DEF ToVisit
<1> QED
  BY <1>4 DEF WalkInv

(* What a list whose items are observers says of its first node and of the *)
(* next ones.                                                              *)
LEMMA ObserverLinks ==
  ASSUME ObserversInv
  PROVE  /\ contents \in Seq(Observers) /\ Len(contents) \in Nat /\ NoDuplicates(contents)
         /\ list.head = IF 0 = Len(contents) THEN Null ELSE contents[0 + 1]
         /\ \A i \in 1..Len(contents) :
              /\ contents[i] \in Observers /\ contents[i] # Null
              /\ list.next[contents[i]] =
                   IF i = Len(contents) THEN Null ELSE contents[i + 1]
<1>1. contents \in Seq(Observers) /\ NoDuplicates(contents) /\ Denotes(list, contents)
  BY DEF ObserversInv, ObserverListInv
<1>2. Len(contents) \in Nat /\ (contents = <<>> <=> 0 = Len(contents))
  BY <1>1
<1>3. \A i \in 1..Len(contents) : contents[i] \in Elements(contents)
  BY DEF Elements
<1>4. \A i \in 1..Len(contents) : /\ contents[i] \in Observers
                                 /\ contents[i] # Null
  BY <1>3, ChannelAssumption DEF ObserversInv
<1>5. list.head = IF 0 = Len(contents) THEN Null ELSE contents[0 + 1]
  BY <1>1, <1>2 DEF Denotes, Linked
<1> QED
  BY <1>1, <1>2, <1>4, <1>5 DEF Denotes, Linked

(* The loop of notify_all.                                                 *)
LEMMA LoopKeepsWalk ==
  ASSUME ChannelTypeOK, PhaseInv, ObserversInv, WalkInv,
         BeginNotify \/ SpawnNext \/ Advance \/ EndLoop \/ EndNotify
  PROVE  WalkInv'
<1>1. UNCHANGED <<list, contents>>
  BY DEF BeginNotify, SpawnNext, Advance, EndLoop, EndNotify, listVars
<1> DEFINE s == contents
<1>2. /\ Len(s) \in Nat /\ NoDuplicates(s)
      /\ list.head = IF 0 = Len(s) THEN Null ELSE s[0 + 1]
      /\ \A i \in 1..Len(s) :
           /\ s[i] \in Observers /\ s[i] # Null
           /\ list.next[s[i]] = IF i = Len(s) THEN Null ELSE s[i + 1]
  BY ObserverLinks
<1>3. CASE BeginNotify
  <2>1. /\ notifier' = "looping" /\ cursor' = list.head /\ spawned' = spawned
        /\ notifier = "idle"
    BY <1>3 DEF BeginNotify
  <2>2. \A i \in (0 + 1)..Len(s) : spawned'[s[i]] = "none"
    BY <1>2, <2>1 DEF PhaseInv, ScopeEmpty
  <2>3. NextNode' = list.head
    BY <2>1 DEF NextNode
  <2>4. ToVisit(0)'
    BY <1>1, <1>2, <2>1, <2>2, <2>3 DEF ToVisit
  <2> QED
    BY <1>1, <1>2, <2>1, <2>4 DEF WalkInv
<1>4. CASE SpawnNext
  <2>1. /\ notifier = "looping" /\ notifier' = "spawned" /\ cursor # Null
        /\ cursor' = cursor /\ spawned' = [spawned EXCEPT ![cursor] = "running"]
    BY <1>4 DEF SpawnNext
  <2>2. PICK j \in 0..Len(s) : ToVisit(j)
    BY <2>1 DEF WalkInv
  <2>3. j # Len(s) /\ cursor = s[j + 1]
    BY <2>1, <2>2 DEF ToVisit, NextNode
  <2>4. j + 1 \in 1..Len(s) /\ j + 1 \in 0..Len(s)
    BY <1>2, <2>3
  <2>5. cursor \in Observers /\ NextNode' = IF j + 1 = Len(s) THEN Null ELSE s[(j + 1) + 1]
    BY <1>1, <1>2, <2>1, <2>3, <2>4 DEF NextNode
  <2>6. ASSUME NEW i \in ((j + 1) + 1)..Len(s)
        PROVE  spawned'[s[i]] = "none" /\ cursor # s[i]
    <3>1. i \in 1..Len(s) /\ i # j + 1 /\ i \in (j + 1)..Len(s)
      BY <1>2, <2>4
    <3>2. cursor # s[i]
      BY <1>2, <2>3, <2>4, <3>1 DEF NoDuplicates
    <3> QED
      BY <1>2, <2>1, <2>2, <3>1, <3>2 DEF ToVisit, ChannelTypeOK
  <2>7. ToVisit(j + 1)'
    BY <1>1, <2>1, <2>5, <2>6 DEF ToVisit
  <2> QED
    BY <1>1, <2>1, <2>4, <2>5, <2>7 DEF WalkInv
<1>5. CASE Advance
  <2>1. /\ notifier = "spawned" /\ notifier' = "looping" /\ cursor' = list.next[cursor]
        /\ spawned' = spawned
    BY <1>5 DEF Advance
  <2>2. PICK j \in 0..Len(s) : ToVisit(j)
    BY <2>1 DEF WalkInv
  <2>3. NextNode' = NextNode
    BY <2>1 DEF NextNode
  <2>4. ToVisit(j)'
    BY <1>1, <2>1, <2>2, <2>3 DEF ToVisit
  <2> QED
    BY <1>1, <2>1, <2>4 DEF WalkInv
<1>6. CASE EndLoop \/ EndNotify
  BY <1>6 DEF EndLoop, EndNotify, WalkInv
<1> QED
  BY <1>3, <1>4, <1>5, <1>6

(* An item that is stopped while notify_all walks over the list has been   *)
(* visited: what is left to visit stays as it is.                          *)
LEMMA NextStoppedKeepsWalk ==
  ASSUME ChannelTypeOK, ObserversInv, WalkInv, NEW o \in Observers, NextStopped(o),
         ~strayErase'
  PROVE  WalkInv'
<1> SUFFICES ASSUME notifier' \in {"looping", "spawned"}
             PROVE  WalkInv'
  BY DEF WalkInv
<1> DEFINE s == contents
           t == contents'
<1>1. /\ s \in Seq(Observers) /\ Len(s) \in Nat /\ NoDuplicates(s)
      /\ \A i \in 1..Len(s) :
           /\ s[i] \in Observers /\ s[i] # Null
           /\ list.next[s[i]] = IF i = Len(s) THEN Null ELSE s[i + 1]
  BY ObserverLinks
<1>2. /\ UNCHANGED <<notifier, cursor>> /\ EraseObserver(o) /\ spawned[o] = "running"
      /\ spawned' = [spawned EXCEPT ![o] = "none"]
  BY DEF NextStopped
<1>3. o \in Elements(s)
  BY <1>2, EraseRemoves DEF ObserversInv
<1>4. PICK k \in 1..Len(s) : s[k] = o
  BY <1>3 DEF Elements
<1>5. list' = erase(list, o) /\ t = RemoveFirst(s, s[k])
  BY <1>2, <1>4 DEF EraseObserver
<1>6. /\ Len(t) = Len(s) - 1
      /\ \A i \in 1..(Len(s) - 1) : t[i] = IF i < k THEN s[i] ELSE s[i + 1]
  BY <1>1, <1>5, RemovedItems
<1>7. PICK j \in 0..Len(s) : ToVisit(j)
  BY <1>2 DEF WalkInv
<1>8. k <= j /\ j \in 1..Len(s) /\ j - 1 \in 0..Len(t)
  <2>1. ~(k \in (j + 1)..Len(s))
    BY <1>2, <1>4, <1>7 DEF ToVisit
  <2> QED
    BY <1>1, <1>6, <2>1
<1>9. \A i \in 1..Len(t) : i >= j => i + 1 \in (j + 1)..Len(s) /\ t[i] = s[i + 1]
  BY <1>1, <1>6, <1>8
<1>10. notifier = "spawned" => cursor \in Observers
  BY <1>2 DEF WalkInv
<1>11. NextNode' = NextNode
  <2>1. CASE notifier = "looping"
    BY <1>2, <2>1 DEF NextNode
  <2>2. CASE notifier = "spawned"
    <3> DEFINE before == list.prev[o]
    <3>1. list.next \in [Observers -> Observers \union {Null}]
      BY DEF ObserversInv, ObserverListInv, IntrusiveLists
    <3>2. before = IF k = 1 THEN Null ELSE s[k - 1]
      BY <1>4 DEF ObserversInv, ObserverListInv, Denotes, Linked
    <3>3. list'.next = SetMember(list.next, before, list.next[o])
      BY <1>5 DEF erase
    <3> HIDE DEF before
    <3>4. cursor \in Observers
      BY <1>10, <2>2, ChannelAssumption
    <3>5. before # Null => cursor # before
      <4> SUFFICES ASSUME before # Null, cursor = before PROVE FALSE
        OBVIOUS
      <4>1. k - 1 \in 1..Len(s) /\ k - 1 # Len(s) /\ (k - 1) + 1 = k /\ cursor = s[k - 1]
        BY <1>1, <3>2
      <4>2. list.next[cursor] = s[k]
        BY <1>1, <4>1
      <4>3. NextNode = s[k]
        BY <2>2, <4>2 DEF NextNode
      <4>4. j # Len(s) /\ s[k] = s[j + 1]
        BY <1>1, <1>7, <4>3 DEF ToVisit
      <4>5. j + 1 \in 1..Len(s) /\ k # j + 1
        BY <1>1, <1>8, <4>4
      <4> QED
        BY <1>1, <4>4, <4>5 DEF NoDuplicates
    <3>6. list'.next[cursor] = list.next[cursor]
      BY <3>1, <3>3, <3>4, <3>5 DEF SetMember
    <3> QED
      BY <1>2, <2>2, <3>6 DEF NextNode
  <2> QED
    BY <1>2, <2>1, <2>2
<1>12. \A i \in ((j - 1) + 1)..Len(t) :
         /\ spawned'[t[i]] = "none"
         /\ notifier' = "spawned" => cursor' # t[i]
  <2> SUFFICES ASSUME NEW i \in ((j - 1) + 1)..Len(t)
               PROVE  /\ spawned'[t[i]] = "none"
                      /\ notifier' = "spawned" => cursor' # t[i]
    OBVIOUS
  <2>1. i + 1 \in (j + 1)..Len(s) /\ t[i] = s[i + 1] /\ i + 1 \in 1..Len(s)
    BY <1>1, <1>6, <1>8, <1>9
  <2>2. /\ spawned[s[i + 1]] = "none"
        /\ notifier = "spawned" => cursor # s[i + 1]
    BY <1>7, <2>1 DEF ToVisit
  <2>3. s[i + 1] \in Observers /\ s[i + 1] # o
    BY <1>1, <1>2, <2>1, <2>2
  <2> HIDE DEF s, t
  <2> QED
    BY <1>2, <2>1, <2>2, <2>3 DEF ChannelTypeOK
<1>13. NextNode' = IF j - 1 = Len(t) THEN Null ELSE t[(j - 1) + 1]
  <2>1. j - 1 = Len(t) <=> j = Len(s)
    BY <1>1, <1>6
  <2>2. j # Len(s) => t[(j - 1) + 1] = s[j + 1]
    <3> SUFFICES ASSUME j # Len(s) PROVE t[(j - 1) + 1] = s[j + 1]
      OBVIOUS
    <3>1. j \in 1..Len(t) /\ (j - 1) + 1 = j
      BY <1>1, <1>6, <1>8
    <3> QED
      BY <1>9, <3>1
  <2> QED
    BY <1>7, <1>11, <2>1, <2>2 DEF ToVisit
<1>14. ToVisit(j - 1)'
  BY <1>12, <1>13 DEF ToVisit
<1> QED
  BY <1>2, <1>8, <1>10, <1>14 DEF WalkInv

-----------------------------------------------------------------------------
(* A step that erases no stray observer keeps the list and the walk.       *)
LEMMA SoundListKept ==
  ASSUME ChannelTypeOK, SubscriptionsInv, PhaseInv, ObserversInv, WalkInv,
         [ChannelNext]_<<listVars, channelVars>>, ~strayErase'
  PROVE  ObserversInv' /\ WalkInv'
<1>1. Len(contents) \in Nat /\ \A i \in 1..Len(contents) : contents[i] \in Observers
  BY ObserverLinks
<1>2. ASSUME UNCHANGED <<list, contents, notifier, cursor, spawned>>
      PROVE  WalkInv'
  BY <1>1, <1>2, WalkKept
<1>3. ASSUME notifier' \notin {"looping", "spawned"}
      PROVE  WalkInv'
  BY <1>3 DEF WalkInv
<1>4. ASSUME NEW o \in Observers,
             Register(o) \/ CompareExchange(o) \/ RequestStop(o) \/ OnStopRequested(o)
               \/ Finish(o)
      PROVE  ObserversInv' /\ WalkInv'
  <2>1. UNCHANGED <<list, contents, notifier, cursor, spawned>>
    BY <1>4 DEF Register, CompareExchange, RequestStop, OnStopRequested, Finish, listVars
  <2> QED
    BY <1>2, <1>4, <2>1, OwnStepKeepsObservers
<1>5. ASSUME NEW o \in Observers, NextEnds(o)
      PROVE  ObserversInv' /\ WalkInv'
  <2>1. /\ UNCHANGED <<list, contents, notifier, cursor>>
        /\ \A i \in 1..Len(contents) :
             spawned[contents[i]] = "none" => spawned'[contents[i]] = "none"
    BY <1>1, <1>5 DEF NextEnds, listVars, ChannelTypeOK
  <2> QED
    BY <1>1, <1>5, <2>1, WalkKept, OwnStepKeepsObservers
<1>6. ASSUME NEW o \in Observers, NextStopped(o)
      PROVE  ObserversInv' /\ WalkInv'
  BY <1>6, NextStoppedKeepsObservers, NextStoppedKeepsWalk
<1>7. ASSUME NEW o \in Observers, Subscribe(o)
      PROVE  ObserversInv' /\ WalkInv'
  BY <1>3, <1>7, SubscribeKeepsObservers DEF Subscribe, MutexFree
<1>8. ASSUME NEW o \in Observers, Unsubscribe(o)
      PROVE  ObserversInv' /\ WalkInv'
  BY <1>3, <1>8, UnsubscribeKeepsObservers DEF Unsubscribe, MutexFree
<1>9. CASE BeginNotify \/ SpawnNext \/ Advance \/ EndLoop \/ EndNotify
  <2>1. WalkInv'
    BY <1>9, LoopKeepsWalk
  <2>2. UNCHANGED <<n_ops, sub, stopOp, owed, completed, stopped>> /\ UNCHANGED listVars
    BY <1>9 DEF BeginNotify, SpawnNext, Advance, EndLoop, EndNotify
  <2>3. ASSUME NEW p \in Observers
        PROVE  spawned'[p] = "running" => p \in Elements(contents) \/ p \in stopped
    <3>1. InTheList(p)
      BY DEF ObserversInv
    <3>2. CASE SpawnNext
      <4>1. notifier = "looping" /\ cursor # Null
            /\ spawned' = [spawned EXCEPT ![cursor] = "running"]
        BY <3>2 DEF SpawnNext
      <4>2. PICK j \in 0..Len(contents) : ToVisit(j)
        BY <4>1 DEF WalkInv
      <4>3. j # Len(contents) /\ cursor = contents[j + 1]
        BY <4>1, <4>2 DEF ToVisit, NextNode
      <4>4. j + 1 \in 1..Len(contents)
        BY <1>1, <4>3
      <4>5. cursor \in Elements(contents)
        BY <4>3, <4>4 DEF Elements
      <4> QED
        BY <3>1, <4>1, <4>5 DEF InTheList, ChannelTypeOK
    <3>3. CASE ~SpawnNext
      <4>1. spawned' = spawned
        BY <1>9, <3>3 DEF BeginNotify, Advance, EndLoop, EndNotify
      <4> QED
        BY <3>1, <4>1 DEF InTheList
    <3> QED
      BY <3>2, <3>3
  <2>4. contents' = contents
    BY <2>2 DEF listVars
  <2>5. \A p \in Observers : InTheList(p)'
    BY <2>2, <2>3, <2>4 DEF ObserversInv, InTheList, Completions
  <2>6. ObserversInv'
    BY <2>2, <2>5, ListKept
  <2> QED
    BY <2>1, <2>6
<1>10. CASE BeginClose \/ EndClose \/ UNCHANGED <<listVars, channelVars>>
  <2>1. /\ UNCHANGED <<n_ops, sub, stopOp, owed, completed, stopped, spawned, notifier, cursor>>
        /\ UNCHANGED listVars
    BY <1>10 DEF BeginClose, EndClose, channelVars
  <2>2. UNCHANGED <<list, contents>>
    BY <2>1 DEF listVars
  <2>3. \A p \in Observers : InTheList(p)'
    BY <2>1, <2>2 DEF ObserversInv, InTheList, Completions
  <2> QED
    BY <1>2, <2>1, <2>2, <2>3, ListKept
<1>11. CASE CloseNext
  <2>1. notifier' = "idle"
    BY <1>11 DEF CloseNext, PhaseInv
  <2> QED
    BY <1>3, <1>11, <2>1, CloseKeepsObservers
<1> QED
  BY <1>4, <1>5, <1>6, <1>7, <1>8, <1>9, <1>10, <1>11
  DEF ChannelNext, ObserverStep, ChannelStep

(* A stop request is not taken back, and a stray erase is not undone.      *)
LEMMA StrayStays ==
  ASSUME ChannelTypeOK, [ChannelNext]_<<listVars, channelVars>>
  PROVE  stopped \subseteq stopped' /\ (strayErase => strayErase')
<1> USE DEF ChannelTypeOK
<1>1. ASSUME NEW o \in Observers, RequestStop(o)
      PROVE  stopped \subseteq stopped' /\ (strayErase => strayErase')
  BY <1>1 DEF RequestStop
<1>2. ASSUME NEW o \in Observers, Unsubscribe(o) \/ NextStopped(o)
      PROVE  stopped \subseteq stopped' /\ (strayErase => strayErase')
  BY <1>2 DEF Unsubscribe, NextStopped, EraseObserver
<1>3. ASSUME NEW o \in Observers,
             Register(o) \/ CompareExchange(o) \/ Subscribe(o) \/ OnStopRequested(o)
               \/ Finish(o) \/ NextEnds(o)
      PROVE  stopped \subseteq stopped' /\ (strayErase => strayErase')
  BY <1>3 DEF Register, CompareExchange, Subscribe, OnStopRequested, Finish, NextEnds
<1>4. CASE BeginNotify \/ BeginClose \/ ChannelStep \/ UNCHANGED <<listVars, channelVars>>
  BY <1>4 DEF BeginNotify, BeginClose, ChannelStep, SpawnNext, Advance, EndLoop, EndNotify,
     CloseNext, EndClose, channelVars
<1> QED
  BY <1>1, <1>2, <1>3, <1>4 DEF ChannelNext, ObserverStep

(* A stray erase follows a stop request, and an item is sent to a          *)
(* completed receiver only after one.                                      *)
LEMMA StrayNext ==
  ASSUME ChannelInv, [ChannelNext]_<<listVars, channelVars>>
  PROVE  (strayErase' => stopped' # {}) /\ (strayNext' => strayErase')
<1>1. /\ stopped \subseteq stopped' /\ (strayErase => strayErase')
  BY StrayStays DEF ChannelInv
<1>2. ASSUME ~strayErase, strayErase'
      PROVE  stopped # {}
  <2>1. PICK o \in Observers : /\ Unsubscribe(o) \/ NextStopped(o)
                               /\ o \notin ToSet(contents)
    <3>1. ASSUME NEW o \in Observers, Register(o) \/ RequestStop(o) \/ ObserverStep(o)
          PROVE  (Unsubscribe(o) \/ NextStopped(o)) /\ o \notin ToSet(contents)
      BY <1>2, <3>1 DEF Register, RequestStop, ObserverStep, CompareExchange, Subscribe,
         OnStopRequested, Unsubscribe, Finish, NextEnds, NextStopped, EraseObserver
    <3>2. ASSUME BeginNotify \/ BeginClose \/ ChannelStep
                   \/ UNCHANGED <<listVars, channelVars>>
          PROVE  FALSE
      BY <1>2, <3>2 DEF BeginNotify, BeginClose, ChannelStep, SpawnNext, Advance, EndLoop,
         EndNotify, CloseNext, EndClose, channelVars
    <3> QED
      BY <3>1, <3>2 DEF ChannelNext
  <2>2. /\ StopOrder(o) /\ InTheList(o) /\ contents \in Seq(Observers)
    BY <1>2 DEF ChannelInv, SubscriptionsInv, ObserversInv, ObserverListInv
  <2>3. o \notin Elements(contents)
    BY <2>1, <2>2, ToSetIsElements
  <2>4. CASE Unsubscribe(o)
    BY <2>2, <2>4 DEF Unsubscribe, StopOrder
  <2>5. CASE NextStopped(o)
    BY <2>2, <2>3, <2>5 DEF NextStopped, InTheList
  <2> QED
    BY <2>1, <2>4, <2>5
<1>3. ASSUME ~strayNext, strayNext'
      PROVE  strayErase
  <2>1. SpawnNext /\ completed[cursor] > 0
    <3>1. ASSUME NEW o \in Observers, Register(o) \/ RequestStop(o) \/ ObserverStep(o)
          PROVE  FALSE
      BY <1>3, <3>1 DEF Register, RequestStop, ObserverStep, CompareExchange, Subscribe,
         OnStopRequested, Unsubscribe, Finish, NextEnds, NextStopped
    <3>2. ASSUME BeginNotify \/ BeginClose \/ Advance \/ EndLoop \/ EndNotify
                   \/ CloseNext \/ EndClose \/ UNCHANGED <<listVars, channelVars>>
          PROVE  FALSE
      BY <1>3, <3>2 DEF BeginNotify, BeginClose, Advance, EndLoop, EndNotify, CloseNext,
         EndClose, channelVars
    <3>3. SpawnNext => completed[cursor] > 0
      BY <1>3 DEF SpawnNext
    <3> QED
      BY <3>1, <3>2, <3>3 DEF ChannelNext, ChannelStep
  <2> SUFFICES ASSUME ~strayErase PROVE FALSE
    BY DEF ChannelInv, ChannelTypeOK
  <2>2. ObserversInv /\ WalkInv /\ ChannelTypeOK
    BY DEF ChannelInv
  <2>3. notifier = "looping" /\ cursor # Null
    BY <2>1 DEF SpawnNext
  <2>4. PICK j \in 0..Len(contents) : ToVisit(j)
    BY <2>2, <2>3 DEF WalkInv
  <2>5. j # Len(contents) /\ cursor = contents[j + 1] /\ Len(contents) \in Nat
    BY <2>2, <2>3, <2>4, ObserverLinks DEF ToVisit, NextNode
  <2>6. j + 1 \in 1..Len(contents)
    BY <2>5
  <2>7. cursor \in Elements(contents)
    BY <2>5, <2>6 DEF Elements
  <2>8. cursor \in Observers /\ sub[cursor] = "pushed" /\ InTheList(cursor)
    BY <2>2, <2>7 DEF ObserversInv
  <2>9. completed[cursor] \in Nat /\ owed[cursor] \in Nat
    BY <2>2, <2>8 DEF ChannelTypeOK
  <2>10. completed[cursor] = 0
    BY <2>7, <2>8, <2>9 DEF InTheList, Completions
  <2> QED
    BY <2>1, <2>10
<1> QED
  BY <1>1, <1>2, <1>3 DEF ChannelInv, ChannelTypeOK

(* Initially no observer is in the list.                                   *)
LEMMA ChannelInitInv == ChannelInit => ChannelInv
<1> SUFFICES ASSUME ChannelInit PROVE ChannelInv
  OBVIOUS
<1>1. ObserverListInv /\ Elements(contents) = {}
  <2>1. list = EmptyList(Observers) /\ contents = <<>>
    BY DEF ChannelInit
  <2>2. EmptyList(Observers) \in IntrusiveLists(Observers)
    BY DEF EmptyList, IntrusiveLists
  <2>3. Denotes(EmptyList(Observers), <<>>)
    BY DEF EmptyList, Denotes, Linked
  <2> QED
    BY <2>1, <2>2, <2>3, EmptyListElements DEF ObserverListInv
<1>2. \A o \in Observers : InTheList(o)
  BY <1>1 DEF ChannelInit, InTheList
<1>3. WalkInv
  BY DEF ChannelInit, WalkInv
<1> QED
  BY <1>1, <1>2, <1>3, ChannelInitTypes DEF ChannelInv, ObserversInv, ChannelInit

(* Every step keeps the invariant.                                         *)
LEMMA ChannelNextInv ==
  ChannelInv /\ [ChannelNext]_<<listVars, channelVars>> => ChannelInv'
<1> SUFFICES ASSUME ChannelInv, [ChannelNext]_<<listVars, channelVars>> PROVE ChannelInv'
  OBVIOUS
<1>1. ChannelTypeOK /\ SubscriptionsInv /\ PhaseInv
  BY DEF ChannelInv
<1>2. ChannelTypeOK' /\ SubscriptionsInv' /\ PhaseInv'
  BY <1>1, ChannelTypes, SubscriptionsNext, PhaseNext
<1>3. (strayErase' => stopped' # {}) /\ (strayNext' => strayErase')
  BY StrayNext
<1>4. ASSUME ~strayErase'
      PROVE  ObserversInv' /\ WalkInv'
  <2>1. ~strayErase
    <3>1. strayErase => strayErase'
      BY <1>1, StrayStays
    <3> QED
      BY <1>4, <3>1
  <2>2. ObserversInv /\ WalkInv
    BY <2>1 DEF ChannelInv
  <2> QED
    BY <1>1, <1>4, <2>2, SoundListKept
<1> QED
  BY <1>2, <1>3, <1>4 DEF ChannelInv

(* The invariant of every behaviour.                                       *)
LEMMA ChannelInvariant == ChannelSpec => []ChannelInv
BY ChannelInitInv, ChannelNextInv, PTL DEF ChannelSpec

(* async_channel: stop, close and a stopped item race for the end of a     *)
(* subscription, and its receiver is completed once at most; an item is    *)
(* sent to a completed receiver only after the list was corrupted.  For    *)
(* any set of observers and any number of items.                           *)
THEOREM SubscriberCompletedOnceHolds == ChannelSpec => []SubscriberCompletedOnce
<1>1. ChannelInv => SubscriberCompletedOnce
  BY DEF ChannelInv, SubscriptionsInv, OneCompletion, Completions, SubscriberCompletedOnce
<1> QED
  BY <1>1, ChannelInvariant, PTL

(* async_channel: while no unlinked observer was erased, which takes a     *)
(* stop request, the list is sound in both directions and holds exactly    *)
(* the subscriptions that have not ended.  For any set of observers and    *)
(* any number of items.                                                    *)
THEOREM NobodyForgottenHolds == ChannelSpec => []NobodyForgotten
<1>1. ChannelInv => NobodyForgotten
  <2> SUFFICES ASSUME ChannelInv PROVE NobodyForgotten
    OBVIOUS
  <2>1. ASSUME ~strayErase
        PROVE  /\ Denotes(list, contents)
               /\ \A o \in Observers : sub[o] = "pushed" =>
                    (o \in ToSet(contents) <=> n_ops[o] \in {1, 2} /\ owed[o] = 0
                                                 /\ completed[o] = 0)
    <3>1. ObserverListInv /\ \A o \in Observers : InTheList(o)
      BY <2>1 DEF ChannelInv, ObserversInv
    <3>2. ToSet(contents) = Elements(contents)
      BY <3>1, ToSetIsElements DEF ObserverListInv
    <3>3. \A o \in Observers :
            /\ completed[o] \in Nat /\ owed[o] \in Nat
            /\ Completions(o) = 0 <=> owed[o] = 0 /\ completed[o] = 0
      BY DEF ChannelInv, ChannelTypeOK, Completions
    <3> QED
      BY <3>1, <3>2, <3>3 DEF ObserverListInv, InTheList
  <2> QED
    BY <2>1 DEF ChannelInv, NobodyForgotten
<1> QED
  BY <1>1, ChannelInvariant, PTL

(***************************************************************************)
(* BufferedSequence.                                                       *)
(***************************************************************************)

TransferSpec == TransferInit /\ [][TransferNext]_transferVars

TransferTypeOK ==
  /\ request \in Calls
  /\ left \in Seq(Nat)
  /\ offset \in Nat \union {-1}
  /\ position \in Nat
  /\ request.kind = "single" => Len(left) = 1

(* How many bytes of the buffers were transferred.                         *)
Done == ByteCount(request.buffers) - ByteCount(left)

(* The calls for which the bytes go to their place.                        *)
KeepsOffset ==
  /\ IsSpan => request.offset = -1
  /\ request.call = "read_some" => request.offset # -1

(* The next transfer begins where the last one ended: behind the offset,   *)
(* or at the position that the kernel advances.                            *)
PlaceInv ==
  KeepsOffset =>
    /\ IF request.offset = -1
         THEN offset = -1 /\ position = FirstPlace + Done
         ELSE offset = FirstPlace + Done
    /\ moved = {<<i, FirstPlace + i>> : i \in 0..(Done - 1)}

TransferInv ==
  /\ TransferTypeOK
  /\ ByteCount(left) <= ByteCount(request.buffers)
  /\ {m[1] : m \in moved} = 0..(Done - 1)
  /\ PlaceInv
  /\ transfer = "submitted" => sqe = Sqe
  /\ transfer = "value" /\ request.call \in {"read", "write"} => ByteCount(left) = 0

-----------------------------------------------------------------------------
(* What lies behind the first k elements of a sequence.                    *)
LEMMA BehindElements ==
  ASSUME NEW S, NEW s \in Seq(S), NEW k \in 0..Len(s)
  PROVE  /\ SubSeq(s, k + 1, Len(s)) \in Seq(S)
         /\ Len(SubSeq(s, k + 1, Len(s))) = Len(s) - k
         /\ \A i \in 1..(Len(s) - k) : SubSeq(s, k + 1, Len(s))[i] = s[k + i]
<1>1. Len(s) \in Nat /\ k \in Nat /\ k <= Len(s)
  OBVIOUS
<1> QED
  BY <1>1

(* The bytes of a span.                                                    *)
LEMMA ByteCountType ==
  ASSUME NEW s \in Seq(Nat)
  PROVE  ByteCount(s) \in Nat /\ (s = <<>> => ByteCount(s) = 0)
<1>1. Len(s) \in 0..Len(s) /\ (s = <<>> => Len(s) = 0)
  OBVIOUS
<1> QED
  BY <1>1, SumOfFirstAdds DEF ByteCount

(* The bytes of one buffer.                                                *)
LEMMA ByteCountOfOne ==
  \A s \in Seq(Nat) : Len(s) = 1 => ByteCount(s) = s[1] /\ s[1] \in Nat
<1> TAKE s \in Seq(Nat)
<1>1. \A i \in 1..Len(s) : s[i] \in Nat
  OBVIOUS
<1>2. \A k \in 1..Len(s) : SumOfFirst(k, s) = SumOfFirst(k - 1, s) + s[k]
  BY SumOfFirstAdds
<1> HAVE Len(s) = 1
<1>3. 1 \in 1..Len(s) /\ 1 - 1 = 0 /\ SumOfFirst(0, s) = 0
  BY SumOfFirstAdds
<1>4. s[1] \in Nat /\ SumOfFirst(1, s) = SumOfFirst(0, s) + s[1]
  BY <1>1, <1>2, <1>3
<1>5. SumOfFirst(1, s) = s[1]
  BY <1>3, <1>4
<1> QED
  BY <1>4, <1>5 DEF ByteCount

(* The loop of advance ends: the buffers that n bytes use up exist.        *)
LEMMA UsedUpExists ==
  ASSUME left \in Seq(Nat), NEW n \in 0..ByteCount(left)
  PROVE  /\ UsedUp(n) \in 0..Len(left)
         /\ SumOfFirst(UsedUp(n), left) <= n
         /\ \/ UsedUp(n) = Len(left)
            \/ SumOfFirst(UsedUp(n), left) = n
            \/ SumOfFirst(UsedUp(n) + 1, left) > n
<1> DEFINE B(k) == SumOfFirst(k, left)
           LoopEnds(k) ==
             /\ B(k) <= n
             /\ k = Len(left) \/ B(k) = n \/ B(k + 1) > n
             /\ \A j \in 0..(k - 1) : B(j) < n
           S == {k \in 0..Len(left) : n <= B(k)}
<1>1. Len(left) \in Nat /\ n \in Nat /\ n <= B(Len(left))
  <2>1. ByteCount(left) \in Nat
    BY ByteCountType
  <2> QED
    BY <2>1 DEF ByteCount
<1>2. B(0) = 0 /\ \A k \in 0..Len(left) : B(k) \in Nat
  BY SumOfFirstAdds
<1>3. S \subseteq Nat /\ S # {}
  BY <1>1
<1>4. PICK m \in S : \A k \in S : m <= k
  <2> HIDE DEF S
  <2> QED
    BY <1>3, NatLeast
<1>5. /\ m \in 0..Len(left) /\ n <= B(m) /\ B(m) \in Nat
      /\ \A j \in 0..(m - 1) : j \in 0..Len(left) /\ ~(n <= B(j))
  BY <1>1, <1>2, <1>4
<1>6. \A j \in 0..(m - 1) : B(j) < n
  <2> SUFFICES ASSUME NEW j \in 0..(m - 1) PROVE B(j) < n
    OBVIOUS
  <2>1. PICK b \in Nat : b = B(j)
    BY <1>2, <1>5
  <2> QED
    BY <1>1, <1>5, <2>1
<1>7. \E k \in 0..Len(left) : LoopEnds(k)
  <2>1. CASE B(m) = n
    <3>1. LoopEnds(m)
      BY <1>1, <1>6, <2>1
    <3> QED
      BY <1>5, <3>1
  <2>2. CASE B(m) # n
    <3>1. m # 0
      BY <1>1, <1>2, <1>5, <2>2
    <3>2. /\ m - 1 \in 0..Len(left) /\ m - 1 \in 0..(m - 1) /\ (m - 1) + 1 = m
          /\ \A j \in 0..((m - 1) - 1) : j \in 0..(m - 1)
      BY <1>1, <1>5, <3>1
    <3>3. B(m - 1) < n /\ B(m - 1) \in Nat
      BY <1>2, <1>6, <3>2
    <3>4. B((m - 1) + 1) > n
      <4>1. PICK b \in Nat : b = B(m)
        BY <1>5
      <4>2. b > n
        BY <1>1, <1>5, <2>2, <4>1
      <4> QED
        BY <3>2, <4>1, <4>2
    <3>5. B(m - 1) <= n
      <4>1. PICK b \in Nat : b = B(m - 1)
        BY <3>3
      <4> QED
        BY <1>1, <3>3, <4>1
    <3>6. LoopEnds(m - 1)
      BY <1>6, <3>2, <3>4, <3>5
    <3> QED
      BY <3>2, <3>6
  <2> QED
    BY <2>1, <2>2
<1>8. UsedUp(n) = CHOOSE k \in 0..Len(left) : LoopEnds(k)
  BY DEF UsedUp
<1>9. UsedUp(n) \in 0..Len(left) /\ LoopEnds(UsedUp(n))
  <2> HIDE DEF LoopEnds
  <2> QED
    BY <1>7, <1>8
<1> QED
  BY <1>9

(* advance drops as many bytes as were transferred.                        *)
LEMMA AdvanceDrops ==
  ASSUME left \in Seq(Nat), request.kind = "single" => Len(left) = 1,
         request.kind \in {"single", "span"},
         NEW n \in 0..ByteCount(left), AdvanceBuffer(n)
  PROVE  /\ left' \in Seq(Nat)
         /\ ByteCount(left') = ByteCount(left) - n
         /\ request.kind = "single" => Len(left') = 1
         /\ IsSpan => \E rest \in Nat : offset' = Moved(offset, rest)
         /\ ~IsSpan => offset' = Moved(offset, n)
<1>1. ByteCount(left) \in Nat /\ n \in Nat /\ n <= ByteCount(left)
  BY ByteCountType
<1>2. CASE ~IsSpan
  <2>1. Len(left) = 1 /\ left' = <<left[1] - n>> /\ offset' = Moved(offset, n)
    BY <1>2 DEF IsSpan, AdvanceBuffer
  <2>2. ByteCount(left) = left[1] /\ left[1] \in Nat
    BY <2>1, ByteCountOfOne
  <2>3. left[1] - n \in Nat
    BY <1>1, <2>2
  <2>4. left' \in Seq(Nat) /\ Len(left') = 1 /\ left'[1] = left[1] - n
    BY <2>1, <2>3
  <2>5. ByteCount(left') = left'[1]
    BY <2>4, ByteCountOfOne
  <2> QED
    BY <1>2, <2>1, <2>2, <2>4, <2>5
<1>3. CASE IsSpan
  <2> DEFINE k == UsedUp(n)
             rest == n - SumOfFirst(k, left)
             tail == SubSeq(left, k + 2, Len(left))
  <2>1. /\ k \in 0..Len(left)
        /\ SumOfFirst(k, left) <= n
        /\ k = Len(left) \/ SumOfFirst(k, left) = n \/ SumOfFirst(k + 1, left) > n
    BY UsedUpExists
  <2>2. /\ left' = IF k = Len(left) THEN <<>> ELSE <<left[k + 1] - rest>> \o tail
        /\ offset' = Moved(offset, rest)
    BY <1>3 DEF AdvanceBuffer
  <2> HIDE DEF k
  <2>3. SumOfFirst(k, left) \in Nat
    BY <2>1, SumOfFirstAdds
  <2>4. rest \in Nat
    <3>1. PICK b \in Nat : b = SumOfFirst(k, left)
      BY <2>3
    <3> QED
      BY <1>1, <2>1, <3>1
  <2>5. request.kind # "single"
    BY <1>3 DEF IsSpan
  <2>6. CASE k = Len(left)
    <3>1. left' = <<>>
      BY <2>2, <2>6
    <3>2. ByteCount(left) = n
      <4>1. PICK b \in Nat : b = SumOfFirst(k, left)
        BY <2>3
      <4>2. ByteCount(left) = b /\ b <= n
        BY <2>1, <2>6, <4>1 DEF ByteCount
      <4> QED
        BY <1>1, <4>2
    <3>3. left' \in Seq(Nat)
      BY <3>1
    <3>4. ByteCount(left') = 0
      BY <3>1, <3>3, ByteCountType
    <3>5. ByteCount(left') = ByteCount(left) - n
      BY <1>1, <3>2, <3>4
    <3> HIDE DEF rest
    <3>6. \E r \in Nat : offset' = Moved(offset, r)
      BY <2>2, <2>4
    <3> QED
      BY <1>3, <2>5, <3>3, <3>5, <3>6
  <2>7. CASE k # Len(left)
    <3> DEFINE x == left[k + 1] - rest
               m == Len(left) - (k + 1)
    <3>1. /\ Len(left) \in Nat /\ k \in Nat /\ k + 1 \in 1..Len(left)
          /\ (k + 1) - 1 = k /\ m \in Nat /\ (k + 1) + m = Len(left)
      BY <2>1, <2>7
    <3>2. /\ SumOfFirst(k + 1, left) = SumOfFirst(k, left) + left[k + 1]
          /\ left[k + 1] \in Nat
      <4>1. \A i \in 1..Len(left) : left[i] \in Nat
        OBVIOUS
      <4> QED
        BY <3>1, <4>1, SumOfFirstAdds
    <3>3. x \in Nat
      <4>1. PICK b \in Nat, y \in Nat : b = SumOfFirst(k, left) /\ y = left[k + 1]
        BY <2>3, <3>2
      <4>2. b = n \/ b + y > n
        BY <2>1, <2>7, <3>2, <4>1
      <4>3. y - (n - b) \in Nat
        BY <1>1, <2>1, <4>1, <4>2
      <4> QED
        BY <4>1, <4>3
    <3>4. /\ tail \in Seq(Nat) /\ Len(tail) = m
          /\ \A i \in 1..m : tail[i] = left[(k + 1) + i]
      <4>1. k + 1 \in 0..Len(left) /\ (k + 1) + 1 = k + 2
        BY <3>1
      <4> QED
        BY <4>1, BehindElements
    <3> HIDE DEF tail, x, m, rest
    <3>5. left' = <<x>> \o tail
      BY <2>2, <2>7 DEF x
    <3>6. /\ left' \in Seq(Nat) /\ Len(left') = 1 + m /\ left'[1] = x
          /\ \A i \in 1..m : left'[1 + i] = tail[i]
      BY <3>1, <3>3, <3>4, <3>5
    <3>7. SumOfFirst(1, left') = x
      <4>1. 1 \in 1..Len(left') /\ 1 - 1 = 0
        BY <3>1, <3>6
      <4>2. SumOfFirst(1, left') = SumOfFirst(0, left') + left'[1]
            /\ SumOfFirst(0, left') = 0
        BY <3>6, <4>1, SumOfFirstAdds
      <4> QED
        BY <3>3, <3>6, <4>2
    <3>8. SumOfFirst((k + 1) + m, left) + SumOfFirst(1, left')
            = SumOfFirst(1 + m, left') + SumOfFirst(k + 1, left)
      <4>1. (k + 1) + m <= Len(left) /\ 1 + m <= Len(left')
        BY <3>1, <3>6
      <4>2. \A i \in 1..m : left[(k + 1) + i] = left'[1 + i]
        BY <3>4, <3>6
      <4>3. SameBehind(left, k + 1, left', 1, m)
        BY <4>1, <4>2 DEF SameBehind
      <4>4. k + 1 \in Nat /\ 1 \in Nat /\ m \in Nat /\ left' \in Seq(Nat)
        BY <3>1, <3>6
      <4> QED
        BY <4>3, <4>4, SumOfFirstShifts
    <3>9. ByteCount(left) + x = ByteCount(left') + SumOfFirst(k + 1, left)
      BY <3>1, <3>6, <3>7, <3>8 DEF ByteCount
    <3>10. ByteCount(left') \in Nat
      BY <3>6, ByteCountType
    <3>11. ByteCount(left') = ByteCount(left) - n
      <4>1. PICK b \in Nat, y \in Nat : b = SumOfFirst(k, left) /\ y = left[k + 1]
        BY <2>3, <3>2
      <4>2. x = y - (n - b) /\ SumOfFirst(k + 1, left) = b + y
        BY <3>2, <4>1 DEF x, rest
      <4>3. PICK c \in Nat, d \in Nat : c = ByteCount(left) /\ d = ByteCount(left')
        BY <1>1, <3>10
      <4>4. c + (y - (n - b)) = d + (b + y)
        BY <3>9, <4>2, <4>3
      <4>5. d = c - n
        BY <1>1, <4>4
      <4> QED
        BY <4>3, <4>5
    <3> QED
      BY <1>3, <2>2, <2>4, <2>5, <3>6, <3>11
  <2> QED
    BY <2>6, <2>7
<1> QED
  BY <1>2, <1>3

-----------------------------------------------------------------------------
(* The invariant, one lemma per action.                                    *)

(* What is known of a call.                                                *)
LEMMA CallTypes ==
  ASSUME request \in Calls
  PROVE  /\ request.call \in {"read", "write", "read_some", "write_some"}
         /\ request.kind \in {"single", "span"}
         /\ request.buffers \in Seq(Nat)
         /\ request.offset \in Nat \union {-1}
         /\ request.position \in Nat
         /\ FirstPlace \in Nat
<1>1. /\ request.call \in {"read", "write", "read_some", "write_some"}
      /\ request.kind \in {"single", "span"}
      /\ request.buffers \in BufferShapes
      /\ request.offset \in Offsets \union {-1}
      /\ request.position \in {0, 1}
  BY DEF Calls, ByteStreamCalls, SeekableCalls, CallsWith
<1>2. request.buffers \in Seq(Nat)
  BY <1>1, BufferedAssumption
<1>3. request.offset \in Nat \union {-1}
  BY <1>1, BufferedAssumption
<1>4. request.position \in Nat
  BY <1>1
<1> QED
  BY <1>1, <1>2, <1>3, <1>4 DEF FirstPlace

(* The invariant holds when the sequence operation is constructed.         *)
LEMMA InitTransfer == TransferInit => TransferInv
<1> SUFFICES ASSUME TransferInit PROVE TransferInv
  OBVIOUS
<1>1. /\ request \in Calls
      /\ request.kind = "single" => Len(request.buffers) = 1
      /\ left = request.buffers
      /\ offset = FirstOffset(request)
      /\ position = request.position
      /\ moved = {}
      /\ transfer = "connected"
  BY DEF TransferInit
<1>2. TransferTypeOK
  BY <1>1, CallTypes DEF TransferTypeOK, FirstOffset
<1>3. ByteCount(left) \in Nat
  BY <1>2, ByteCountType DEF TransferTypeOK
<1>4. Done = 0
  BY <1>1, <1>3 DEF Done
<1>5. 0..(Done - 1) = {}
  BY <1>4
<1>6. PlaceInv
  BY <1>1, <1>4, <1>5, CallTypes DEF PlaceInv, KeepsOffset, FirstOffset, FirstPlace
<1> QED
  BY <1>1, <1>2, <1>3, <1>5, <1>6 DEF TransferInv

(* The kernel transfers no more than there is.                             *)
LEMMA ResultsBounded ==
  ASSUME ByteCount(sqe.iov) \in Nat, Place \in Nat
  PROVE  Results \subseteq 0..ByteCount(sqe.iov)
<1> DEFINE b == ByteCount(sqe.iov)
           there == IF sqe.direction = "write" THEN b
                    ELSE IF Place >= FileSize THEN 0
                    ELSE Smaller(b, FileSize - Place)
<1>1. there \in 0..b
  BY BufferedAssumption DEF Smaller
<1>2. Results = IF there = 0 THEN {0} ELSE 1..there
  BY DEF Results
<1> HIDE DEF there, b
<1>3. b \in Nat
  BY DEF b
<1>4. Results \subseteq 0..b
  BY <1>1, <1>2, <1>3
<1> QED
  BY <1>4 DEF b

(* A transfer of n bytes, by the number of bytes that were done before.    *)
LEMMA TransferValueInv ==
  ASSUME TransferInv, TransferValue
  PROVE  TransferInv'
<1>1. /\ TransferTypeOK /\ PlaceInv /\ sqe = Sqe
      /\ {m[1] : m \in moved} = 0..(Done - 1)
      /\ UNCHANGED <<request, sqe>>
      /\ ByteCount(left) <= ByteCount(request.buffers)
  BY DEF TransferInv, TransferValue
<1>2. sqe.off = offset /\ sqe.iov = left
  BY <1>1 DEF Sqe
<1>3. /\ ByteCount(left) \in Nat /\ ByteCount(request.buffers) \in Nat
      /\ request.offset \in Nat \union {-1} /\ FirstPlace \in Nat
      /\ request.kind \in {"single", "span"}
  BY <1>1, ByteCountType, CallTypes DEF TransferTypeOK
<1>4. Place \in Nat
  BY <1>1, <1>2 DEF Place, TransferTypeOK
<1>5. PICK n \in Results :
        /\ moved' = moved \union
             {<<ByteCount(request.buffers) - ByteCount(sqe.iov) + i, Place + i>> :
                i \in 0..(n - 1)}
        /\ position' = IF sqe.off = -1 THEN position + n ELSE position
        /\ AdvanceBuffer(n)
  BY DEF TransferValue
<1>6. n \in 0..ByteCount(left) /\ n \in Nat
  BY <1>2, <1>3, <1>4, ResultsBounded
<1>7. /\ left' \in Seq(Nat)
      /\ ByteCount(left') = ByteCount(left) - n
      /\ request.kind = "single" => Len(left') = 1
      /\ IsSpan => \E rest \in Nat : offset' = Moved(offset, rest)
      /\ ~IsSpan => offset' = Moved(offset, n)
  BY <1>1, <1>3, <1>5, <1>6, AdvanceDrops DEF TransferTypeOK
<1>8. Done \in Nat
  BY <1>1, <1>3 DEF Done
<1>9. Done' = Done + n
  BY <1>1, <1>3, <1>6, <1>7 DEF Done
<1>10. moved' = moved \union {<<Done + i, Place + i>> : i \in 0..(n - 1)}
  BY <1>2, <1>5 DEF Done
<1>11. TransferTypeOK'
  <2>1. offset' \in Nat \union {-1}
    <3>1. PICK rest \in Nat : offset' = Moved(offset, rest)
      BY <1>6, <1>7
    <3> QED
      BY <1>1, <3>1 DEF Moved, TransferTypeOK
  <2>2. position' \in Nat
    BY <1>1, <1>5, <1>6 DEF TransferTypeOK
  <2> QED
    BY <1>1, <1>7, <2>1, <2>2 DEF TransferTypeOK
<1>12. ByteCount(left') <= ByteCount(request.buffers) /\ ByteCount(left') \in Nat
  BY <1>1, <1>3, <1>6, <1>7
<1>13. \A d, k \in Nat : 0..((d + k) - 1) = 0..(d - 1) \union {d + i : i \in 0..(k - 1)}
  <2> TAKE d \in Nat, k \in Nat
  <2>1. ASSUME NEW x \in 0..((d + k) - 1), x \notin 0..(d - 1)
        PROVE  \E i \in 0..(k - 1) : x = d + i
    <3>1. x - d \in 0..(k - 1) /\ x = d + (x - d)
      BY <2>1
    <3> QED
      BY <3>1
  <2>2. \A x \in 0..(d - 1) : x \in 0..((d + k) - 1)
    OBVIOUS
  <2>3. \A i \in 0..(k - 1) : d + i \in 0..((d + k) - 1)
    OBVIOUS
  <2> QED
    BY <2>1, <2>2, <2>3
<1>14. 0..(Done' - 1) = 0..(Done - 1) \union {Done + i : i \in 0..(n - 1)}
  <2>1. PICK d \in Nat : d = Done
    BY <1>8
  <2>2. Done' = d + n
    BY <1>9, <2>1
  <2>3. 0..((d + n) - 1) = 0..(d - 1) \union {d + i : i \in 0..(n - 1)}
    BY <1>6, <1>13
  <2> QED
    BY <2>1, <2>2, <2>3, Zenon
<1>15. {m[1] : m \in moved'} = 0..(Done' - 1)
  <2> DEFINE new == {<<Done + i, Place + i>> : i \in 0..(n - 1)}
  <2>1. {m[1] : m \in new} = {Done + i : i \in 0..(n - 1)}
    <3>1. ASSUME NEW m \in new PROVE m[1] \in {Done + i : i \in 0..(n - 1)}
      OBVIOUS
    <3>2. ASSUME NEW i \in 0..(n - 1) PROVE \E m \in new : m[1] = Done + i
      <4>1. <<Done + i, Place + i>> \in new /\ <<Done + i, Place + i>>[1] = Done + i
        OBVIOUS
      <4> QED
        BY <4>1
    <3> QED
      BY <3>1, <3>2
  <2>2. moved' = moved \union new
    BY <1>10
  <2> HIDE DEF new
  <2>3. {m[1] : m \in moved \union new} = {m[1] : m \in moved} \union {m[1] : m \in new}
    OBVIOUS
  <2> QED
    BY <1>1, <1>14, <2>1, <2>2, <2>3
<1>16. PlaceInv'
  <2> SUFFICES ASSUME KeepsOffset
      PROVE  /\ IF request.offset = -1
                  THEN offset' = -1 /\ position' = FirstPlace + Done'
                  ELSE offset' = FirstPlace + Done'
             /\ moved' = {<<i, FirstPlace + i>> : i \in 0..(Done' - 1)}
    BY <1>1 DEF PlaceInv, KeepsOffset, FirstPlace, IsSpan
  <2>1. /\ IF request.offset = -1
              THEN offset = -1 /\ position = FirstPlace + Done
              ELSE offset = FirstPlace + Done
        /\ moved = {<<i, FirstPlace + i>> : i \in 0..(Done - 1)}
    BY <1>1 DEF PlaceInv
  <2>2. Place = FirstPlace + Done
    BY <1>2, <1>3, <1>8, <2>1 DEF Place
  <2>3. IF request.offset = -1
          THEN offset' = -1 /\ position' = FirstPlace + Done'
          ELSE offset' = FirstPlace + Done'
    <3>1. CASE request.offset = -1
      <4>1. offset' = -1
        <5>1. PICK rest \in Nat : offset' = Moved(offset, rest)
          BY <1>6, <1>7
        <5> QED
          BY <2>1, <3>1, <5>1 DEF Moved
      <4>2. position' = position + n
        BY <1>2, <1>5, <2>1, <3>1
      <4>3. position' = FirstPlace + Done'
        <5>1. PICK d \in Nat, p \in Nat : d = Done /\ p = FirstPlace
          BY <1>3, <1>8
        <5>2. position = p + d /\ Done' = d + n
          BY <1>9, <2>1, <3>1, <5>1
        <5>3. position' = (p + d) + n
          BY <4>2, <5>2
        <5>4. (p + d) + n = p + (d + n)
          BY <1>6
        <5>5. position' = p + (d + n)
          BY <5>3, <5>4
        <5> QED
          BY <5>1, <5>2, <5>5, Zenon
      <4> QED
        BY <3>1, <4>1, <4>3
    <3>2. CASE request.offset # -1
      <4>1. ~IsSpan
        BY <3>2 DEF KeepsOffset
      <4>2. offset' = offset + n
        BY <1>3, <1>7, <1>8, <2>1, <3>2, <4>1 DEF Moved
      <4>3. offset' = FirstPlace + Done'
        <5>1. PICK d \in Nat, p \in Nat : d = Done /\ p = FirstPlace
          BY <1>3, <1>8
        <5>2. offset = p + d /\ Done' = d + n
          BY <1>9, <2>1, <3>2, <5>1
        <5>3. offset' = (p + d) + n
          BY <4>2, <5>2
        <5>4. (p + d) + n = p + (d + n)
          BY <1>6
        <5>5. offset' = p + (d + n)
          BY <5>3, <5>4
        <5> QED
          BY <5>1, <5>2, <5>5, Zenon
      <4> QED
        BY <3>2, <4>3
    <3> QED
      BY <3>1, <3>2
  <2>4. {<<i, FirstPlace + i>> : i \in 0..(Done' - 1)}
          = {<<i, FirstPlace + i>> : i \in 0..(Done - 1)}
              \union {<<Done + i, FirstPlace + (Done + i)>> : i \in 0..(n - 1)}
    BY <1>14
  <2>5. {<<Done + i, FirstPlace + (Done + i)>> : i \in 0..(n - 1)}
          = {<<Done + i, Place + i>> : i \in 0..(n - 1)}
    BY <1>3, <1>6, <1>8, <2>2
  <2>6. moved' = {<<i, FirstPlace + i>> : i \in 0..(Done' - 1)}
    BY <1>10, <2>1, <2>4, <2>5
  <2> QED
    BY <2>3, <2>6
<1>17. transfer' # "submitted"
  BY DEF TransferValue, NextValue
<1>18. transfer' = "value" /\ request.call \in {"read", "write"} => ByteCount(left') = 0
  <2> SUFFICES ASSUME transfer' = "value", request.call \in {"read", "write"}
               PROVE  ByteCount(left') = 0
    OBVIOUS
  <2>1. DataEmpty(left')
    BY DEF TransferValue, NextValue
  <2>2. left' = <<>> => ByteCount(left') = 0
    BY <1>7, ByteCountType
  <2> QED
    BY <2>1, <2>2 DEF DataEmpty
<1> QED
  BY <1>1, <1>11, <1>12, <1>15, <1>16, <1>17, <1>18 DEF TransferInv

(* Every step keeps the invariant.                                         *)
LEMMA NextTransfer == TransferInv /\ [TransferNext]_transferVars => TransferInv'
<1> SUFFICES ASSUME TransferInv, [TransferNext]_transferVars PROVE TransferInv'
  OBVIOUS
<1>1. CASE TransferValue
  BY <1>1, TransferValueInv
<1>2. ASSUME UNCHANGED <<request, left, offset, position, moved>>
      PROVE  /\ TransferTypeOK' /\ PlaceInv' /\ Done' = Done
  BY <1>2 DEF TransferInv, TransferTypeOK, PlaceInv, Done, KeepsOffset, FirstPlace, IsSpan
<1>3. CASE Submit
  <2>1. sqe' = Sqe' /\ transfer' = "submitted"
        /\ UNCHANGED <<request, left, offset, position, moved>>
    BY <1>3 DEF Submit, Sqe, Direction
  <2> QED
    BY <1>2, <2>1 DEF TransferInv
<1>4. CASE TransferFails \/ TransferStopped \/ CutShort
  <2>1. /\ transfer' \in {"item failed", "item stopped", "cut short"}
        /\ UNCHANGED <<request, left, offset, position, moved>>
    BY <1>4 DEF TransferFails, TransferStopped, CutShort
  <2> QED
    BY <1>2, <2>1 DEF TransferInv
<1>5. CASE UNCHANGED transferVars
  <2>1. UNCHANGED <<request, left, offset, sqe, position, moved, transfer>>
    BY <1>5 DEF transferVars
  <2>2. Sqe' = Sqe
    BY <2>1 DEF Sqe, Direction
  <2> QED
    BY <1>2, <2>1, <2>2 DEF TransferInv
<1> QED
  BY <1>1, <1>3, <1>4, <1>5 DEF TransferNext

(* The invariant holds after any pattern of short transfers.               *)
LEMMA TransferInvariant == TransferSpec => []TransferInv
<1> QED
  BY InitTransfer, NextTransfer, PTL DEF TransferSpec

(* The bytes that were moved are as many as were done.                     *)
LEMMA MovedCount ==
  ASSUME NEW place \in Nat, NEW n \in Nat
  PROVE  Cardinality({<<i, place + i>> : i \in 0..(n - 1)}) = n
<1> DEFINE I == 0..(n - 1)
           M == {<<i, place + i>> : i \in I}
           f == [i \in I |-> <<i, place + i>>]
<1>1. IsFiniteSet(I) /\ Cardinality(I) = n
  <2>1. 0 \in Int /\ n - 1 \in Int
    OBVIOUS
  <2>2. IsFiniteSet(I) /\ Cardinality(I) = IF 0 > n - 1 THEN 0 ELSE n - 1 - 0 + 1
    BY <2>1, FS_Interval
  <2> QED
    BY <2>2
<1>2. ExistsBijection(I, M)
  <2>1. f \in [I -> M]
    OBVIOUS
  <2>2. \A i, j \in I : f[i] = f[j] => i = j
    OBVIOUS
  <2>3. \A m \in M : \E i \in I : f[i] = m
    OBVIOUS
  <2> HIDE DEF f, M, I
  <2> QED
    BY <2>1, <2>2, <2>3 DEF ExistsBijection, Bijection, Injection, Surjection, IsInjective
<1> HIDE DEF f, M, I
<1>3. Cardinality(M) = Cardinality(I)
  BY <1>1, <1>2, FS_Bijection
<1> QED
  BY <1>1, <1>3 DEF M, I

(* After any number of short transfers the bytes were moved in order, each *)
(* once and each to its place, for all buffers and offsets, except for a   *)
(* span with an offset and for read_some without one.                      *)
THEOREM BytesInPlaceHolds == TransferSpec => []BytesInPlace
<1>1. TransferInv => BytesInPlace
  <2> SUFFICES ASSUME TransferInv, KeepsOffset PROVE EveryByteInPlace
    BY DEF BytesInPlace, KeepsOffset
  <2>1. moved = {<<i, FirstPlace + i>> : i \in 0..(Done - 1)}
    BY DEF TransferInv, PlaceInv
  <2>2. FirstPlace \in Nat /\ Done \in Nat
    BY CallTypes, ByteCountType DEF TransferInv, TransferTypeOK, Done
  <2>3. Cardinality(moved) = Done
    BY <2>1, <2>2, MovedCount
  <2> QED
    BY <2>1, <2>3 DEF EveryByteInPlace
<1> QED
  BY <1>1, TransferInvariant, PTL

(* read and write complete with set_value only when every byte of the      *)
(* buffers was moved, whatever the results of the transfers.               *)
THEOREM ValueMeansFilledHolds == TransferSpec => []ValueMeansFilled
<1>1. TransferInv => ValueMeansFilled
  <2> SUFFICES ASSUME TransferInv, transfer = "value",
                      request.call \in {"read", "write"}
      PROVE  {m[1] : m \in moved} = 0..(ByteCount(request.buffers) - 1)
    BY DEF ValueMeansFilled
  <2>1. ByteCount(left) = 0 /\ {m[1] : m \in moved} = 0..(Done - 1)
    BY DEF TransferInv
  <2>2. ByteCount(request.buffers) \in Nat
    BY CallTypes, ByteCountType DEF TransferInv, TransferTypeOK
  <2>3. Done = ByteCount(request.buffers)
    BY <2>1, <2>2 DEF Done
  <2> QED
    BY <2>1, <2>3
<1> QED
  BY <1>1, TransferInvariant, PTL


(***************************************************************************)
(* BufferSpan.                                                             *)
(***************************************************************************)

SpanSpec == SpanInit /\ [][SpanNext]_spanVars

(* The subspan s of the buffers stands for the bytes from and up to to.    *)
Stands(s, from, to) ==
  /\ s \in [first : Nat, size : Nat, i0 : Nat, iN : Nat]
  /\ from \in Nat /\ to \in Nat /\ from <= to
  /\ s.size = 0 => from = to
  /\ s.size # 0 =>
       /\ s.first \in 1..Len(sizes) /\ s.first + s.size - 1 \in 1..Len(sizes)
       /\ s.i0 <= sizes[s.first] /\ s.iN <= sizes[s.first + s.size - 1]
       /\ from = Before(s.first) + s.i0
       /\ to = Before(s.first + s.size - 1) + s.iN

SpanInv ==
  /\ sizes \in Seq(Nat)
  /\ Len(sizes) <= 2 => Stands(subspan, interval[1], interval[2])

(* What Stands says of a subspan with a buffer, in numbers: the first and  *)
(* the last buffer, where they begin, how long they are, and the offsets.  *)
Reaches(s, from, to, f, l, bf, bl, x, y, i0, iN) ==
  /\ s = [first |-> f, size |-> (l - f) + 1, i0 |-> i0, iN |-> iN]
  /\ f <= l
  /\ bf = Before(f) /\ bl = Before(l) /\ x = sizes[f] /\ y = sizes[l]
  /\ i0 <= x /\ iN <= y
  /\ from = bf + i0 /\ to = bl + iN
  /\ f = l => bf = bl /\ x = y
  /\ f < l => Before(f + 1) = bf + x /\ bf + x <= bl

-----------------------------------------------------------------------------
(* Where the bytes of a buffer lie.                                        *)
LEMMA BeforeTypes ==
  ASSUME sizes \in Seq(Nat)
  PROVE  /\ Before(1) = 0
         /\ \A k \in 1..Len(sizes) :
              /\ sizes[k] \in Nat
              /\ Before(k) \in Nat
              /\ Before(k + 1) = Before(k) + sizes[k]
         /\ \A j, k \in 1..Len(sizes) : j <= k => Before(j) <= Before(k)
<1>1. Len(sizes) \in Nat
  OBVIOUS
<1>2. Before(1) = 0
  <2>1. 1 - 1 = 0
    OBVIOUS
  <2> QED
    BY <2>1, SumOfFirstAdds DEF Before
<1>3. \A k \in 1..Len(sizes) : sizes[k] \in Nat
  OBVIOUS
<1>4. ASSUME NEW k \in 1..Len(sizes)
      PROVE  Before(k) \in Nat /\ Before(k + 1) = Before(k) + sizes[k]
  <2>1. k - 1 \in 0..Len(sizes) /\ (k + 1) - 1 = k
    BY <1>1
  <2> QED
    BY <2>1, SumOfFirstAdds DEF Before
<1>5. ASSUME NEW j \in 1..Len(sizes), NEW k \in 1..Len(sizes), j <= k
      PROVE  Before(j) <= Before(k)
  <2>1. j - 1 \in 0..Len(sizes) /\ k - 1 \in 0..Len(sizes) /\ j - 1 <= k - 1
    BY <1>1, <1>5
  <2> QED
    BY <2>1, SumOfFirstGrows DEF Before
<1> QED
  BY <1>2, <1>3, <1>4, <1>5

(* What is known of a subspan with a buffer.                               *)
LEMMA StandsTypes ==
  ASSUME sizes \in Seq(Nat), NEW s, NEW from, NEW to, Stands(s, from, to), s.size # 0
  PROVE  \E f \in 1..Len(sizes), l \in 1..Len(sizes), bf \in Nat, bl \in Nat,
            x \in Nat, y \in Nat, i0 \in Nat, iN \in Nat :
           Reaches(s, from, to, f, l, bf, bl, x, y, i0, iN)
<1> DEFINE f == s.first
           l == s.first + s.size - 1
<1>1. /\ s \in [first : Nat, size : Nat, i0 : Nat, iN : Nat]
      /\ f \in 1..Len(sizes) /\ l \in 1..Len(sizes)
      /\ s.i0 <= sizes[f] /\ s.iN <= sizes[l]
      /\ from = Before(f) + s.i0
      /\ to = Before(l) + s.iN
  BY DEF Stands
<1>2. Len(sizes) \in Nat
  OBVIOUS
<1>3. s = [first |-> f, size |-> (l - f) + 1, i0 |-> s.i0, iN |-> s.iN]
  <2>1. s.size = (l - f) + 1
    BY <1>1
  <2> QED
    BY <1>1, <2>1
<1>4. f <= l /\ s.i0 \in Nat /\ s.iN \in Nat
  BY <1>1
<1> HIDE DEF f, l
<1>5. /\ Before(f) \in Nat /\ Before(l) \in Nat /\ sizes[f] \in Nat /\ sizes[l] \in Nat
      /\ Before(f + 1) = Before(f) + sizes[f]
  BY <1>1, BeforeTypes
<1>6. f < l => Before(f + 1) <= Before(l)
  <2> SUFFICES ASSUME f < l PROVE Before(f + 1) <= Before(l)
    OBVIOUS
  <2>1. f + 1 \in 1..Len(sizes) /\ f + 1 <= l
    BY <1>1, <1>2
  <2> QED
    BY <1>1, <2>1, BeforeTypes
<1>7. f = l => Before(f) = Before(l) /\ sizes[f] = sizes[l]
  OBVIOUS
<1>8. Reaches(s, from, to, f, l, Before(f), Before(l), sizes[f], sizes[l], s.i0, s.iN)
  BY <1>1, <1>3, <1>4, <1>5, <1>6, <1>7 DEF Reaches
<1> QED
  BY <1>1, <1>4, <1>5, <1>8

(* buffer_size counts the bytes a subspan stands for.                      *)
LEMMA SizeCounts ==
  ASSUME sizes \in Seq(Nat), NEW s, NEW from, NEW to, Stands(s, from, to)
  PROVE  buffer_size(s) = to - from
<1>1. from \in Nat /\ to \in Nat
  BY DEF Stands
<1>2. CASE s.size = 0
  BY <1>1, <1>2 DEF buffer_size, Stands
<1>3. CASE s.size # 0
  <2>1. PICK f \in 1..Len(sizes), l \in 1..Len(sizes), bf \in Nat, bl \in Nat,
             x \in Nat, y \in Nat, i0 \in Nat, iN \in Nat :
          Reaches(s, from, to, f, l, bf, bl, x, y, i0, iN)
    BY <1>3, StandsTypes
  <2>2. /\ s.first = f /\ s.size = (l - f) + 1 /\ s.i0 = i0 /\ s.iN = iN
        /\ f <= l /\ bf = Before(f) /\ bl = Before(l)
        /\ from = bf + i0 /\ to = bl + iN
        /\ f = l => bf = bl
    BY <2>1 DEF Reaches
  <2>3. CASE s.size = 1
    <3>1. f = l /\ buffer_size(s) = iN - i0
      BY <2>2, <2>3, SMTT(20) DEF buffer_size
    <3> QED
      BY <2>2, <3>1
  <2>4. CASE s.size # 1
    <3>1. f + ((l - f) + 1) - 1 = l
      OBVIOUS
    <3>2. buffer_size(s) = bl - bf - i0 + iN
      BY <1>3, <2>2, <2>4, <3>1 DEF buffer_size
    <3>3. bl - bf - i0 + iN = (bl + iN) - (bf + i0)
      OBVIOUS
    <3> QED
      BY <2>2, <3>2, <3>3
  <2> QED
    BY <2>3, <2>4
<1> QED
  BY <1>2, <1>3

(* The constructor of a subspan.                                           *)
LEMMA SpanStands ==
  ASSUME sizes \in Seq(Nat),
         NEW f \in 1..Len(sizes), NEW l \in 1..Len(sizes), f <= l,
         NEW i0 \in Nat, NEW iN \in Nat, i0 <= sizes[f], iN <= sizes[l],
         f = l => i0 <= iN
  PROVE  Stands(Span(f, (l - f) + 1, i0, iN), Before(f) + i0, Before(l) + iN)
<1>1. PICK bf \in Nat, bl \in Nat, x \in Nat : bf = Before(f) /\ bl = Before(l) /\ x = sizes[f]
  BY BeforeTypes
<1>2. f # l => bf + x <= bl
  <2> SUFFICES ASSUME f # l PROVE bf + x <= bl
    OBVIOUS
  <2>1. f + 1 \in 1..Len(sizes) /\ f + 1 <= l
    OBVIOUS
  <2> QED
    BY <1>1, <2>1, BeforeTypes
<1>3. bf + i0 <= bl + iN
  <2>1. CASE f = l
    <3>1. bf = bl
      BY <1>1, <2>1, Zenon
    <3>2. i0 <= iN
      BY <2>1, Zenon
    <3> QED
      BY <3>1, <3>2
  <2>2. CASE f # l
    <3>1. bf + x <= bl
      BY <1>2, <2>2
    <3>2. i0 <= x
      BY <1>1, Zenon
    <3> QED
      BY <3>1, <3>2
  <2> QED
    BY <2>1, <2>2
<1>4. (l - f) + 1 \in Nat /\ (l - f) + 1 # 0 /\ f + ((l - f) + 1) - 1 = l
  OBVIOUS
<1>5. CASE (l - f) + 1 = 1 /\ i0 = iN
  <2>1. f = l
    BY <1>5
  <2>2. bf + i0 = bl + iN
    <3>1. bf = bl
      BY <1>1, <2>1, Zenon
    <3> QED
      BY <1>5, <3>1
  <2>3. Span(f, (l - f) + 1, i0, iN) = [first |-> 0, size |-> 0, i0 |-> i0, iN |-> iN]
    BY <1>5 DEF Span
  <2> DEFINE r == [first |-> 0, size |-> 0, i0 |-> i0, iN |-> iN]
  <2>4. Stands(r, bf + i0, bl + iN)
    <3>1. r \in [first : Nat, size : Nat, i0 : Nat, iN : Nat] /\ r.size = 0
      OBVIOUS
    <3> HIDE DEF r
    <3>2. bf + i0 \in Nat /\ bl + iN \in Nat /\ bf + i0 <= bl + iN
      BY <2>2
    <3> QED
      BY <2>2, <3>1, <3>2 DEF Stands
  <2> HIDE DEF r
  <2> QED
    BY <1>1, <2>3, <2>4 DEF r
<1>6. CASE ~((l - f) + 1 = 1 /\ i0 = iN)
  <2>1. Span(f, (l - f) + 1, i0, iN)
          = [first |-> f, size |-> (l - f) + 1, i0 |-> i0, iN |-> iN]
    BY <1>6 DEF Span
  <2> DEFINE r == [first |-> f, size |-> (l - f) + 1, i0 |-> i0, iN |-> iN]
  <2>2. /\ r \in [first : Nat, size : Nat, i0 : Nat, iN : Nat]
        /\ r.first = f /\ r.size # 0 /\ r.i0 = i0 /\ r.iN = iN
        /\ r.first + r.size - 1 = l
    BY <1>4
  <2> HIDE DEF r
  <2>3. bf + i0 \in Nat /\ bl + iN \in Nat
    OBVIOUS
  <2>4. Stands(r, bf + i0, bl + iN)
    BY <1>1, <1>3, <2>2, <2>3 DEF Stands
  <2> QED
    BY <1>1, <2>1, <2>4 DEF r
<1> QED
  BY <1>5, <1>6

(* The least element of a set of numbers.                                  *)
LEMMA MinIsLeast ==
  ASSUME NEW S, S \subseteq Nat, S # {}
  PROVE  Min(S) \in S /\ \A k \in S : Min(S) <= k
<1>1. \E m \in S : \A k \in S : m <= k
  BY NatLeast
<1> QED
  BY <1>1 DEF Min

(* The buffer in which a byte lies, for any number of buffers.             *)
LEMMA IndexFound ==
  ASSUME sizes \in Seq(Nat),
         NEW first \in 1..Len(sizes), NEW last \in 1..Len(sizes), first <= last,
         NEW n \in Nat, Before(first) + n <= Before(last) + sizes[last]
  PROVE  \E k \in first..last, b \in Nat :
           /\ b = Before(k) /\ b <= Before(first) + n
           /\ Before(first) + n <= b + sizes[k]
           /\ find_buffer_index_for_n(first, last, n)
                = [index |-> k - first, rest |-> (Before(first) + n) - b]
<1> DEFINE Left(k) == n - (Before(k) - Before(first))
           fits == {k \in first..last : Left(k) <= sizes[k]}
           k == Min(fits)
<1>1. \A i \in first..last : /\ i \in 1..Len(sizes)
                             /\ Before(i) \in Nat /\ sizes[i] \in Nat
                             /\ Before(i + 1) = Before(i) + sizes[i]
  <2>1. \A i \in first..last : i \in 1..Len(sizes)
    OBVIOUS
  <2> QED
    BY <2>1, BeforeTypes
<1>2. PICK bf \in Nat : bf = Before(first)
  BY BeforeTypes
<1>3. last \in fits
  <2>1. last \in first..last
    OBVIOUS
  <2>2. PICK b \in Nat, y \in Nat : b = Before(last) /\ y = sizes[last]
    BY <1>1, <2>1
  <2>3. bf + n <= b + y
    BY <1>2, <2>2
  <2>4. n - (b - bf) <= y
    BY <2>3
  <2> QED
    BY <1>2, <2>1, <2>2, <2>4
<1>4. fits \subseteq Nat
  OBVIOUS
<1>5. k \in fits /\ \A j \in fits : k <= j
  <2> HIDE DEF fits
  <2> QED
    BY <1>3, <1>4, MinIsLeast
<1>6. PICK b \in Nat, y \in Nat : b = Before(k) /\ y = sizes[k]
  BY <1>1, <1>5
<1>7. k \in first..last /\ n - (b - bf) <= y
  BY <1>2, <1>5, <1>6
<1>8. find_buffer_index_for_n(first, last, n) = [index |-> k - first, rest |-> Left(k)]
  BY <1>3 DEF find_buffer_index_for_n
<1>9. Left(k) = (bf + n) - b
  <2>1. Left(k) = n - (b - bf)
    BY <1>2, <1>6
  <2> QED
    BY <2>1
<1> HIDE DEF k
<1>10. b <= bf + n
  <2>1. CASE k = first
    <3>1. b = bf
      BY <1>2, <1>6, <2>1
    <3> QED
      BY <3>1
  <2>2. CASE k # first
    <3>1. k - 1 \in first..last /\ ~(k <= k - 1) /\ (k - 1) + 1 = k
      BY <1>7, <2>2
    <3>2. k - 1 \notin fits
      <4> HIDE DEF fits
      <4> QED
        BY <1>5, <3>1
    <3>3. PICK c \in Nat, z \in Nat : c = Before(k - 1) /\ z = sizes[k - 1]
      BY <1>1, <3>1
    <3>4. b = c + z
      BY <1>1, <1>6, <3>1, <3>3
    <3>5. ~(n - (c - bf) <= z)
      BY <1>2, <3>1, <3>2, <3>3
    <3> QED
      BY <3>4, <3>5
  <2> QED
    BY <2>1, <2>2
<1>11. bf + n <= b + y
  BY <1>7
<1> HIDE DEF Left
<1> QED
  BY <1>2, <1>6, <1>7, <1>8, <1>9, <1>10, <1>11

(* prefix(n) stands for the first n bytes, of any number of buffers.       *)
LEMMA PrefixStands ==
  ASSUME sizes \in Seq(Nat), NEW s, NEW from, NEW to, Stands(s, from, to),
         NEW n \in 0..(to - from)
  PROVE  Stands(prefix(s, n), from, from + n)
<1>1. from \in Nat /\ to \in Nat /\ n \in Nat /\ n <= to - from
  BY DEF Stands
<1>2. CASE s.size = 0
  <2>1. prefix(s, n) = s /\ from + n = from /\ from = to
    BY <1>1, <1>2 DEF prefix, Stands
  <2> QED
    BY <2>1
<1>3. CASE s.size # 0
  <2>1. PICK f \in 1..Len(sizes), l \in 1..Len(sizes), bf \in Nat, bl \in Nat,
             x \in Nat, y \in Nat, i0 \in Nat, iN \in Nat :
          Reaches(s, from, to, f, l, bf, bl, x, y, i0, iN)
    BY <1>3, StandsTypes
  <2>2. /\ s.first = f /\ s.size = (l - f) + 1 /\ s.i0 = i0 /\ s.iN = iN
        /\ f <= l /\ bf = Before(f) /\ bl = Before(l) /\ x = sizes[f] /\ y = sizes[l]
        /\ i0 <= x /\ iN <= y
        /\ from = bf + i0 /\ to = bl + iN
        /\ f = l => bf = bl /\ x = y
        /\ f < l => Before(f + 1) = bf + x /\ bf + x <= bl
    BY <2>1 DEF Reaches
  <2>5. /\ i0 <= x /\ iN <= y /\ from = bf + i0 /\ to = bl + iN
        /\ f = l => bf = bl /\ x = y
        /\ f < l => bf + x <= bl
    BY <2>1, Zenon DEF Reaches
  <2>3. CASE n <= x - i0
    <3>1. prefix(s, n) = Span(f, 1, i0, n + i0)
      BY <1>3, <2>2, <2>3 DEF prefix
    <3>2. (f - f) + 1 = 1 /\ n + i0 \in Nat /\ n + i0 <= x /\ i0 <= n + i0 /\ f <= f
      BY <1>1, <2>5, <2>3
    <3>3. Stands(Span(f, (f - f) + 1, i0, n + i0), Before(f) + i0, Before(f) + (n + i0))
      BY <2>2, <3>2, SpanStands
    <3>4. from = Before(f) + i0
      BY <2>2
    <3>5. from + n = Before(f) + (n + i0)
      <4>1. (bf + i0) + n = bf + (n + i0)
        BY <1>1
      <4> QED
        BY <2>2, <4>1
    <3>6. Stands(Span(f, 1, i0, n + i0), from, from + n)
      BY <3>2, <3>3, <3>4, <3>5
    <3> QED
      BY <3>1, <3>6
  <2>4. CASE ~(n <= x - i0)
    <3>1. f < l
      <4>1. f # l
        BY <1>1, <2>5, <2>4
      <4> QED
        BY <2>2, <4>1
    <3> DEFINE m == n - (x - i0)
               found == find_buffer_index_for_n(f + 1, l, m)
    <3>2. m \in Nat /\ m # 0 /\ (bf + x) + m = from + n
      BY <1>1, <2>5, <2>4
    <3>3. f + 1 \in 1..Len(sizes) /\ f + 1 <= l
      BY <3>1
    <3>4. Before(f + 1) + m <= Before(l) + sizes[l]
      <4>1. (bf + x) + m <= bl + y
        BY <1>1, <2>5, <3>2
      <4> QED
        BY <2>2, <3>1, <4>1
    <3> HIDE DEF m
    <3>5. PICK k \in (f + 1)..l, b \in Nat :
            /\ b = Before(k) /\ b <= Before(f + 1) + m
            /\ Before(f + 1) + m <= b + sizes[k]
            /\ found = [index |-> k - (f + 1), rest |-> (Before(f + 1) + m) - b]
      BY <3>2, <3>3, <3>4, IndexFound
    <3>6. Before(f + 1) + m = from + n
      <4>1. Before(f + 1) = bf + x
        BY <2>2, <3>1
      <4> QED
        BY <3>2, <4>1
    <3>7. /\ b <= from + n /\ from + n <= b + sizes[k]
          /\ found.index = k - (f + 1) /\ found.rest = (from + n) - b
      <4> HIDE DEF found
      <4>1. b <= from + n
        BY <3>5, <3>6, Zenon
      <4>2. from + n <= b + sizes[k]
        BY <3>5, <3>6, Zenon
      <4>3. found = [index |-> k - (f + 1), rest |-> (from + n) - b]
        BY <3>5, <3>6, Zenon
      <4> QED
        BY <4>1, <4>2, <4>3
    <3>8. s.first + s.size - 1 = l /\ s.first + 1 = f + 1
      BY <2>2
    <3>9. prefix(s, n) = Span(f, found.index + 2, i0, found.rest)
      <4>1. found = find_buffer_index_for_n(s.first + 1, s.first + s.size - 1,
                                            n - (sizes[s.first] - s.i0))
        BY <2>2, <3>8 DEF m
      <4> HIDE DEF found
      <4> QED
        BY <1>3, <2>2, <2>4, <4>1 DEF prefix
    <3>10. found.index + 2 = (k - f) + 1
      BY <3>7, SMTT(20)
    <3>11. k \in 1..Len(sizes) /\ f <= k /\ f # k
      BY <3>3
    <3>12. PICK z \in Nat : z = sizes[k]
      BY <3>11, BeforeTypes
    <3>13. (from + n) - b \in Nat /\ (from + n) - b <= z
      BY <1>1, <3>7, <3>12, SMTT(20)
    <3>14. Stands(Span(f, (k - f) + 1, i0, (from + n) - b), Before(f) + i0,
                  Before(k) + ((from + n) - b))
      BY <2>2, <3>11, <3>12, <3>13, SpanStands
    <3>15. Before(k) + ((from + n) - b) = from + n
      <4>1. b + ((from + n) - b) = from + n
        BY <1>1
      <4> QED
        BY <3>5, <4>1
    <3>16. Before(f) + i0 = from
      BY <2>2
    <3> HIDE DEF found
    <3> QED
      BY <3>7, <3>9, <3>10, <3>14, <3>15, <3>16
  <2> QED
    BY <2>3, <2>4
<1> QED
  BY <1>2, <1>3


(* suffix(n) stands for the last n bytes, of up to two buffers.            *)
LEMMA SuffixStands ==
  ASSUME sizes \in Seq(Nat), NEW s, NEW from, NEW to, Stands(s, from, to),
         s.size <= 2, NEW n \in 0..(to - from)
  PROVE  Stands(suffix(s, n), to - n, to)
<1>1. from \in Nat /\ to \in Nat /\ n \in Nat /\ n <= to - from
  BY DEF Stands
<1>2. CASE s.size = 0
  <2>1. suffix(s, n) = s /\ to - n = from /\ from = to
    BY <1>1, <1>2 DEF suffix, Stands
  <2> QED
    BY <2>1
<1>3. CASE s.size # 0
  <2>1. PICK f \in 1..Len(sizes), l \in 1..Len(sizes), bf \in Nat, bl \in Nat,
             x \in Nat, y \in Nat, i0 \in Nat, iN \in Nat :
          Reaches(s, from, to, f, l, bf, bl, x, y, i0, iN)
    BY <1>3, StandsTypes
  <2>2. /\ s.first = f /\ s.size = (l - f) + 1 /\ s.i0 = i0 /\ s.iN = iN
        /\ f <= l /\ bf = Before(f) /\ bl = Before(l) /\ x = sizes[f] /\ y = sizes[l]
        /\ from = bf + i0 /\ to = bl + iN
        /\ f < l => Before(f + 1) = bf + x
    BY <2>1 DEF Reaches
  <2>3. /\ i0 <= x /\ iN <= y /\ from = bf + i0 /\ to = bl + iN
        /\ f = l => bf = bl /\ x = y
    BY <2>1, Zenon DEF Reaches
  <2>4. CASE n <= iN /\ (f = l => n <= iN - i0)
    <3>1. suffix(s, n) = Span(l, 1, iN - n, iN)
      <4>1. CASE s.size = 1
        <5>1. (l - f) + 1 = 1
          BY <2>2, <4>1
        <5>2. f = l
          BY <5>1
        <5>3. s.first = l /\ n <= s.iN - s.i0
          BY <2>2, <2>4, <5>2
        <5>4. suffix(s, n) = Span(s.first, 1, s.iN - n, s.iN)
          BY <4>1, <5>3 DEF suffix
        <5> QED
          BY <2>2, <5>3, <5>4
      <4>2. CASE s.size # 1
        <5>1. s.size > 1 /\ s.first + s.size - 1 = l
          BY <1>3, <2>2, <4>2
        <5> QED
          BY <1>3, <2>2, <2>4, <4>2, <5>1 DEF suffix
      <4> QED
        BY <4>1, <4>2
    <3>2. (l - l) + 1 = 1 /\ iN - n \in Nat /\ iN - n <= y /\ iN - n <= iN /\ l <= l
      BY <1>1, <2>3, <2>4
    <3>3. iN - n <= sizes[l] /\ iN <= sizes[l]
      BY <2>2, <2>3, <3>2
    <3>4. Stands(Span(l, (l - l) + 1, iN - n, iN), Before(l) + (iN - n), Before(l) + iN)
      BY <3>2, <3>3, SpanStands
    <3>5. bl + (iN - n) = (bl + iN) - n
      BY <1>1
    <3>6. Stands(Span(l, 1, iN - n, iN), (bl + iN) - n, bl + iN)
      BY <2>2, <3>2, <3>4, <3>5
    <3> QED
      BY <2>3, <3>1, <3>6
  <2>5. CASE ~(n <= iN /\ (f = l => n <= iN - i0))
    <3>1. f # l
      BY <1>1, <2>3, <2>5
    <3>2. l = f + 1 /\ s.size = 2
      BY <2>2, <3>1
    <3>3. ~(n <= iN)
      BY <2>5, <3>1
    <3>4. bl = bf + x
      BY <2>2, <3>2
    <3>5. /\ n - iN \in Nat /\ n - iN <= x - i0
          /\ x - (n - iN) \in Nat /\ x - (n - iN) <= x
          /\ bf + (x - (n - iN)) = to - n
          /\ i0 + (x - i0) - (n - iN) = x - (n - iN)
      BY <1>1, <2>3, <3>3, <3>4
    <3>6. suffix(s, n) = Span(f, 2, x - (n - iN), iN)
      <4> DEFINE Left(i) == n - s.iN - (Before(s.first + s.size - 1) - Before(s.first + i + 1))
                 inner == {i \in 1..(s.size - 2) : 0 <= Left(i) /\ Left(i) <= sizes[s.first]}
      <4>1. inner = {}
        BY <3>2
      <4>2. Left(0) = n - iN
        <5>1. s.first + s.size - 1 = l /\ s.first + 0 + 1 = l
          BY <2>2, <3>2
        <5>2. Left(0) = n - iN - (bl - bl)
          BY <2>2, <5>1
        <5> QED
          BY <1>1, <5>2
      <4>3. /\ ~(s.size = 0) /\ ~(s.size = 1) /\ ~(s.size > 1 /\ n <= s.iN)
            /\ ~(s.size > 1 /\ n > s.iN /\ inner # {})
        BY <2>2, <3>2, <3>3, <4>1
      <4>4. 0 <= Left(0) /\ Left(0) <= sizes[s.first] - s.i0
        BY <2>2, <3>5, <4>2
      <4>5. suffix(s, n) = Span(s.first, s.size, s.i0 + (sizes[s.first] - s.i0) - Left(0), s.iN)
        BY <4>3, <4>4 DEF suffix
      <4> HIDE DEF Left
      <4> QED
        BY <2>2, <3>2, <3>5, <4>2, <4>5
    <3>7. /\ (l - f) + 1 = 2 /\ x - (n - iN) <= sizes[f] /\ iN <= sizes[l]
      BY <2>2, <2>3, <3>2, <3>5
    <3>8. Stands(Span(f, (l - f) + 1, x - (n - iN), iN),
                 Before(f) + (x - (n - iN)), Before(l) + iN)
      BY <2>2, <3>1, <3>5, <3>7, SpanStands
    <3>9. Before(f) + (x - (n - iN)) = to - n /\ Before(l) + iN = to
      BY <2>2, <3>5
    <3> QED
      BY <3>6, <3>7, <3>8, <3>9
  <2> QED
    BY <2>4, <2>5
<1> QED
  BY <1>2, <1>3


-----------------------------------------------------------------------------
(* Every subspan that is made by cutting has the bytes it should have.     *)
LEMMA InitSpan == SpanInit => sizes \in Seq(Nat) /\ Stands(subspan, interval[1], interval[2])
<1> SUFFICES ASSUME SpanInit
             PROVE  sizes \in Seq(Nat) /\ Stands(subspan, interval[1], interval[2])
  OBVIOUS
<1>1. /\ sizes \in Seq(Nat) /\ subspan = WholeSpan(sizes)
      /\ interval = <<0, buffer_size(subspan)>>
  BY ShapesAssumption DEF SpanInit
<1>2. interval[1] = 0 /\ interval[2] = buffer_size(subspan)
  BY <1>1
<1>3. CASE sizes = <<>>
  <2>1. Len(sizes) = 0
    BY <1>3
  <2>2. subspan = [first |-> 1, size |-> 0, i0 |-> 0, iN |-> 0]
    BY <1>1, <1>3, <2>1 DEF WholeSpan
  <2>3. buffer_size(subspan) = 0
    BY <2>2 DEF buffer_size
  <2> QED
    BY <1>1, <1>2, <2>2, <2>3 DEF Stands
<1>4. CASE sizes # <<>>
  <2>1. Len(sizes) \in Nat \ {0}
    BY <1>1, <1>4
  <2>2. 1 \in 1..Len(sizes) /\ Len(sizes) \in 1..Len(sizes) /\ 1 <= Len(sizes)
    BY <2>1
  <2>3. subspan = [first |-> 1, size |-> Len(sizes), i0 |-> 0, iN |-> sizes[Len(sizes)]]
    BY <1>1, <1>4 DEF WholeSpan
  <2>4. PICK bl \in Nat, x \in Nat, y \in Nat :
          bl = Before(Len(sizes)) /\ x = sizes[1] /\ y = sizes[Len(sizes)]
    BY <1>1, <2>2, BeforeTypes
  <2>5. Before(1) = 0
    BY <1>1, BeforeTypes
  <2>6. Stands(subspan, 0, bl + y)
    <3>1. subspan \in [first : Nat, size : Nat, i0 : Nat, iN : Nat]
      BY <2>1, <2>3, <2>4
    <3>2. /\ subspan.size = Len(sizes) /\ subspan.size # 0 /\ subspan.first = 1
          /\ subspan.first + subspan.size - 1 = Len(sizes)
          /\ subspan.i0 = 0 /\ subspan.iN = y
      BY <2>1, <2>3, <2>4
    <3>3. 0 <= x /\ y <= y /\ 0 <= bl + y /\ bl + y \in Nat
      OBVIOUS
    <3>4. subspan.i0 <= sizes[subspan.first]
          /\ subspan.iN <= sizes[subspan.first + subspan.size - 1]
      BY <2>4, <3>2, <3>3
    <3>5. 0 = Before(subspan.first) + subspan.i0
      BY <2>5, <3>2
    <3>6. bl + y = Before(subspan.first + subspan.size - 1) + subspan.iN
      BY <2>4, <3>2
    <3> QED
      BY <2>2, <3>1, <3>2, <3>3, <3>4, <3>5, <3>6 DEF Stands
  <2>7. buffer_size(subspan) = bl + y
    <3>1. buffer_size(subspan) = (bl + y) - 0
      BY <1>1, <2>6, SizeCounts
    <3> QED
      BY <3>1
  <2> QED
    BY <1>1, <1>2, <2>6, <2>7
<1> QED
  BY <1>3, <1>4

(* prefix, whatever the number of buffers.                                 *)
LEMMA PrefixStep ==
  ASSUME sizes \in Seq(Nat), Stands(subspan, interval[1], interval[2]), TakePrefix
  PROVE  Stands(subspan, interval[1], interval[2])' /\ sizes' = sizes
<1>1. PICK n \in 0..buffer_size(subspan) :
        Cut(prefix(subspan, n), interval[1], interval[1] + n)
  BY DEF TakePrefix
<1>2. buffer_size(subspan) = interval[2] - interval[1]
  BY SizeCounts
<1>3. Stands(prefix(subspan, n), interval[1], interval[1] + n)
  BY <1>1, <1>2, PrefixStands
<1>4. subspan' = prefix(subspan, n) /\ interval' = <<interval[1], interval[1] + n>>
      /\ sizes' = sizes
  BY <1>1 DEF Cut
<1>5. interval'[1] = interval[1] /\ interval'[2] = interval[1] + n
  BY <1>4
<1> HIDE DEF Stands
<1>6. Stands(subspan, interval[1], interval[2])'
  BY <1>3, <1>4, <1>5 DEF Stands, Before
<1> QED
  BY <1>4, <1>6

(* suffix, of up to two buffers.                                           *)
LEMMA SuffixStep ==
  ASSUME sizes \in Seq(Nat), Stands(subspan, interval[1], interval[2]),
         subspan.size <= 2, TakeSuffix
  PROVE  Stands(subspan, interval[1], interval[2])' /\ sizes' = sizes
<1>1. PICK n \in 0..buffer_size(subspan) :
        Cut(suffix(subspan, n), interval[2] - n, interval[2])
  BY DEF TakeSuffix
<1>2. buffer_size(subspan) = interval[2] - interval[1]
  BY SizeCounts
<1>3. Stands(suffix(subspan, n), interval[2] - n, interval[2])
  BY <1>1, <1>2, SuffixStands
<1>4. subspan' = suffix(subspan, n) /\ interval' = <<interval[2] - n, interval[2]>>
      /\ sizes' = sizes
  BY <1>1 DEF Cut
<1>5. interval'[1] = interval[2] - n /\ interval'[2] = interval[2]
  BY <1>4
<1>6. Stands(subspan, interval[1], interval[2])'
  BY <1>3, <1>4, <1>5 DEF Stands, Before
<1> QED
  BY <1>4, <1>6

(* without_prefix, which is a suffix of the rest.                          *)
LEMMA DropStep ==
  ASSUME sizes \in Seq(Nat), Stands(subspan, interval[1], interval[2]),
         subspan.size <= 2, DropPrefix
  PROVE  Stands(subspan, interval[1], interval[2])' /\ sizes' = sizes
<1> DEFINE from(n) == IF interval[1] + n <= interval[2] THEN interval[1] + n
                      ELSE interval[2]
           rest(n) == IF n <= buffer_size(subspan) THEN buffer_size(subspan) - n ELSE 0
<1>1. PICK n \in 0..buffer_size(subspan) + 1 :
        Cut(without_prefix(subspan, n), from(n), interval[2])
  BY DEF DropPrefix
<1>2. /\ buffer_size(subspan) = interval[2] - interval[1]
      /\ interval[1] \in Nat /\ interval[2] \in Nat /\ interval[1] <= interval[2]
  BY SizeCounts DEF Stands
<1>3. n \in Nat /\ rest(n) \in 0..(interval[2] - interval[1])
      /\ interval[2] - rest(n) = from(n)
  <2>1. PICK a \in Nat, b \in Nat : a = interval[1] /\ b = interval[2] /\ a <= b
    BY <1>2
  <2>2. n \in Nat
    BY <1>2, <2>1
  <2>3. rest(n) = (IF n <= b - a THEN (b - a) - n ELSE 0)
        /\ from(n) = (IF a + n <= b THEN a + n ELSE b)
    BY <1>2, <2>1
  <2> HIDE DEF rest, from
  <2> QED
    BY <2>1, <2>2, <2>3, SMTT(20)
<1>4. without_prefix(subspan, n) = suffix(subspan, rest(n))
  BY DEF without_prefix
<1> HIDE DEF rest, from
<1>5. Stands(suffix(subspan, rest(n)), interval[2] - rest(n), interval[2])
  BY <1>3, SuffixStands
<1>6. /\ subspan' = suffix(subspan, rest(n)) /\ interval' = <<from(n), interval[2]>>
      /\ sizes' = sizes
  BY <1>1, <1>4 DEF Cut
<1>7. interval'[1] = interval[2] - rest(n) /\ interval'[2] = interval[2]
  BY <1>3, <1>6
<1>8. Stands(subspan, interval[1], interval[2])'
  BY <1>5, <1>6, <1>7 DEF Stands, Before
<1> QED
  BY <1>6, <1>8

(* Every step keeps the invariant.                                         *)
LEMMA NextSpan == SpanInv /\ [SpanNext]_spanVars => SpanInv'
<1> SUFFICES ASSUME SpanInv, [SpanNext]_spanVars PROVE SpanInv'
  OBVIOUS
<1>1. sizes \in Seq(Nat) /\ sizes' = sizes
  BY DEF SpanInv, SpanNext, TakePrefix, TakeSuffix, DropPrefix, Cut, spanVars
<1>2. SUFFICES ASSUME Len(sizes) <= 2
               PROVE  Stands(subspan, interval[1], interval[2])'
  BY <1>1 DEF SpanInv
<1>3. Stands(subspan, interval[1], interval[2])
  BY <1>2 DEF SpanInv
<1>4. subspan.size <= 2
  <2>1. Len(sizes) \in Nat
    BY <1>1
  <2> QED
    BY <1>2, <1>3, <2>1 DEF Stands
<1>5. CASE TakePrefix
  BY <1>1, <1>3, <1>5, PrefixStep
<1>6. CASE TakeSuffix
  BY <1>1, <1>3, <1>4, <1>6, SuffixStep
<1>7. CASE DropPrefix
  BY <1>1, <1>3, <1>4, <1>7, DropStep
<1>8. CASE UNCHANGED spanVars
  BY <1>3, <1>8 DEF spanVars, Stands, Before
<1> QED
  BY <1>5, <1>6, <1>7, <1>8 DEF SpanNext

(* The invariant holds after any sequence of cuts.                         *)
LEMMA SpanInvariant == SpanSpec => []SpanInv
<1>1. SpanInit => SpanInv
  BY InitSpan DEF SpanInv
<1> QED
  BY <1>1, NextSpan, PTL DEF SpanSpec

(* Cut in any order with prefix, suffix and without_prefix, a subspan of   *)
(* one or two buffers of any sizes has the bytes it should have.           *)
THEOREM SubspanHasItsBytesHolds == SpanSpec => []SubspanHasItsBytes
<1>1. SpanInv => SubspanHasItsBytes
  <2> SUFFICES ASSUME sizes \in Seq(Nat), Stands(subspan, interval[1], interval[2])
      PROVE  IF interval[1] = interval[2]
               THEN buffer_size(subspan) = 0
               ELSE /\ interval[1] = Before(subspan.first) + subspan.i0
                    /\ interval[2] = Before(subspan.first + subspan.size - 1) + subspan.iN
    BY DEF SpanInv, SubspanHasItsBytes
  <2>1. buffer_size(subspan) = interval[2] - interval[1] /\ interval[1] \in Nat
    BY SizeCounts DEF Stands
  <2>2. CASE interval[1] = interval[2]
    BY <2>1, <2>2
  <2>3. CASE interval[1] # interval[2]
    BY <2>3 DEF Stands
  <2> QED
    BY <2>2, <2>3
<1> QED
  BY <1>1, SpanInvariant, PTL

(* Cut with prefix only, a subspan of any number of buffers has the bytes  *)
(* it should have: what suffix breaks from three buffers on, prefix does   *)
(* right.                                                                  *)
THEOREM PrefixHasItsBytes ==
  SpanInit /\ [][TakePrefix]_spanVars => []Stands(subspan, interval[1], interval[2])
<1> DEFINE Inv == sizes \in Seq(Nat) /\ Stands(subspan, interval[1], interval[2])
<1>1. SpanInit => Inv
  BY InitSpan
<1>2. Inv /\ [TakePrefix]_spanVars => Inv'
  <2> SUFFICES ASSUME Inv, [TakePrefix]_spanVars PROVE Inv'
    OBVIOUS
  <2>1. CASE TakePrefix
    BY <2>1, PrefixStep
  <2>2. CASE UNCHANGED spanVars
    BY <2>2 DEF spanVars, Stands, Before
  <2> QED
    BY <2>1, <2>2
<1>3. Inv => Stands(subspan, interval[1], interval[2])
  OBVIOUS
<1> QED
  BY <1>1, <1>2, <1>3, PTL

(***************************************************************************)
(* Deferred.                                                               *)
(***************************************************************************)

(* While nothing undefined was done emplaced_ names the living member, and *)
(* there is none where the constructor threw.                              *)
FlagInv ==
  Defined =>
    \A p \in exists :
      alive[p] = IF p \in threw THEN "none"
                 ELSE IF emplaced[p] THEN "value" ELSE "args"

DeferredInv ==
  /\ alive \in [Places -> {"none", "args", "value"}]
  /\ emplaced \in [Places -> BOOLEAN]
  /\ exists \subseteq Places
  /\ FlagInv
  /\ DestroysWhatIsAlive

LEMMA DeferredNextInv == DeferredInv /\ [DeferredNext]_deferredVars => DeferredInv'
<1> SUFFICES ASSUME DeferredInv, [DeferredNext]_deferredVars PROVE DeferredInv'
  OBVIOUS
<1> USE DEF DeferredInv, FlagInv, DestroysWhatIsAlive, Defined
<1>1. ASSUME Defined, NEW p \in Places, Make(p) PROVE DeferredInv'
  BY <1>1 DEF Make, Begin
<1>2. ASSUME Defined, NEW p \in Places, NEW q \in Places, Copy(p, q) PROVE DeferredInv'
  BY <1>2 DEF Copy, Begin
<1>3. ASSUME Defined, NEW p \in Places, Call(p) PROVE DeferredInv'
  BY <1>3 DEF Call
<1>4. ASSUME Defined, NEW p \in Places, End(p) PROVE DeferredInv'
  BY <1>4 DEF End
<1>5. CASE UNCHANGED deferredVars
  BY <1>5 DEF deferredVars
<1> QED
  BY <1>1, <1>2, <1>3, <1>4, <1>5 DEF DeferredNext

(* For any places and any sequence of constructions, copies, moves, calls  *)
(* and destructions, a destructor destroys a dead member only where the    *)
(* constructor of the value threw.                                         *)
THEOREM DestroysWhatIsAliveHolds == DeferredSpec => []DestroysWhatIsAlive
<1>1. DeferredInit => DeferredInv
  BY DEF DeferredInit, DeferredInv, FlagInv, DestroysWhatIsAlive
<1>2. DeferredInv => DestroysWhatIsAlive
  BY DEF DeferredInv
<1> QED
  BY <1>1, <1>2, DeferredNextInv, PTL DEF DeferredSpec

=============================================================================
