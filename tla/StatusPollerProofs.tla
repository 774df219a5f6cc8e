------------------------- MODULE StatusPollerProofs -------------------------
(***************************************************************************)
(* Theorems about StatusPoller, for any number of shipments, any limit,    *)
(* any statuses and any state machine.                                     *)
(***************************************************************************)
EXTENDS StatusPoller, TLAPS, FiniteSetTheorems, WellFoundedInduction

USE DEF task, others

-----------------------------------------------------------------------------
(* Types.                                                                  *)

\* The end of the loop body leaves the task in a consistent state.
LEMMA NextShipmentTypes ==
    ASSUME TypeOK, NEW n \in Row, IsCurrent(n), NextShipment(n)
    PROVE  /\ pc' \in {"idle", "load"}
           /\ batch' \subseteq Row
           /\ pc' = "idle" <=> batch' = {}
           /\ copy' = None /\ report' = None /\ attempt' \in 0 .. MaxRetries - 1
BY ConstantsAssumption DEF TypeOK, IsCurrent, NextShipment

\* The steps around the batch keep the types.
LEMMA AroundTypes ==
    ASSUME TypeOK, (\E n \in Row : Around(n)) \/ LateRaises
    PROVE  TypeOK'
<1> USE ConstantsAssumption DEF TypeOK
<1>1. ASSUME NEW n \in Row, ParcelMoves(n) PROVE TypeOK'
  BY <1>1 DEF ParcelMoves
<1>2. ASSUME NEW n \in Row, Callback(n) PROVE TypeOK'
  BY <1>2 DEF Callback, Write
<1>3. ASSUME NEW n \in Row, Delete(n) PROVE TypeOK'
  BY <1>3 DEF Delete
<1>4. ASSUME NEW n \in Row, LateLoad(n) PROVE TypeOK'
  BY <1>4 DEF LateLoad
<1>5. ASSUME NEW n \in Row, LateUpdate(n) \/ StaffSave(n) PROVE TypeOK'
  <2>1. row' \in [Row -> Status \cup {None}]
    <3>1. CASE LateUpdate(n)
      BY <3>1 DEF LateUpdate, Write
    <3>2. CASE StaffSave(n)
      BY <3>2 DEF StaffSave
    <3> QED BY <1>5, <3>1, <3>2
  <2> QED BY <1>5, <2>1 DEF LateUpdate, StaffSave, NoLate
<1>6. CASE LateRaises
  BY <1>6 DEF LateRaises, NoLate
<1> QED BY <1>1, <1>2, <1>3, <1>4, <1>5, <1>6 DEF Around

\* The steps of the batch keep the types.
LEMMA TaskTypes ==
    ASSUME TypeOK, Task
    PROVE  TypeOK'
<1> USE ConstantsAssumption DEF TypeOK
<1>1. CASE SelectBatch
  BY <1>1 DEF SelectBatch, Oldest, Candidates
<1>2. ASSUME NEW n \in Row, Load(n) PROVE TypeOK'
  BY <1>2 DEF Load, Exists
<1>3. ASSUME NEW n \in Row, LoadRaises(n) PROVE TypeOK'
  BY <1>3 DEF LoadRaises
<1>4. ASSUME NEW n \in Row, Fetch(n) PROVE TypeOK'
  BY <1>4 DEF Fetch
<1>5. ASSUME NEW n \in Row, Save(n) \/ NoNews(n) PROVE TypeOK'
  BY <1>5, NextShipmentTypes DEF Save, NoNews, Write
<1>6. ASSUME NEW n \in Row, NEW instance \in Status, IsCurrent(n), AfterFailure(n, instance)
      PROVE  /\ attempt' \in 0 .. MaxRetries - 1 /\ pc' \in {"idle", "load", "fetch"}
             /\ batch' \subseteq Row /\ copy' \in Status \cup {None} /\ report' = None
             /\ pc' = "idle" <=> batch' = {}
             /\ pc' = "fetch" <=> copy' # None
  <2>1. CASE NextShipment(n)
    BY <1>6, <2>1, NextShipmentTypes DEF NextShipment
  <2>2. CASE ~NextShipment(n)
    BY <1>6, <2>2 DEF AfterFailure, IsCurrent
  <2> QED BY <2>1, <2>2
<1>7. ASSUME NEW n \in Row, Raises(n) PROVE TypeOK'
  <2>1. copy \in Status
    BY <1>7 DEF Raises
  <2> QED BY <1>6, <1>7, <2>1 DEF Raises
<1>8. ASSUME NEW n \in Row, RaisesMoved(n) PROVE TypeOK'
  <2>1. report \in Status
    BY <1>8 DEF RaisesMoved
  <2>2. row' \in [Row -> Status \cup {None}]
    BY <1>8, <2>1 DEF RaisesMoved, Write
  <2> QED BY <1>6, <1>8, <2>1, <2>2 DEF RaisesMoved
<1> QED BY <1>1, <1>2, <1>3, <1>4, <1>5, <1>7, <1>8 DEF Task, Poll

\* Every step keeps the types.
LEMMA TypesStep == TypeOK /\ [Next]_vars => TypeOK'
<1> SUFFICES ASSUME TypeOK, [Next]_vars PROVE TypeOK'
  OBVIOUS
<1>1. CASE Die
  BY <1>1, ConstantsAssumption DEF Die, TypeOK
<1>2. CASE UNCHANGED vars
  BY <1>2 DEF vars, TypeOK
<1> QED BY <1>1, <1>2, AroundTypes, TaskTypes DEF Next

\* The type invariant holds in every reachable state.
THEOREM TypeCorrect == Spec => []TypeOK
<1>1. Init => TypeOK
  BY ConstantsAssumption DEF Init, TypeOK, NoLate
<1> QED BY <1>1, TypesStep, PTL DEF Spec

-----------------------------------------------------------------------------
(* What a batch reaches.                                                   *)

\* While a batch runs, it has asked about everything it is through with, which
\* is all the older part of what it selected, and about nothing still to come.
BatchInv ==
    /\ batch \subseteq selected
    /\ polled \subseteq selected
    /\ pc # "idle" => selected \ batch \subseteq polled
    /\ pc = "save" => \A n \in Row : IsCurrent(n) => n \in polled
    /\ \A n \in batch \cap polled : pc # "load" /\ IsCurrent(n)
    /\ \A m \in selected \ batch : \A n \in batch : m < n
    /\ BatchStopsOnlyAtALoad

\* The loop is at one shipment.
LEMMA OneCurrent ==
    ASSUME NEW m \in Row, NEW n \in Row, IsCurrent(m), IsCurrent(n)
    PROVE  m = n
BY DEF IsCurrent, Row

\* The loop goes on only when it has asked about the current shipment.
LEMMA NextShipmentReaches ==
    ASSUME TypeOK, BatchInv, pc # "idle",
           NEW n \in Row, IsCurrent(n), NextShipment(n), n \in polled',
           polled' \subseteq polled \cup {n}, polled \subseteq polled', selected' = selected
    PROVE  BatchInv'
<1> USE DEF BatchInv
<1>1. /\ batch' \subseteq selected' /\ polled' \subseteq selected'
      /\ selected' \ batch' \subseteq polled'
  BY DEF NextShipment, IsCurrent
<1>2. pc' # "save"
  BY DEF NextShipment
<1>3. BatchStopsOnlyAtALoad'
  BY <1>1 DEF NextShipment, IsCurrent, BatchStopsOnlyAtALoad
<1>4. batch' \cap polled' = {}
  <2>1. \A m \in batch \cap polled : m = n
    BY OneCurrent DEF TypeOK
  <2> QED BY <2>1 DEF NextShipment
<1>5. \A m \in selected' \ batch' : \A k \in batch' : m < k
  <2>1. \A k \in batch' : n < k
    BY DEF NextShipment, IsCurrent, TypeOK, Row
  <2> QED BY <2>1 DEF NextShipment
<1> QED BY <1>1, <1>2, <1>3, <1>4, <1>5

\* A failure keeps BatchInv, and so does every attempt after it.
LEMMA AfterFailureReaches ==
    ASSUME TypeOK, BatchInv, pc # "idle", NEW instance,
           NEW n \in Row, IsCurrent(n), AfterFailure(n, instance), n \in polled',
           polled' \subseteq polled \cup {n}, polled \subseteq polled', selected' = selected
    PROVE  BatchInv'
<1>1. CASE NextShipment(n)
  BY <1>1, NextShipmentReaches
<1>2. CASE ~NextShipment(n)
  <2>1. pc' = "fetch" /\ batch' = batch
    BY <1>2 DEF AfterFailure
  <2>2. \A m \in batch' \cap polled' : IsCurrent(m)'
    BY <2>1 DEF BatchInv, IsCurrent
  <2> QED BY <2>1, <2>2 DEF BatchInv, BatchStopsOnlyAtALoad, IsCurrent
<1> QED BY <1>1, <1>2

\* Every step keeps BatchInv.
LEMMA BatchStep == TypeOK /\ TypeOK' /\ BatchInv /\ [Next]_vars => BatchInv'
<1> SUFFICES ASSUME TypeOK, TypeOK', BatchInv, [Next]_vars PROVE BatchInv'
  OBVIOUS
<1>1. ASSUME UNCHANGED task PROVE BatchInv'
  BY <1>1 DEF BatchInv, BatchStopsOnlyAtALoad, IsCurrent, TypeOK
<1>2. CASE SelectBatch
  BY <1>2 DEF SelectBatch, BatchInv, BatchStopsOnlyAtALoad, TypeOK
<1>3. ASSUME NEW n \in Row, Load(n) PROVE BatchInv'
  BY <1>3 DEF Load, BatchInv, BatchStopsOnlyAtALoad, TypeOK
<1>4. ASSUME NEW n \in Row, LoadRaises(n) PROVE BatchInv'
  <2>1. /\ n \in selected /\ selected \ batch \subseteq polled
        /\ \A m \in polled : m \in selected \ batch /\ m < n
    BY <1>4 DEF LoadRaises, BatchInv, IsCurrent
  <2>2. \A m \in selected : m < n => m \notin batch
    BY <1>4 DEF LoadRaises, IsCurrent, TypeOK, Row
  <2>3. polled = {m \in selected : m < n}
    BY <2>1, <2>2
  <2>4. BatchStopsOnlyAtALoad'
    BY <1>4, <2>1, <2>3 DEF LoadRaises, BatchStopsOnlyAtALoad
  <2> QED BY <1>4, <2>4 DEF LoadRaises, BatchInv
<1>5. ASSUME NEW n \in Row, Fetch(n) PROVE BatchInv'
  <2>1. \A m \in Row : IsCurrent(m)' => m = n
    BY <1>5, OneCurrent DEF Fetch, IsCurrent
  <2> QED BY <1>5, <2>1 DEF Fetch, BatchInv, BatchStopsOnlyAtALoad, IsCurrent
<1>6. ASSUME NEW n \in Row, Save(n) PROVE BatchInv'
  <2>1. n \in polled'
    BY <1>6 DEF Save, BatchInv
  <2> QED BY <1>6, <2>1, NextShipmentReaches DEF Save
<1>7. ASSUME NEW n \in Row, NoNews(n) PROVE BatchInv'
  BY <1>7, NextShipmentReaches DEF NoNews
<1>8. ASSUME NEW n \in Row, Raises(n) PROVE BatchInv'
  BY <1>8, AfterFailureReaches DEF Raises
<1>9. ASSUME NEW n \in Row, RaisesMoved(n) PROVE BatchInv'
  <2>1. n \in polled'
    BY <1>9 DEF RaisesMoved, BatchInv
  <2> QED BY <1>9, <2>1, AfterFailureReaches DEF RaisesMoved
<1>10. CASE Die
  BY <1>10 DEF Die, BatchInv, BatchStopsOnlyAtALoad
<1>11. ASSUME NEW n \in Row, Around(n) PROVE UNCHANGED task
  BY <1>11 DEF Around, ParcelMoves, Callback, Delete, LateLoad, LateUpdate, StaffSave
<1>12. CASE LateRaises \/ UNCHANGED vars
  BY <1>12, <1>1 DEF LateRaises, vars
<1> QED BY <1>1, <1>2, <1>3, <1>4, <1>5, <1>6, <1>7, <1>8, <1>9, <1>10, <1>11, <1>12
        DEF Next, Task, Poll

\* A batch that has ended asked about all it selected, or stopped at a load and
\* asked about all older ones: however often the polls of a shipment fail, that
\* never costs the others their turn.
THEOREM BatchesStopOnlyAtLoads == Spec => []BatchStopsOnlyAtALoad
<1>1. Init => BatchInv
  BY DEF Init, BatchInv, BatchStopsOnlyAtALoad
<1>2. BatchInv => BatchStopsOnlyAtALoad
  BY DEF BatchInv
<1> QED BY <1>1, <1>2, BatchStep, TypeCorrect, PTL DEF Spec

-----------------------------------------------------------------------------
(* What a batch selects.                                                   *)

\* There are finitely many shipments.
LEMMA RowsAreFinite ==
    ASSUME NEW S \in SUBSET Row PROVE IsFiniteSet(S) /\ Cardinality(S) \in Nat
<1>1. IsFiniteSet(Row)
  BY FS_Interval, ConstantsAssumption DEF Row
<1>2. IsFiniteSet(S)
  BY <1>1, FS_Subset
<1> QED BY <1>2, FS_CardinalityType

\* A shipment with few enough older ones before it is among the oldest.
LEMMA OldestTakesIn ==
    ASSUME NEW S \in SUBSET Row, NEW n \in S, NEW T \in SUBSET Row, Cardinality(T) < Limit,
           \A m \in S : m < n => m \in T
    PROVE  n \in Oldest(S)
<1> DEFINE older == {m \in S : m < n}
<1>1. older \subseteq T /\ IsFiniteSet(T)
  BY RowsAreFinite
<1>2. Cardinality(older) <= Cardinality(T)
  BY <1>1, FS_Subset
<1>3. Cardinality(older) \in Nat /\ Cardinality(T) \in Nat /\ Limit \in Nat
  BY RowsAreFinite, ConstantsAssumption
<1> QED BY <1>2, <1>3 DEF Oldest

\* Every set of shipments that is not empty has a youngest one.
LEMMA YoungestExists ==
    ASSUME NEW S \in SUBSET Row, S # {} PROVE \E n \in S : \A m \in S : m <= n
<1> DEFINE LT == OpToRel(<, Nat)
           age == {N - n : n \in S}
<1>1. age \subseteq Nat /\ age # {}
  <2>1. \A n \in S : n \in 1 .. N /\ N - n \in Nat
    BY ConstantsAssumption DEF Row
  <2> QED BY <2>1
<1>2. PICK a \in age : \A b \in age : ~(<<b, a>> \in LT)
  <2>1. IsWellFoundedOn(LT, Nat)
    BY NatLessThanWellFounded
  <2> HIDE DEF LT, age
  <2> QED BY <1>1, <2>1, WFMin
<1>3. PICK n \in S : a = N - n
  OBVIOUS
<1>4. ASSUME NEW m \in S PROVE m <= n
  <2>1. N - m \in Nat /\ a \in Nat /\ N - m \in age /\ m \in Int /\ n \in Int
    BY ConstantsAssumption DEF Row
  <2>2. ~(N - m < a)
    <3> SUFFICES ASSUME N - m < a PROVE FALSE
      OBVIOUS
    <3>1. <<N - m, a>> \in LT
      BY <2>1 DEF OpToRel
    <3> QED BY <1>2, <2>1, <3>1
  <2> QED BY <1>3, <2>1, <2>2, ConstantsAssumption
<1> QED BY <1>4

\* The oldest are at most limit: all but the youngest of them stand before it.
LEMMA OldestWithinLimit ==
    ASSUME NEW S \in SUBSET Row
    PROVE  Cardinality(Oldest(S)) <= Limit
<1> DEFINE O == Oldest(S)
<1>1. O \in SUBSET Row /\ O \subseteq S /\ Limit \in Nat \ {0}
  BY ConstantsAssumption DEF Oldest
<1>2. CASE O = {}
  BY <1>1, <1>2, FS_EmptySet
<1>3. CASE O # {}
  <2>1. PICK n \in O : \A m \in O : m <= n
    <3> HIDE DEF O
    <3> QED BY <1>1, <1>3, YoungestExists
  <2> DEFINE older == {m \in S : m < n}
  <2>2. Cardinality(older) < Limit /\ older \in SUBSET Row
    BY <1>1 DEF Oldest
  <2>3. O \ {n} \subseteq older
    BY <1>1, <2>1 DEF Row
  <2>4. /\ IsFiniteSet(older) /\ Cardinality(older) \in Nat
        /\ IsFiniteSet(O \ {n}) /\ Cardinality(O \ {n}) \in Nat
        /\ IsFiniteSet(O) /\ Cardinality(O) \in Nat
    BY <1>1, <2>2, RowsAreFinite
  <2>5. Cardinality(O \ {n}) <= Cardinality(older)
    BY <2>3, <2>4, FS_Subset
  <2>6. Cardinality(O \ {n}) = Cardinality(O) - 1
    BY <2>1, <2>4, FS_RemoveElement
  <2> QED BY <1>1, <2>2, <2>4, <2>5, <2>6
<1> QED BY <1>2, <1>3

\* As long as fewer shipments than limit are silent, the oldest pending one the
\* provider answers about is in every batch.
THEOREM SilentDoNotStarve ==
    ASSUME Cardinality(Silent) < Limit
    PROVE  Spec => OldestAnsweringIsSelected
<1> DEFINE Answering == Candidates \ Silent
           Selects == SelectBatch =>
               \A n \in Answering : (\A m \in Answering : n <= m) => n \in batch'
<1>1. Selects
  <2> SUFFICES ASSUME SelectBatch, NEW n \in Answering, \A m \in Answering : n <= m
               PROVE  n \in batch'
    OBVIOUS
  <2>1. Candidates \in SUBSET Row /\ Silent \in SUBSET Row /\ n \in Candidates
    BY ConstantsAssumption DEF Candidates
  <2>2. \A m \in Candidates : m < n => m \in Silent
    BY <2>1 DEF Row
  <2>3. n \in Oldest(Candidates)
    BY <2>1, <2>2, OldestTakesIn
  <2> QED BY <2>3 DEF SelectBatch
<1>2. Spec => [][Selects]_vars
  BY <1>1, PTL DEF Spec
<1> QED BY <1>2 DEF OldestAnsweringIsSelected

\* A batch never works on more than limit shipments.
BatchWithinLimit == Cardinality(batch) <= Limit

\* However many shipments are pending, limit holds for the whole batch.
THEOREM BatchesKeepTheLimit == Spec => []BatchWithinLimit
<1> USE DEF BatchWithinLimit
<1>1. Init => BatchWithinLimit
  BY FS_EmptySet, ConstantsAssumption DEF Init
<1>2. ASSUME TypeOK, BatchWithinLimit, [Next]_vars PROVE BatchWithinLimit'
  <2>1. CASE SelectBatch
    <3>1. Candidates \in SUBSET Row
      BY DEF Candidates
    <3> QED BY <2>1, <3>1, OldestWithinLimit DEF SelectBatch
  <2>2. ASSUME ~SelectBatch PROVE batch' \subseteq batch
    BY <1>2, <2>2 DEF Next, Task, Poll, Load, LoadRaises, Fetch, NoNews, Save, Raises,
            RaisesMoved, AfterFailure, NextShipment, Die, LateRaises, Around, ParcelMoves,
            Callback, Delete, LateLoad, LateUpdate, StaffSave, vars
  <2>3. CASE batch' \subseteq batch
    <3>1. IsFiniteSet(batch) /\ Cardinality(batch) \in Nat /\ Limit \in Nat
      BY <1>2, RowsAreFinite, ConstantsAssumption DEF TypeOK
    <3>2. Cardinality(batch') <= Cardinality(batch) /\ IsFiniteSet(batch')
      BY <2>3, <3>1, FS_Subset
    <3>3. Cardinality(batch') \in Nat
      BY <3>2, FS_CardinalityType
    <3> QED BY <1>2, <3>1, <3>2, <3>3
  <2> QED BY <2>1, <2>2, <2>3
<1> QED BY <1>1, <1>2, TypeCorrect, PTL DEF Spec
-----------------------------------------------------------------------------
(* Progress, as far as it is a matter of single steps.                     *)

\* Steps the batch may still take for its current shipment.
StepsLeft ==
    CASE pc = "load" -> 2 * MaxRetries + 1
      [] pc = "fetch" -> 2 * (MaxRetries - attempt)
      [] pc = "save" -> 2 * (MaxRetries - attempt) - 1
      [] OTHER -> 0

\* The batch is through with a shipment, or nearer to that.
Nearer ==
    \/ batch' \subseteq batch /\ batch' # batch
    \/ batch' = batch /\ StepsLeft' < StepsLeft

\* A batch comes nearer to its end with every step, whatever the world does.
BatchesAdvance ==
    [][/\ \A n \in Row : Poll(n) => Nearer
       /\ \A n \in Row : Around(n) => UNCHANGED task]_vars

\* What single steps show of LeavesPending: no batch goes on for ever, because
\* every shipment costs it at most max_retries answers.
THEOREM BatchesDoAdvance == Spec => BatchesAdvance
<1> DEFINE Advance == /\ \A n \in Row : Poll(n) => Nearer
                      /\ \A n \in Row : Around(n) => UNCHANGED task
<1>1. ASSUME TypeOK, NEW n \in Row, Poll(n) PROVE Nearer
  <2>0. attempt \in Nat /\ MaxRetries \in Nat \ {0} /\ attempt < MaxRetries
    BY <1>1, ConstantsAssumption DEF TypeOK
  <2>1. CASE IsCurrent(n) /\ NextShipment(n)
    BY <2>1 DEF NextShipment, IsCurrent, Nearer
  <2>2. CASE Load(n) \/ LoadRaises(n)
    BY <2>0, <2>2 DEF Load, LoadRaises, IsCurrent, Nearer, StepsLeft
  <2>3. CASE Fetch(n)
    BY <2>0, <2>3 DEF Fetch, Nearer, StepsLeft
  <2>4. CASE (Raises(n) \/ RaisesMoved(n)) /\ ~NextShipment(n)
    <3>1. /\ pc \in {"fetch", "save"} /\ pc' = "fetch" /\ attempt' = attempt + 1 /\ batch' = batch
      BY <2>4 DEF Raises, RaisesMoved, AfterFailure
    <3> QED BY <2>0, <3>1 DEF Nearer, StepsLeft
  <2> QED BY <1>1, <2>1, <2>2, <2>3, <2>4 DEF Poll, Save, NoNews, Raises, RaisesMoved
<1>2. ASSUME NEW n \in Row, Around(n) PROVE UNCHANGED task
  BY <1>2 DEF Around, ParcelMoves, Callback, Delete, LateLoad, LateUpdate, StaffSave
<1>3. TypeOK => [Advance]_vars
  BY <1>1, <1>2
<1>4. Spec => [][Advance]_vars
  BY <1>3, TypeCorrect, PTL DEF Spec
<1> QED BY <1>4 DEF BatchesAdvance
=============================================================================
