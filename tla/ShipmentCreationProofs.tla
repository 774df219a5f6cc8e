----------------------- MODULE ShipmentCreationProofs -----------------------
(***************************************************************************)
(* Theorems about ShipmentCreation, for any number of calls and any        *)
(* references.                                                             *)
(***************************************************************************)
EXTENDS ShipmentCreation, TLAPS

USE ConstantsAssumption

\* The answer of a call that returns.
LEMMA Returned ==
    ASSUME TypeOK, NEW c \in Caller, NEW a, Return(c, a)
    PROVE  /\ pc'[c] = "done" /\ answer'[c] = a /\ UNCHANGED <<removed, rejected>>
           /\ \A d \in Caller : d # c => pc'[d] = pc[d] /\ answer'[d] = answer[d]
BY DEF TypeOK, Return

\* An insert that raises an IntegrityError answers a plain call with it, and
\* sends a keyed one to its second lookup.
LEMMA IntegrityRaised ==
    ASSUME TypeOK, NEW c \in Caller, IntegrityErrorIn(c), pc[c] # "done"
    PROVE  /\ UNCHANGED <<rows, removed>>
           /\ c \in Keyed => pc'[c] = "get_again" /\ answer'[c] = None /\ answer' = answer
           /\ c \notin Keyed => pc'[c] = "done" /\ answer'[c] = "IntegrityError"
           /\ \A d \in Caller : d # c => pc'[d] = pc[d] /\ answer'[d] = answer[d]
           /\ answer' \in [Caller -> Caller \cup Error \cup {None}]
           /\ pc' \in [Caller -> {"get", "create", "get_again", "done"}]
BY DEF TypeOK, IntegrityErrorIn, AfterIntegrityError, Error

\* Every variable keeps its type, and calls, answers and rows stay in step.
LEMMA TypeStep == ASSUME TypeOK, [Next]_vars PROVE TypeOK'
<1> USE DEF TypeOK
<1>1. ASSUME NEW c \in Caller, NEW a \in Caller \cup Error, Return(c, a), pc[c] # "done",
             rows' = rows, a \in Caller => ReferenceOf[a] = ReferenceOf[c]
      PROVE  TypeOK'
  <2>1. answer' \in [Caller -> Caller \cup Error \cup {None}]
        /\ pc' \in [Caller -> {"get", "create", "get_again", "done"}]
    BY <1>1 DEF Return
  <2>2. \A r \in rows : r # c
    BY <1>1
  <2> QED BY <1>1, <2>1, <2>2, Returned
<1>2. ASSUME NEW c \in Caller, Call(c) PROVE TypeOK'
  <2>1. CASE Found(c)
    BY <1>1, <2>1 DEF Found, Matching
  <2>2. CASE FoundSeveral(c)
    BY <1>1, <2>2 DEF FoundSeveral, Error
  <2>3. CASE NotFound(c)
    BY <2>3 DEF NotFound
  <2>4. CASE LostAgain(c)
    BY <1>1, <2>4 DEF LostAgain, Error
  <2>5. CASE Insert(c)
    <3>1. answer' \in [Caller -> Caller \cup Error \cup {None}]
          /\ pc' \in [Caller -> {"get", "create", "get_again", "done"}]
      BY <2>5 DEF Insert, Return
    <3>2. \A r \in rows' : answer'[r] = r
      BY <2>5, Returned DEF Insert
    <3> QED BY <2>5, <3>1, <3>2, Returned DEF Insert
  <2>6. CASE InsertConflicts(c) \/ InsertRejected(c)
    <3>1. IntegrityErrorIn(c) /\ pc[c] # "done" /\ rejected' \subseteq Caller
      BY <2>6 DEF InsertConflicts, InsertRejected
    <3>2. \A r \in rows : r # c
      BY <3>1
    <3>3. "IntegrityError" # None /\ "IntegrityError" \notin Caller
      BY DEF Error
    <3> QED BY <3>1, <3>2, <3>3, IntegrityRaised
  <2>7. CASE StatementFails(c)
    BY <1>1, <2>7 DEF StatementFails, Error
  <2> QED BY <1>2, <2>1, <2>2, <2>3, <2>4, <2>5, <2>6, <2>7 DEF Call
<1>3. ASSUME NEW r \in Caller, Delete(r) PROVE TypeOK'
  BY <1>3 DEF Delete
<1>4. CASE UNCHANGED vars
  BY <1>4 DEF vars
<1> QED BY <1>2, <1>3, <1>4 DEF Next

\* Calls, answers and rows agree in every reachable state.
THEOREM TypeCorrect == Spec => []TypeOK
<1>1. Init => TypeOK
  BY DEF Init, TypeOK
<1> QED BY <1>1, TypeStep, PTL DEF Spec

-----------------------------------------------------------------------------
(* One shipment per reference.                                             *)

\* The constraint holds; a row that was returned, or conflicted with, is there
\* unless a row of its reference was deleted; a keyed call fails only for that,
\* or because another constraint rejected its insert.
CreationInv ==
    /\ \A q, r \in rows : ReferenceOf[q] = ReferenceOf[r] /\ ReferenceOf[r] # Blank => q = r
    /\ \A c \in Caller : answer[c] \in Caller /\ ReferenceOf[c] \notin removed
                             => answer[c] \in rows
    /\ \A c \in Caller : pc[c] = "get_again" =>
           \/ c \in rejected
           \/ ReferenceOf[c] # Blank /\ (Matching(c) # {} \/ ReferenceOf[c] \in removed)
    /\ LosersGetTheShipment

\* Every step keeps the invariant.
LEMMA CreationStep == ASSUME TypeOK, CreationInv, [Next]_vars PROVE CreationInv'
<1> USE DEF CreationInv, LosersGetTheShipment, Matching
<1>1. ASSUME NEW c \in Caller, NEW a, Return(c, a), rows' = rows,
             a \in Caller => a \in rows,
             c \in Keyed /\ ReferenceOf[c] # Blank /\ a \in Error \ {"DatabaseError"}
                 => a = "DoesNotExist" /\ (ReferenceOf[c] \in removed \/ c \in rejected)
      PROVE  CreationInv'
  BY <1>1, Returned
<1>2. ASSUME NEW c \in Caller, Call(c) PROVE CreationInv'
  <2>1. CASE Found(c)
    <3>1. PICK r \in rows : Matching(c) = {r} /\ Return(c, r)
      BY <2>1 DEF Found
    <3>2. r \notin Error
      BY DEF TypeOK
    <3> QED BY <1>1, <2>1, <3>1, <3>2 DEF Found
  <2>2. CASE FoundSeveral(c)
    <3>1. ReferenceOf[c] = Blank
      BY <2>2 DEF FoundSeveral
    <3>2. "MultipleObjectsReturned" \in Error
      BY DEF Error
    <3> QED BY <1>1, <2>2, <3>1, <3>2 DEF FoundSeveral
  <2>3. CASE NotFound(c)
    BY <2>3 DEF NotFound, TypeOK
  <2>4. CASE LostAgain(c)
    <3>1. ReferenceOf[c] \in removed \/ c \in rejected
      BY <2>4 DEF LostAgain
    <3>2. "DoesNotExist" \in Error
      BY DEF Error
    <3> QED BY <1>1, <2>4, <3>1, <3>2 DEF LostAgain
  <2>5. CASE Insert(c)
    <3>1. /\ rows' = rows \cup {c}
          /\ UNCHANGED <<removed, rejected>>
          /\ pc'[c] = "done" /\ answer'[c] = c
          /\ \A d \in Caller : d # c => pc'[d] = pc[d] /\ answer'[d] = answer[d]
      BY <2>5, Returned DEF Insert
    <3>2. \A q, r \in rows' : ReferenceOf[q] = ReferenceOf[r] /\ ReferenceOf[r] # Blank => q = r
      BY <2>5, <3>1 DEF Insert, Violates
    <3>3. c \notin Error
      OBVIOUS
    <3> QED BY <3>1, <3>2, <3>3
  <2>6. CASE InsertConflicts(c) \/ InsertRejected(c)
    <3>1. IntegrityErrorIn(c) /\ pc[c] # "done" /\ rejected \subseteq rejected'
      BY <2>6 DEF InsertConflicts, InsertRejected
    <3>2. c \in rejected' \/ (ReferenceOf[c] # Blank /\ Matching(c) # {})
      BY <2>6 DEF InsertConflicts, InsertRejected, Violates
    <3>3. "IntegrityError" \notin Caller
      BY DEF Error
    <3>4. None \notin Error /\ None \notin Caller
      OBVIOUS
    <3> QED BY <3>1, <3>2, <3>3, <3>4, IntegrityRaised
  <2>7. CASE StatementFails(c)
    <3>1. "DatabaseError" \in Error
      BY DEF Error
    <3> QED BY <1>1, <2>7, <3>1 DEF StatementFails
  <2> QED BY <1>2, <2>1, <2>2, <2>3, <2>4, <2>5, <2>6, <2>7 DEF Call
<1>3. ASSUME NEW s \in Caller, Delete(s) PROVE CreationInv'
  <2>1. rows' = rows \ {s} /\ removed' = removed \cup {ReferenceOf[s]} /\ UNCHANGED <<pc, answer, rejected>>
    BY <1>3 DEF Delete
  <2>2. ASSUME NEW c \in Caller, answer[c] \in Caller, ReferenceOf[c] \notin removed'
        PROVE  answer[c] \in rows'
    <3>1. ReferenceOf[answer[c]] = ReferenceOf[c]
      BY <2>2 DEF TypeOK
    <3> QED BY <2>1, <2>2, <3>1
  <2>3. ASSUME NEW c \in Caller, pc[c] = "get_again"
        PROVE  \/ c \in rejected
               \/ ReferenceOf[c] # Blank /\ (Matching(c)' # {} \/ ReferenceOf[c] \in removed')
    BY <2>1, <2>3
  <2> QED BY <2>1, <2>2, <2>3
<1>4. CASE UNCHANGED vars
  BY <1>4 DEF vars
<1> QED BY <1>2, <1>3, <1>4 DEF Next

\* The invariant always holds.
LEMMA CreationCorrect == Spec => []CreationInv
<1>1. Init => CreationInv
  BY DEF Init, CreationInv, LosersGetTheShipment, Error
<1> QED BY <1>1, CreationStep, TypeCorrect, PTL DEF Spec

\* However calls interleave, those with one reference get one shipment.
THEOREM OneShipmentPerReference == Spec => []SameShipment
<1>1. TypeOK /\ CreationInv => SameShipment
  <2> SUFFICES ASSUME TypeOK, CreationInv, NEW c \in Caller, NEW d \in Caller,
                      answer[c] \in Caller, answer[d] \in Caller,
                      ReferenceOf[c] = ReferenceOf[d],
                      ReferenceOf[c] \notin removed \cup {Blank}
               PROVE  answer[c] = answer[d]
    BY DEF SameShipment
  <2>1. answer[c] \in rows /\ answer[d] \in rows
    BY DEF CreationInv
  <2>2. ReferenceOf[answer[c]] = ReferenceOf[c] /\ ReferenceOf[answer[d]] = ReferenceOf[d]
    BY DEF TypeOK
  <2> QED BY <2>1, <2>2 DEF CreationInv
<1> QED BY <1>1, TypeCorrect, CreationCorrect, PTL

\* A rival's insert is never reported as an error to a keyed call: what is left
\* are deletions and inserts that another constraint rejected.
THEOREM RaceIsResolved == Spec => []LosersGetTheShipment
<1>1. CreationInv => LosersGetTheShipment
  BY DEF CreationInv
<1> QED BY <1>1, CreationCorrect, PTL

\* Lookup, insert and second lookup act as one atomic step.
THEOREM CreationImplementsGetOrCreate == Spec => ImplementsGetOrCreate
<1>1. Init => Atomic!Init
  BY DEF Init, Atomic!Init, Registered, WithReference
<1>2. TypeOK /\ CreationInv /\ [Next]_vars => [Atomic!Next]_(Atomic!vars)
  <2> SUFFICES ASSUME TypeOK, CreationInv, [Next]_vars PROVE [Atomic!Next]_(Atomic!vars)
    OBVIOUS
  <2> DEFINE answers == [c \in WithReference |-> answer[c]]
  <2>1. ASSUME NEW c \in Caller, NEW a, rows' = rows, pc[c] # "done",
               answer'[c] = a, \A d \in Caller : d # c => answer'[d] = answer[d],
               c \in WithReference => a \in Error \/ a \in Registered[ReferenceOf[c]]
        PROVE  [Atomic!Next]_(Atomic!vars)
    <3>1. Registered' = Registered
      BY <2>1 DEF Registered
    <3>2. CASE c \in WithReference
      <4>0. \A d \in WithReference : answer'[d] = IF d = c THEN a ELSE answer[d]
        BY <2>1 DEF WithReference
      <4>1. answers' = [answers EXCEPT ![c] = a] /\ answers[c] = None
        BY <2>1, <3>2, <4>0 DEF TypeOK, WithReference
      <4>2. Atomic!Find(c) \/ Atomic!Fail(c)
        BY <2>1, <3>1, <3>2, <4>1 DEF Atomic!Find, Atomic!Fail, WithReference
      <4> QED BY <3>2, <4>2 DEF Atomic!Next
    <3>3. CASE c \notin WithReference
      <4>0. \A d \in WithReference : answer'[d] = answer[d]
        BY <2>1, <3>3 DEF WithReference
      <4>1. answers' = answers
        BY <4>0
      <4> QED BY <3>1, <4>1 DEF Atomic!vars
    <3> QED BY <3>2, <3>3
  <2>2. ASSUME UNCHANGED <<rows, answer>> PROVE [Atomic!Next]_(Atomic!vars)
    BY <2>2 DEF Atomic!vars, Registered
  <2>3. ASSUME NEW c \in Caller, Call(c) PROVE [Atomic!Next]_(Atomic!vars)
    <3>1. CASE Found(c)
      <4>1. PICK r \in rows : Matching(c) = {r} /\ Return(c, r)
        BY <3>1 DEF Found
      <4>2. c \in WithReference => r \in Registered[ReferenceOf[c]]
        BY <4>1 DEF Registered, WithReference, Matching
      <4> QED BY <2>1, <3>1, <4>1, <4>2, Returned DEF Found
    <3>2. CASE FoundSeveral(c)
      BY <2>1, <3>2, Returned DEF FoundSeveral, Error
    <3>3. CASE NotFound(c)
      BY <2>2, <3>3 DEF NotFound
    <3>4. CASE LostAgain(c)
      BY <2>1, <3>4, Returned DEF LostAgain, Error
    <3>5. CASE Insert(c)
      <4>1. CASE c \in WithReference
        <5>0. \A d \in WithReference : answer'[d] = IF d = c THEN c ELSE answer[d]
          BY <3>5, Returned DEF Insert, WithReference
        <5>1. answers' = [answers EXCEPT ![c] = c] /\ answers[c] = None
          BY <3>5, <4>1, <5>0 DEF Insert, TypeOK, WithReference
        <5>2. ReferenceOf[c] \in Reference /\ Registered[ReferenceOf[c]] = {}
          BY <3>5, <4>1 DEF Insert, Violates, Matching, Registered, WithReference
        <5>3. \A k \in Reference : {r \in rows' : ReferenceOf[r] = k}
                  = IF k = ReferenceOf[c] THEN {c} ELSE Registered[k]
          BY <3>5, <5>2 DEF Insert, Registered
        <5>4. Registered' = [Registered EXCEPT ![ReferenceOf[c]] = {c}]
          BY <5>3 DEF Registered
        <5>5. Atomic!Register(c)
          BY <4>1, <5>1, <5>2, <5>4 DEF Atomic!Register, WithReference
        <5> QED BY <4>1, <5>5 DEF Atomic!Next
      <4>2. CASE c \notin WithReference
        <5>0. \A d \in WithReference : answer'[d] = answer[d]
          BY <3>5, <4>2, Returned DEF Insert, WithReference
        <5>1. answers' = answers
          BY <5>0
        <5>2. Registered' = Registered
          BY <3>5, <4>2 DEF Insert, Registered, WithReference
        <5> QED BY <5>1, <5>2 DEF Atomic!vars
      <4> QED BY <4>1, <4>2
    <3>6. CASE InsertConflicts(c) \/ InsertRejected(c)
      <4>1. IntegrityErrorIn(c) /\ pc[c] # "done"
        BY <3>6 DEF InsertConflicts, InsertRejected
      <4>2. CASE c \in Keyed
        BY <2>2, <4>1, <4>2, IntegrityRaised
      <4>3. CASE c \notin Keyed
        <5>1. /\ rows' = rows /\ answer'[c] = "IntegrityError"
              /\ \A d \in Caller : d # c => answer'[d] = answer[d]
          BY <4>1, <4>3, IntegrityRaised
        <5> QED BY <2>1, <4>1, <5>1 DEF Error
      <4> QED BY <4>2, <4>3
    <3>7. CASE StatementFails(c)
      BY <2>1, <3>7, Returned DEF StatementFails, Error
    <3> QED BY <2>3, <3>1, <3>2, <3>3, <3>4, <3>5, <3>6, <3>7 DEF Call
  <2>4. ASSUME NEW r \in Caller, Delete(r) PROVE [Atomic!Next]_(Atomic!vars)
    <3>1. answers' = answers
      BY <2>4 DEF Delete
    <3>2. CASE ReferenceOf[r] = Blank
      <4>1. Registered' = Registered
        BY <2>4, <3>2 DEF Delete, Registered
      <4> QED BY <3>1, <4>1 DEF Atomic!vars
    <3>3. CASE ReferenceOf[r] # Blank
      <4>1. ReferenceOf[r] \in Reference /\ r \in Registered[ReferenceOf[r]]
        BY <2>4, <3>3 DEF Delete, Registered
      <4>0. \A q \in rows' : ReferenceOf[q] # ReferenceOf[r]
        BY <2>4, <3>3 DEF Delete, CreationInv, TypeOK
      <4>2. Registered' = [Registered EXCEPT ![ReferenceOf[r]] = {}]
        BY <2>4, <4>0, <4>1 DEF Delete, Registered
      <4>3. Atomic!Remove(ReferenceOf[r])
        BY <3>1, <4>1, <4>2 DEF Atomic!Remove
      <4> QED BY <4>1, <4>3 DEF Atomic!Next
    <3> QED BY <3>2, <3>3
  <2>5. CASE UNCHANGED vars
    BY <2>2, <2>5 DEF vars
  <2> QED BY <2>3, <2>4, <2>5 DEF Next
<1> QED BY <1>1, <1>2, TypeCorrect, CreationCorrect, PTL DEF Spec, Atomic!Spec, ImplementsGetOrCreate
=============================================================================
