-------------------------- MODULE ShipmentCreation --------------------------
(***************************************************************************)
(* Creation and deletion of shipment rows (repository.py): create, which   *)
(* inserts, and create_with_idempotency_key, which looks the reference up, *)
(* inserts when it finds none, and looks again when the insert raises an   *)
(* IntegrityError, be it of the unique constraint on (provider,            *)
(* reference_id) or of another one.  The unique constraint does not cover  *)
(* blank references.                                                       *)
(*                                                                         *)
(* Each of the three statements is a transaction of its own, so callers    *)
(* interleave between them.  A row is named by the caller that inserted it *)
(* and a reference stands for a pair of provider and reference_id.         *)
(***************************************************************************)
EXTENDS Integers

CONSTANTS
    Caller,       \* calls of the two methods
    Keyed,        \* those of create_with_idempotency_key
    Reference,    \* references that are not blank
    Blank,        \* the blank reference
    ReferenceOf,  \* the reference a call gives
    None          \* neither a caller nor an error

Error == {"MultipleObjectsReturned", "IntegrityError", "DoesNotExist", "DatabaseError"}

ASSUME ConstantsAssumption ==
    /\ Keyed \subseteq Caller
    /\ Blank \notin Reference
    /\ ReferenceOf \in [Caller -> Reference \cup {Blank}]
    /\ None \notin Caller \cup Error
    /\ Caller \cap Error = {}

VARIABLES
    rows,     \* rows of the shipment table
    pc,       \* where each call is
    answer,   \* the row a call returned, or the error it raised
    removed,  \* history: references some row of which was deleted
    rejected  \* history: calls whose insert another constraint rejected

vars == <<rows, pc, answer, removed, rejected>>

Init ==
    /\ rows = {}
    /\ pc = [c \in Caller |-> IF c \in Keyed THEN "get" ELSE "create"]
    /\ answer = [c \in Caller |-> None]
    /\ removed = {}
    /\ rejected = {}

-----------------------------------------------------------------------------
(* Plausible bugs, used only by the mutation runs of PROJECT.json.         *)

\* For Matching: the lookup filters on the provider alone.
AnyRow(c) == rows

\* For Violates: the constraint of migration 0008 is missing.
Unconstrained(c) == FALSE

\* For AfterIntegrityError: no second lookup.
NoSecondLookup(c) == "done"

-----------------------------------------------------------------------------
Matching(c) == {r \in rows : ReferenceOf[r] = ReferenceOf[c]}

\* The insert of c meets the unique constraint.
Violates(c) == ReferenceOf[c] # Blank /\ Matching(c) # {}

Return(c, a) ==
    /\ pc' = [pc EXCEPT ![c] = "done"]
    /\ answer' = [answer EXCEPT ![c] = a]
    /\ UNCHANGED <<removed, rejected>>

\* get(provider, reference_id), the first time or the second.
Found(c) ==
    /\ pc[c] \in {"get", "get_again"}
    /\ \E r \in rows : Matching(c) = {r} /\ Return(c, r)
    /\ UNCHANGED rows

FoundSeveral(c) ==
    /\ pc[c] \in {"get", "get_again"}
    /\ \E q, r \in Matching(c) : q # r
    /\ Return(c, "MultipleObjectsReturned")
    /\ UNCHANGED rows

NotFound(c) ==
    /\ pc[c] = "get"
    /\ Matching(c) = {}
    /\ pc' = [pc EXCEPT ![c] = "create"]
    /\ UNCHANGED <<rows, answer, removed, rejected>>

\* Nothing there: DoesNotExist leaves the method.
LostAgain(c) ==
    /\ pc[c] = "get_again"
    /\ Matching(c) = {}
    /\ Return(c, "DoesNotExist")
    /\ UNCHANGED rows

Insert(c) ==
    /\ pc[c] = "create"
    /\ ~Violates(c)
    /\ rows' = rows \cup {c}
    /\ Return(c, c)

\* Only create_with_idempotency_key catches the IntegrityError, and it takes
\* every one for that of a rival.
AfterIntegrityError(c) == IF c \in Keyed THEN "get_again" ELSE "done"

IntegrityErrorIn(c) ==
    /\ pc' = [pc EXCEPT ![c] = AfterIntegrityError(c)]
    /\ answer' = [answer EXCEPT ![c] = IF AfterIntegrityError(c) = "done" THEN "IntegrityError" ELSE @]
    /\ UNCHANGED <<rows, removed>>

InsertConflicts(c) ==
    /\ pc[c] = "create"
    /\ Violates(c)
    /\ IntegrityErrorIn(c)
    /\ UNCHANGED rejected

\* Any other constraint: a NOT NULL column, or what a swapped-in model adds.
InsertRejected(c) ==
    /\ pc[c] = "create"
    /\ IntegrityErrorIn(c)
    /\ rejected' = rejected \cup {c}

\* A database error that is no IntegrityError leaves either method.
StatementFails(c) ==
    /\ pc[c] # "done"
    /\ Return(c, "DatabaseError")
    /\ UNCHANGED rows

\* delete(shipment_id).
Delete(r) ==
    /\ r \in rows
    /\ rows' = rows \ {r}
    /\ removed' = removed \cup {ReferenceOf[r]}
    /\ UNCHANGED <<pc, answer, rejected>>

-----------------------------------------------------------------------------
Call(c) ==
    \/ Found(c) \/ FoundSeveral(c) \/ NotFound(c) \/ LostAgain(c)
    \/ Insert(c) \/ InsertConflicts(c) \/ InsertRejected(c) \/ StatementFails(c)

Next == \E c \in Caller : Call(c) \/ Delete(c)

Spec == Init /\ [][Next]_vars

-----------------------------------------------------------------------------
(* Properties.                                                             *)

\* Every variable has its type, a call is through exactly when it has an
\* answer, only a keyed call looks anything up, a row is that of a call that
\* returned it, and a call returns rows of its own reference.
TypeOK ==
    /\ rows \subseteq Caller
    /\ pc \in [Caller -> {"get", "create", "get_again", "done"}]
    /\ answer \in [Caller -> Caller \cup Error \cup {None}]
    /\ removed \subseteq Reference \cup {Blank}
    /\ rejected \subseteq Caller
    /\ \A c \in Caller : pc[c] = "done" <=> answer[c] # None
    /\ \A c \in Caller : pc[c] \in {"get", "get_again"} => c \in Keyed
    /\ \A r \in rows : answer[r] = r
    /\ \A c \in Caller : answer[c] \in Caller => ReferenceOf[answer[c]] = ReferenceOf[c]

\* Callers that give the same reference end up with the same shipment, and so
\* only one of them created it, unless a row of the reference was deleted.
SameShipment ==
    \A c, d \in Caller :
        /\ answer[c] \in Caller
        /\ answer[d] \in Caller
        /\ ReferenceOf[c] = ReferenceOf[d]
        /\ ReferenceOf[c] \notin removed \cup {Blank}
        => answer[c] = answer[d]

\* Losing the race is never an error for a keyed call with a reference: other
\* than with the database it fails only as DoesNotExist, and only when a row of
\* its reference was deleted, or another constraint rejected its own insert
\* (repository.py takes every IntegrityError for that of a rival).
LosersGetTheShipment ==
    \A c \in Keyed :
        /\ ReferenceOf[c] # Blank
        /\ answer[c] \in Error \ {"DatabaseError"}
        => /\ answer[c] = "DoesNotExist"
           /\ ReferenceOf[c] \in removed \/ c \in rejected

\* The shipments of each reference.
Registered == [k \in Reference |-> {r \in rows : ReferenceOf[r] = k}]

WithReference == {c \in Caller : ReferenceOf[c] # Blank}

Atomic == INSTANCE GetOrCreate WITH
    Caller <- WithReference,
    ReferenceOf <- [c \in WithReference |-> ReferenceOf[c]],
    registered <- Registered,
    answer <- [c \in WithReference |-> answer[c]]

\* The three statements of create_with_idempotency_key act as one atomic
\* get-or-create (module GetOrCreate).
ImplementsGetOrCreate == Atomic!Spec
=============================================================================
