---------------------------- MODULE GetOrCreate ----------------------------
(***************************************************************************)
(* What creating a shipment under an external reference promises, as one   *)
(* atomic step: a caller gets the one shipment registered for its          *)
(* reference, or registers its own.  ShipmentCreation implements this      *)
(* module with a lookup, an insert and a second lookup.  A shipment is     *)
(* named by the caller that registered it.                                 *)
(***************************************************************************)
CONSTANTS
    Caller,       \* callers that give a reference
    Reference,    \* the references they give
    ReferenceOf,  \* the reference of each caller
    Error,        \* what a caller may get instead of a shipment
    None          \* no answer yet

VARIABLES
    registered,  \* the shipments registered for each reference
    answer       \* what each caller got

vars == <<registered, answer>>

Init ==
    /\ registered = [k \in Reference |-> {}]
    /\ answer = [c \in Caller |-> None]

Register(c) ==
    /\ answer[c] = None
    /\ registered[ReferenceOf[c]] = {}
    /\ registered' = [registered EXCEPT ![ReferenceOf[c]] = {c}]
    /\ answer' = [answer EXCEPT ![c] = c]

Find(c) ==
    /\ answer[c] = None
    /\ \E r \in registered[ReferenceOf[c]] : answer' = [answer EXCEPT ![c] = r]
    /\ UNCHANGED registered

Fail(c) ==
    /\ answer[c] = None
    /\ \E e \in Error : answer' = [answer EXCEPT ![c] = e]
    /\ UNCHANGED registered

Remove(k) ==
    /\ registered[k] # {}
    /\ registered' = [registered EXCEPT ![k] = {}]
    /\ UNCHANGED answer

Next ==
    \/ \E c \in Caller : Register(c) \/ Find(c) \/ Fail(c)
    \/ \E k \in Reference : Remove(k)

Spec == Init /\ [][Next]_vars
=============================================================================
