---------------------------- MODULE OrderWorkflow ----------------------------
(***************************************************************************)
(* The order workflow as the architecture document draws it: one stage per *)
(* draft, and the set of drafts whose order the ERP has accepted.  It says *)
(* nothing of handlers, transactions or failures; OrderHITL refines it     *)
(* when the users of a draft take turns.                                   *)
(***************************************************************************)
CONSTANT Drafts

VARIABLES
    stage,     \* NONE until the draft exists, then its status
    ordered    \* drafts the ERP has accepted an order for

Stages == {"NONE", "DRAFT", "APPROVED", "REJECTED", "SUBMITTED_SANDBOX"}

Init ==
    /\ stage = [d \in Drafts |-> "NONE"]
    /\ ordered = {}

Move(d, from, to) ==
    /\ stage[d] \in from
    /\ stage' = [stage EXCEPT ![d] = to]

Create(d) == Move(d, {"NONE"}, "DRAFT") /\ UNCHANGED ordered

Approve(d) == Move(d, {"DRAFT", "REJECTED"}, "APPROVED") /\ UNCHANGED ordered

Reject(d) == Move(d, {"DRAFT"}, "REJECTED") /\ UNCHANGED ordered

\* An order may reach the ERP more than once: the first attempt may have
\* failed after the ERP accepted it.
PlaceOrder(d) ==
    /\ stage[d] = "APPROVED"
    /\ ordered' = ordered \cup {d}
    /\ UNCHANGED stage

Complete(d) ==
    /\ d \in ordered
    /\ Move(d, {"APPROVED"}, "SUBMITTED_SANDBOX")
    /\ UNCHANGED ordered

Next == \E d \in Drafts :
    Create(d) \/ Approve(d) \/ Reject(d) \/ PlaceOrder(d) \/ Complete(d)

Spec == Init /\ [][Next]_<<stage, ordered>>
=============================================================================
