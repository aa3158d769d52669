---------------------------- MODULE DecisionLog ----------------------------
(***************************************************************************)
(* What the decision records promise their reader, without processes or a  *)
(* schedule, of each decision: an order is opened only after its entry     *)
(* announced it; entry and order close together; an exposure after the     *)
(* trade comes last; a declined entry never gets an order; and nothing is  *)
(* taken back.                                                             *)
(***************************************************************************)
CONSTANT Decisions

VARIABLES entry,  \* what the record of a decision says
          order   \* what became of it

LogInit(d) == entry[d] = "none" /\ order[d] = "none"

Entry(d, from, to) == entry[d] = from /\ entry'[d] = to
Order(d, from, to) == order[d] = from /\ order'[d] = to

Decide(d)   == Entry(d, "none", "decided") /\ Order(d, "none", "none")
Decline(d)  == Entry(d, "decided", "declined") /\ Order(d, "none", "none")
Announce(d) == Entry(d, "decided", "announced") /\ Order(d, "none", "none")
Open(d)     == Entry(d, "announced", "announced") /\ Order(d, "none", "open")
Close(d)    == Entry(d, "announced", "closed") /\ Order(d, "open", "closed")
Verify(d)   == Entry(d, "closed", "verified") /\ Order(d, "closed", "closed")

LogStep(d) == Decide(d) \/ Decline(d) \/ Announce(d) \/ Open(d) \/ Close(d) \/ Verify(d)

LogSpec ==
  /\ \A d \in Decisions : LogInit(d)
  /\ [][\A d \in Decisions : UNCHANGED <<entry[d], order[d]>> \/ LogStep(d)]_<<entry, order>>
=============================================================================
