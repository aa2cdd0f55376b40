------------------------------ MODULE MCAdmin ------------------------------
(* Payloads for model checking Admin. *)
EXTENDS Admin

Update(result, rating, comp, sla, missed) ==
  [result |-> result, verifyOK |-> TRUE, rating |-> rating, compMS |-> comp,
   slaMS |-> sla, hbMiss |-> missed]

\* A success after which a decay brings the total to an exact half, and a lost
\* dispute that takes parts to the bottom of the scale.
SomeUpdates ==
  {Update("SUCCESS", 3, 1, 2, 0), Update("DISPUTED_LOST", 0, 0, 0, 6)}

\* A change, and a list that sets one parameter twice.
SomeChanges ==
  {<<[param |-> "p", value |-> 1]>>,
   <<[param |-> "p", value |-> 2], [param |-> "q", value |-> 1],
     [param |-> "p", value |-> 3]>>}
=============================================================================
