------------------------------ MODULE MCOtaHttp -----------------------------
EXTENDS OtaHttp

(* An image that arrives whole, one that is cut short, one of unknown      *)
(* length, one that is empty, and an answer that is not HTTP.              *)
Answers ==
  {[good |-> TRUE, announced |-> 3, body |-> 3],
   [good |-> TRUE, announced |-> 2, body |-> 1],
   [good |-> TRUE, announced |-> Unknown, body |-> 1],
   [good |-> TRUE, announced |-> 0, body |-> 0],
   [good |-> FALSE, announced |-> Unknown, body |-> 1]}
=============================================================================
