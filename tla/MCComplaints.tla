---------------------------- MODULE MCComplaints ----------------------------
(* Instances of Complaints for TLC: a driver, an operator of the one company *)
(* and a platform administrator; two tickets at most and two requests        *)
(* handled at once.  At the start nothing is stored, or one ticket of the    *)
(* company that somebody already works on.                                   *)
EXTENDS ComplaintPage

CONSTANTS d1, o1, s1, coA, c1

MCCompanyOf == [u \in {o1} |-> coA]

InProgress(co) ==
  [Filed(d1, co, "payment_issue", "medium", NoComplaint) EXCEPT
     !.status = "in_progress",
     !.history = <<[from |-> "open", to |-> "in_progress", by |-> s1, note |-> "none", n |-> 1]>>]

MCStored ==
  {[c \in Complaints |-> IF c = c1 THEN t ELSE Absent] :
     t \in {Absent, InProgress(coA)}}
=============================================================================
