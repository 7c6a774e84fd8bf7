---------------------------- MODULE MCEnrollment ----------------------------
(* Enrollments and resumers of a volume with three ids, one in use: two       *)
(* enrollments that contend while one of them is resumed, or one that is     *)
(* disturbed more often and resumed by two at once.                          *)
EXTENDS Enrollment, TLC

CONSTANTS e1, e2, r1, r2

MCEnrollers == {e1, e2}
MCResumers == {r1, r2}

MCScenarios ==
  {[enrollers |-> {e1, e2}, subject |-> r1 :> e1, disturbances |-> 1],
   [enrollers |-> {e1}, subject |-> r1 :> e1 @@ r2 :> e1, disturbances |-> 2]}
=============================================================================
