---------------------------- MODULE MCReconcile -----------------------------
(* A boot of a machine that had another, or an enrollment whose journal is    *)
(* listed under two paths.                                                    *)
EXTENDS Reconcile

MCBootIds == {"first", "second"}

ABoot ==
  [boots |-> {[target |-> "host", boot_id |-> "second", requested_at |-> 1, deadline |-> 1]},
   enrollments |-> {}, since |-> 0]

enrollment(journal, created_at, tested) ==
  [journal |-> journal, created_at |-> created_at, production_boot_test_passed |-> tested]

AnEnrollment ==
  [boots |-> {},
   enrollments |-> {enrollment("a", 0, FALSE), enrollment("a", 0, TRUE),
                    enrollment("link_to_a", 2, FALSE)},
   since |-> 0]

MCFleets == {ABoot, AnEnrollment}
MCInode == [p \in {"a", "link_to_a"} |-> "a"]
=============================================================================
