----------------------------- MODULE MCJobQueue -----------------------------
(***************************************************************************)
(* Up to three jobs of one name: a submitted one, the slug with "-2" when  *)
(* its directory exists, and one resubmission of each.                     *)
(***************************************************************************)
EXTENDS JobQueue

OneName == {"a"}
OneHttpThread == {"h1"}
=============================================================================
