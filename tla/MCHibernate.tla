---------------------------- MODULE MCHibernate ----------------------------
(* Instances of Hibernate for TLC. *)
EXTENDS Hibernate
=============================================================================
