---------------------------- MODULE MCChangefeed ----------------------------
(* Instances of Changefeed for TLC. *)
EXTENDS Changefeed

\* One row is enough: owners, orgs and values are interchangeable.
OneRow == {[owners |-> {"o1"}, orgs |-> {"g1"}, value |-> 1]}
OneWriter == {"w1"}
TwoWriters == {"w1", "w2"}
=============================================================================
