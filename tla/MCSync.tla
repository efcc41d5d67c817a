------------------------------- MODULE MCSync -------------------------------
(* Instances of Sync for TLC. *)
EXTENDS Sync, TLC

\* What the scope declares.
FullForAWhile == {[full |-> TRUE, always |-> FALSE]}
FullOrWindow == [full : BOOLEAN, always : {FALSE}]
FullAlwaysOrWindow == {[full |-> TRUE, always |-> TRUE], [full |-> FALSE, always |-> FALSE]}

\* A bound: a fault falls on a full scope, between two pages of the first catch-up or
\* after it, and after every write, one of them a delete.
FaultsLast ==
    faults' # faults => /\ config.full
                        /\ used = 1 /\ runs[1].phase \in {"ingested", "over"}
                        /\ spent = 1..MaxVersion
                        /\ \E d \in Docs : server[d].version # 0 /\ ~server[d].live
=============================================================================
