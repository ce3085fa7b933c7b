-------------------------- MODULE MCHivePartitions --------------------------
(* Two billing periods, and the partitions that a user writes for them.    *)
EXTENDS HivePartitions

TwoPeriods == << [start |-> <<"0601">>, end |-> <<"0701">>],
                 [start |-> <<"0701">>, end |-> <<"0801">>] >>

TwoColumns == <<"billing_period_start", "billing_period_end">>

(* A user's HiveTable: the columns are the keys of each PartitionSpec.     *)
ByColumn == [ p \in 1..2 |-> [ billing_period_start |-> TwoPeriods[p].start,
                               billing_period_end |-> TwoPeriods[p].end ] ]
=============================================================================
