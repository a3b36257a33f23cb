------------------------------ MODULE MC_UpdatePlan ------------------------------
(* Three physical columns, every SET target order and scan, and tables    *)
(* without partitions, partitioned by a year, and by an identity and an   *)
(* hour field.                                                             *)
EXTENDS UpdatePlan

MCPartitionSpecs ==
  { <<>>,
    << [key |-> 0, transform |-> "YEAR"] >>,
    << [key |-> 2, transform |-> "IDENTITY"], [key |-> 1, transform |-> "HOUR"] >>,
    << [key |-> 1, transform |-> "MONTH"], [key |-> 0, transform |-> "DAY"] >> }
=============================================================================
