--------------------------- MODULE MCAccountScan ---------------------------
(* AccountScan with two services: ec2, in both regions, with two classes   *)
(* scanned one after the other, and the global iam with a parallel class   *)
(* and so an empty serial unit.                                            *)
EXTENDS AccountScan

CONSTANTS r1, r2, ec2, iam, instance, vpc, role

MCClasses == {instance, role, vpc}

MCServiceOf ==
    [c \in MCClasses |-> IF c = role THEN iam ELSE ec2]

MCAvailable == [s \in {ec2, iam} |-> IF s = ec2 THEN {r1, r2} ELSE {}]

MCAnyRegion == [c \in MCClasses |-> {}]
=============================================================================
