--------------------------- MODULE MCGraphOutput ---------------------------
(* GraphOutput for TLC: an account that the organization lists, scanned or *)
(* not; a subnet two accounts share and tell the same or different things  *)
(* about; an instance in a VPC that is found before it or after it; a      *)
(* scanner of another version; equal copies of a resource; an id that comes *)
(* with two types of which none may clobber the other.                      *)
EXTENDS GraphOutput

L(kind, pred, obj) == [kind |-> kind, pred |-> pred, obj |-> obj, sub |-> <<>>]

M(pred, sub) == [kind |-> "multi", pred |-> pred, obj |-> "", sub |-> sub]

R(id, type, ls) == [id |-> id, type |-> type, links |-> ls]

Set(start, rs, es) ==
    [version |-> "2", start |-> start, resources |-> rs, errors |-> es]

Master ==
    Set(1, <<R("account1", "account", <<L("simple", "account_id", "1")>>),
                R("account2", "account", <<L("simple", "account_id", "2"),
                                           L("simple", "name", "two")>>)>>, <<>>)

Unscanned ==
    Set(3, <<R("account2", "unscanned", <<L("simple", "account_id", "2"),
                                             L("simple", "error", "e - u1")>>)>>,
        <<"e">>)

Network ==
    Set(2, <<R("vpc1", "aws:ec2:vpc", <<L("tag", "team", "net:a")>>),
                R("subnet1", "aws:ec2:subnet",
                  <<L("simple", "state", "up"), L("tag", "team:net", "a"),
                    L("resource", "vpc", "vpc1")>>)>>, <<>>)

(* The multi link of the detector has a column that sorts before its parent. *)
Sharing ==
    Set(1, <<R("subnet1", "aws:ec2:subnet",
                  <<L("simple", "state", "up"), L("simple", "zone", "a")>>),
                R("instance1", "aws:ec2:instance",
                  <<M("interface", <<M("address", <<L("simple", "ip", "i")>>),
                                         L("resource", "subnet", "subnet1"),
                                         L("transient", "vpc", "vpc3")>>),
                    M("interface", <<L("transient", "vpc", "vpc1")>>),
                    L("resource", "vpc", "vpc2")>>),
                R("detector1", "aws:guardduty:detector",
                  <<M("member", <<L("transient", "detector", "detector2")>>)>>)>>,
        <<>>)

Owner ==
    Set(2, <<R("vpc1", "aws:ec2:vpc", <<L("tag", "team", "net:a")>>),
                R("vpc2", "aws:ec2:vpc", <<>>),
                R("function1", "aws:lambda:function",
                  <<L("transient", "vpc", "vpc1")>>)>>, <<>>)

Changed ==
    Set(4, <<R("subnet1", "aws:ec2:subnet", <<L("simple", "state", "down")>>)>>,
        <<>>)

OtherVersion == [Changed EXCEPT !.version = "1"]

(* Several links of one predicate, in two equal copies.                     *)
Twice ==
    Set(1, <<R("role1", "aws:iam:role", <<L("simple", "action", "get"),
                                             L("simple", "action", "put")>>)>>,
        <<>>)

Again == [Twice EXCEPT !.start = 2]

MCGraphSets == {Master, Unscanned, Network, Sharing, Owner, Changed,
                OtherVersion, Twice, Again}

AllLinks ==
    LET own == UNION {UNION {ToSet(r.links) : r \in ToSet(g.resources)} :
                        g \in MCGraphSets}
        nested == UNION {ToSet(l.sub) : l \in own}
    IN  own \cup nested \cup UNION {ToSet(l.sub) : l \in nested}

Retyped ==
    Set(4, <<R("vpc1", "aws:ec2:subnet", <<L("simple", "state", "up")>>)>>, <<>>)

MCRuns ==
    UNION {kSubset(k, MCGraphSets) : k \in 1..4} \cup
    {{Network, Retyped}, {Master, Owner, Retyped}}

AllTypes == {"account", "unscanned", "aws:ec2:vpc", "aws:ec2:subnet",
          "aws:ec2:instance", "aws:lambda:function", "aws:guardduty:detector",
          "aws:iam:role"}

MCSpecClasses ==
    [t \in AllTypes |-> IF t = "account" THEN {"Account", "OrgsAccount"} ELSE {t}]

MCAllowClobber ==
    [c \in UNION {MCSpecClasses[t] : t \in AllTypes} |->
       IF c \in {"Account", "OrgsAccount"} THEN {"unscanned"} ELSE {}]

MCTagId ==
    [t \in {<<"team", "net:a">>, <<"team:net", "a">>} |-> "team:net:a"]

MCParseArn ==
    [l \in AllTypes \cup {"metadata", "error", "tag"} |->
       CASE l = "aws:ec2:vpc"            -> "ec2:vpc"
         [] l = "aws:ec2:subnet"         -> "ec2:subnet"
         [] l = "aws:ec2:instance"       -> "ec2:instance"
         [] l = "aws:lambda:function"    -> "lambda:function"
         [] l = "aws:guardduty:detector" -> "guardduty:detector"
         [] l = "aws:iam:role"           -> "iam:role"
         [] OTHER                        -> l]

ColumnOrder ==
    <<"detector", "ec2_instance", "guardduty_detector", "subnet", "vpc">>

MCSortsBefore ==
    UNION {{<<ColumnOrder[i], ColumnOrder[j]>> : i \in 1..j - 1} :
             j \in DOMAIN ColumnOrder}

MCNormalizeName ==
    [n \in AllTypes \cup ToSet(ColumnOrder) |->
       CASE n = "aws:ec2:vpc"            -> "ec2_vpc"
         [] n = "aws:ec2:subnet"         -> "ec2_subnet"
         [] n = "aws:ec2:instance"       -> "ec2_instance"
         [] n = "aws:lambda:function"    -> "lambda_function"
         [] n = "aws:guardduty:detector" -> "guardduty_detector"
         [] n = "aws:iam:role"           -> "iam_role"
         [] OTHER                        -> n]

MCArnTable ==
    [id \in {"subnet1", "vpc1", "vpc3", "detector2"} |->
       CASE id = "subnet1"   -> "ec2_subnet"
         [] id = "detector2" -> "guardduty_detector"
         [] OTHER            -> "ec2_vpc"]

RECURSIVE NestedIn(_)
NestedIn(l) == {l} \cup UNION {NestedIn(m) : m \in ToSet(l.sub)}

MCNested == [l \in AllLinks |-> NestedIn(l)]
=============================================================================
