------------------------ MODULE ResourceListingProofs ------------------------
(***************************************************************************)
(* Proofs about ResourceListing, for any set of resources and each class   *)
(* of the repository.                                                      *)
(***************************************************************************)
EXTENDS ResourceListing, TLAPS

\* A detail call leaves a resource out only when it is gone or denied.
OmitsFew(call) == call.omit \subseteq {"gone", "denied"}

\* A detail call does not fail when the resource is gone.
TakesGone(call) == "gone" \in call.omit \cup call.keep

\* A detail call that fails when the resource is gone.
RaisesGone(call) == "gone" \notin call.omit \cup call.keep

-----------------------------------------------------------------------------
(* Facts about the classes                                                 *)

LEMMA CallFacts ==
  /\ OmitsFew(OmitGone) /\ TakesGone(OmitGone)
  /\ OmitsFew(OfPart(OmitGone)) /\ TakesGone(OfPart(OmitGone))
  /\ OmitsFew(Strict) /\ RaisesGone(Strict)
  /\ OmitsFew(Call({}, {"gone"}, 1)) /\ TakesGone(Call({}, {"gone"}, 1))
  /\ OmitsFew(Call({"gone"}, {}, 5)) /\ TakesGone(Call({"gone"}, {}, 5))
  /\ OmitsFew(OfPart(Call({"gone"}, {"denied"}, 1)))
  /\ TakesGone(OfPart(Call({"gone"}, {"denied"}, 1)))
  /\ OmitsFew(Call({}, {"gone", "unset"}, 1)) /\ TakesGone(Call({}, {"gone", "unset"}, 1))
  /\ OmitsFew(Call({"gone", "denied"}, {}, 1)) /\ TakesGone(Call({"gone", "denied"}, {}, 1))
  /\ OmitsFew(Call({"gone"}, {"unset", "denied"}, 1))
  /\ TakesGone(Call({"gone"}, {"unset", "denied"}, 1))
<1>1. /\ OfPart(OmitGone).omit = {"gone"} /\ OfPart(OmitGone).keep = {}
      /\ OfPart(Call({"gone"}, {"denied"}, 1)).omit = {"gone"}
  BY DEF OfPart, Call, OmitGone
<1>2. QED
  BY <1>1 DEF OmitsFew, TakesGone, RaisesGone, Call, OmitGone, Strict

LEMMA ClassDetails ==
  ASSUME NEW details, NEW last, NEW empty
  PROVE  /\ Class(details, last, empty).details = details
         /\ WithDetails(details).details = details
         /\ ListOnly.details = <<>>
         /\ OfMaster(Class(details, last, empty)).details = details
         /\ OfMaster(WithDetails(details)).details = details
         /\ OfMaster(ListOnly).details = <<>>
  BY DEF Class, WithDetails, ListOnly, OfMaster

\* Classes without detail calls.
LEMMA ListOnlyClasses ==
  /\ \A c \in Plain : c.details = <<>>
  /\ Org.details = <<>> /\ EC2Instance.details = <<>> /\ EKSCluster.details = <<>>
  /\ IAMAccountPasswordPolicy.details = <<>>
  BY ClassDetails
  DEF Plain, Account, LambdaFunction, CloudTrailTrail, FlowLog, EC2Image,
      InternetGateway, EC2NetworkInterface, Region, EC2RouteTable, SecurityGroup,
      EBSSnapshot, Subnet, TransitGatewayVpcAttachment, EBSVolume, VPC,
      VpcEndpoint, VpcEndpointService, VPCPeeringConnection, EventBus,
      InstanceProfile, IAMAWSManagedPolicy, KMSKey, RDSSnapshot, SeverityLevel,
      Org, EC2Instance, EKSCluster, IAMAccountPasswordPolicy

\* Classes that ask once for each resource when it may be gone.
LEMMA OneCallClasses ==
  /\ ClassicLoadBalancer.details = <<OmitGone>>
  /\ LoadBalancer.details = <<OmitGone>>
  /\ EventsRule.details = <<OmitGone>>
  /\ IAMGroup.details = <<OmitGone>>
  /\ IAMOIDCProvider.details = <<OmitGone>>
  /\ IAMSAMLProvider.details = <<OmitGone>>
  /\ IAMPolicy.details = <<OfPart(OmitGone)>>
  /\ IAMRole.details = <<OmitGone>>
  /\ RDSInstance.details = <<OmitGone>>
  /\ TransitGateway.details = <<Call({}, {"gone"}, 1)>>
  /\ TargetGroup.details = <<Call({"gone"}, {}, 5)>>
  /\ OU.details = <<Strict>>
  /\ OrgsAccount.details = <<Strict>>
<1>1. ClassicLoadBalancer.details = <<OmitGone>>
  BY ClassDetails DEF ClassicLoadBalancer
<1>2. LoadBalancer.details = <<OmitGone>>
  BY ClassDetails DEF LoadBalancer
<1>3. EventsRule.details = <<OmitGone>>
  BY ClassDetails DEF EventsRule
<1>4. IAMGroup.details = <<OmitGone>>
  BY ClassDetails DEF IAMGroup
<1>5. IAMOIDCProvider.details = <<OmitGone>>
  BY ClassDetails DEF IAMOIDCProvider
<1>6. IAMSAMLProvider.details = <<OmitGone>>
  BY ClassDetails DEF IAMSAMLProvider
<1>7. IAMPolicy.details = <<OfPart(OmitGone)>>
  BY ClassDetails DEF IAMPolicy
<1>8. IAMRole.details = <<OmitGone>>
  BY ClassDetails DEF IAMRole
<1>9. RDSInstance.details = <<OmitGone>>
  BY ClassDetails DEF RDSInstance
<1>10. TransitGateway.details = <<Call({}, {"gone"}, 1)>>
  BY ClassDetails DEF TransitGateway
<1>11. TargetGroup.details = <<Call({"gone"}, {}, 5)>>
  BY ClassDetails DEF TargetGroup
<1>12. OU.details = <<Strict>> /\ OrgsAccount.details = <<Strict>>
  BY ClassDetails DEF OU, OrgsAccount
<1>13. QED
  BY <1>1, <1>2, <1>3, <1>4, <1>5, <1>6, <1>7, <1>8, <1>9, <1>10, <1>11, <1>12

LEMMA MoreCallClasses ==
  /\ DynamoDbTable.details = <<OmitGone, OmitGone>>
  /\ Detector.details = <<OfPart(OmitGone), OfPart(OmitGone), OfPart(OmitGone)>>
  /\ IAMUser.details = <<OmitGone, OfPart(Call({"gone"}, {"denied"}, 1)), OmitGone,
                         Call({}, {"gone", "unset"}, 1)>>
  /\ S3Bucket.details = <<Call({"gone", "denied"}, {}, 1),
                          Call({"gone"}, {"unset", "denied"}, 1),
                          Call({"gone"}, {"unset", "denied"}, 1)>>
<1>1. DynamoDbTable.details = <<OmitGone, OmitGone>>
  BY ClassDetails DEF DynamoDbTable
<1>2. Detector.details = <<OfPart(OmitGone), OfPart(OmitGone), OfPart(OmitGone)>>
  BY ClassDetails DEF Detector
<1>3. IAMUser.details = <<OmitGone, OfPart(Call({"gone"}, {"denied"}, 1)), OmitGone,
                          Call({}, {"gone", "unset"}, 1)>>
  BY ClassDetails DEF IAMUser
<1>4. S3Bucket.details = <<Call({"gone", "denied"}, {}, 1),
                           Call({"gone"}, {"unset", "denied"}, 1),
                           Call({"gone"}, {"unset", "denied"}, 1)>>
  BY ClassDetails DEF S3Bucket
<1>5. QED
  BY <1>1, <1>2, <1>3, <1>4

\* Every call of the list is as a class needs it that looks up only what it lists.
Fine(calls) ==
  /\ Len(calls) \in Nat
  /\ \A k \in 1 .. Len(calls) : OmitsFew(calls[k]) /\ TakesGone(calls[k])

LEMMA NoCalls == Fine(<<>>)
  BY DEF Fine

LEMMA OneCall ==
  ASSUME NEW w, OmitsFew(w), TakesGone(w)
  PROVE  Fine(<<w>>)
  BY DEF Fine

LEMMA TwoCalls ==
  ASSUME NEW w, OmitsFew(w), TakesGone(w), NEW x, OmitsFew(x), TakesGone(x)
  PROVE  Fine(<<w, x>>)
  BY DEF Fine

LEMMA ThreeCalls ==
  ASSUME NEW w, OmitsFew(w), TakesGone(w), NEW x, OmitsFew(x), TakesGone(x),
         NEW y, OmitsFew(y), TakesGone(y)
  PROVE  Fine(<<w, x, y>>)
  BY DEF Fine

LEMMA FourCalls ==
  ASSUME NEW w, OmitsFew(w), TakesGone(w), NEW x, OmitsFew(x), TakesGone(x),
         NEW y, OmitsFew(y), TakesGone(y), NEW z, OmitsFew(z), TakesGone(z)
  PROVE  Fine(<<w, x, y, z>>)
  BY DEF Fine

\* All classes but two take a resource that is gone, at every call for its details.
LEMMA FineClasses ==
  ASSUME NEW c \in Classes
  PROVE  Fine(c.details) \/ c \in {OU, OrgsAccount}
<1>1. CASE c \in Plain \cup {Org, EC2Instance, EKSCluster, IAMAccountPasswordPolicy}
  <2>1. c.details = <<>>
    BY <1>1, ListOnlyClasses
  <2>2. QED
    BY <2>1, NoCalls
<1>2. CASE c.details = <<OmitGone>>
  <2>1. Fine(<<OmitGone>>)
    BY OneCall, CallFacts
  <2>2. QED
    BY <1>2, <2>1
<1>3. CASE c = TransitGateway
  <2>1. Fine(<<Call({}, {"gone"}, 1)>>)
    BY OneCall, CallFacts
  <2>2. QED
    BY <1>3, <2>1, OneCallClasses
<1>4. CASE c = TargetGroup
  <2>1. Fine(<<Call({"gone"}, {}, 5)>>)
    BY OneCall, CallFacts
  <2>2. QED
    BY <1>4, <2>1, OneCallClasses
<1>5. CASE c = IAMPolicy
  <2>1. Fine(<<OfPart(OmitGone)>>)
    BY OneCall, CallFacts
  <2>2. QED
    BY <1>5, <2>1, OneCallClasses
<1>6. CASE c = DynamoDbTable
  <2>1. Fine(<<OmitGone, OmitGone>>)
    BY TwoCalls, CallFacts
  <2>2. QED
    BY <1>6, <2>1, MoreCallClasses
<1>7. CASE c = Detector
  <2>1. Fine(<<OfPart(OmitGone), OfPart(OmitGone), OfPart(OmitGone)>>)
    BY ThreeCalls, CallFacts
  <2>2. QED
    BY <1>7, <2>1, MoreCallClasses
<1>8. CASE c = IAMUser
  <2>1. Fine(<<OmitGone, OfPart(Call({"gone"}, {"denied"}, 1)), OmitGone,
               Call({}, {"gone", "unset"}, 1)>>)
    BY FourCalls, CallFacts
  <2>2. QED
    BY <1>8, <2>1, MoreCallClasses
<1>9. CASE c = S3Bucket
  <2>1. Fine(<<Call({"gone", "denied"}, {}, 1), Call({"gone"}, {"unset", "denied"}, 1),
               Call({"gone"}, {"unset", "denied"}, 1)>>)
    BY ThreeCalls, CallFacts
  <2>2. QED
    BY <1>9, <2>1, MoreCallClasses
<1>10. c \in {ClassicLoadBalancer, LoadBalancer, EventsRule, IAMGroup,
              IAMOIDCProvider, IAMSAMLProvider, IAMRole, RDSInstance}
         => c.details = <<OmitGone>>
  BY OneCallClasses
<1>11. QED
  BY <1>1, <1>2, <1>3, <1>4, <1>5, <1>6, <1>7, <1>8, <1>9, <1>10
  DEF Classes, Uncaught

\* The classes that catch nothing fail at every call for details that are gone.
LEMMA UncaughtDetails ==
  ASSUME NEW c \in Uncaught, NEW k \in 1 .. Len(c.details)
  PROVE  RaisesGone(c.details[k])
<1>1. CASE c = EC2Instance
  <2>1. c.details = <<>>
    BY <1>1, ListOnlyClasses
  <2>2. QED
    BY <2>1
<1>2. CASE c \in {OU, OrgsAccount}
  <2>1. c.details = <<Strict>>
    BY <1>2, OneCallClasses
  <2>2. Len(c.details) = 1 /\ c.details[1] = Strict
    BY <2>1
  <2>3. QED
    BY <2>2, CallFacts
<1>3. QED
  BY <1>1, <1>2 DEF Uncaught

\* What the details of a class omit, and whether they take a resource that is gone.
LEMMA DetailFacts ==
  ASSUME NEW c \in Classes
  PROVE  /\ Len(c.details) \in Nat
         /\ \A k \in 1 .. Len(c.details) :
              /\ OmitsFew(c.details[k])
              /\ c \in Uncaught => RaisesGone(c.details[k])
              /\ c \notin Uncaught => TakesGone(c.details[k])
<1>1. CASE Fine(c.details)
  BY <1>1, UncaughtDetails DEF Fine
<1>2. CASE c \in {OU, OrgsAccount}
  <2>1. c.details = <<Strict>>
    BY <1>2, OneCallClasses
  <2>2. Len(c.details) = 1 /\ c.details[1] = Strict
    BY <2>1
  <2>3. c \in Uncaught
    BY <1>2 DEF Uncaught
  <2>4. QED
    BY <2>2, <2>3, CallFacts
<1>3. QED
  BY <1>1, <1>2, FineClasses

\* Classes without a last call.
LEMMA NoLast ==
  ASSUME NEW c \in Classes \ {EC2Instance, RDSInstance}
  PROVE  c.last = <<>>
<1>1. ASSUME NEW details, NEW empty
      PROVE  /\ Class(details, <<>>, empty).last = <<>>
             /\ WithDetails(details).last = <<>> /\ ListOnly.last = <<>>
             /\ OfMaster(WithDetails(details)).last = <<>>
             /\ OfMaster(ListOnly).last = <<>>
  BY DEF Class, WithDetails, ListOnly, OfMaster
<1>2. CASE c \in Plain
  BY <1>1, <1>2
  DEF Plain, Account, LambdaFunction, CloudTrailTrail, FlowLog, EC2Image,
      InternetGateway, EC2NetworkInterface, Region, EC2RouteTable, SecurityGroup,
      EBSSnapshot, Subnet, TransitGatewayVpcAttachment, EBSVolume, VPC,
      VpcEndpoint, VpcEndpointService, VPCPeeringConnection, EventBus,
      InstanceProfile, IAMAWSManagedPolicy, KMSKey, RDSSnapshot, SeverityLevel
<1>3. CASE c \in {OU, OrgsAccount, Org, EKSCluster, IAMAccountPasswordPolicy}
  BY <1>1, <1>3 DEF OU, OrgsAccount, Org, EKSCluster, IAMAccountPasswordPolicy
<1>4. CASE c \in {TransitGateway, DynamoDbTable, ClassicLoadBalancer, LoadBalancer,
                  EventsRule, IAMGroup, IAMOIDCProvider, IAMSAMLProvider}
  BY <1>1, <1>4 DEF TransitGateway, DynamoDbTable, ClassicLoadBalancer, LoadBalancer,
                    EventsRule, IAMGroup, IAMOIDCProvider, IAMSAMLProvider
<1>5. CASE c \in {IAMPolicy, IAMRole, Detector, TargetGroup, IAMUser, S3Bucket}
  BY <1>1, <1>5 DEF IAMPolicy, IAMRole, Detector, TargetGroup, IAMUser, S3Bucket
<1>6. QED
  BY <1>2, <1>3, <1>4, <1>5 DEF Classes, Uncaught

\* Only EC2Instance names in its last call what may be gone.
LEMMA LastFacts ==
  ASSUME NEW c \in Classes, NEW n \in Nat, n < Len(c.last), c.last[n + 1].part
  PROVE  c \in Uncaught
<1>1. CASE c = EC2Instance
  BY <1>1 DEF Uncaught
<1>2. CASE c = RDSInstance
  <2>1. c.last = <<Strict>>
    BY <1>2 DEF RDSInstance, Class
  <2>2. n + 1 = 1 /\ ~Strict.part
    BY <2>1 DEF Strict, Call
  <2>3. QED
    BY <2>1, <2>2
<1>3. CASE c \notin {EC2Instance, RDSInstance}
  BY <1>3, NoLast
<1>4. QED
  BY <1>1, <1>2, <1>3

-----------------------------------------------------------------------------
(* What every step keeps                                                   *)

ClassInv == class \in Classes /\ step \in Nat

LEMMA ClassInit == Init => ClassInv
  BY DEF Init, ClassInv

LEMMA ClassNext == ClassInv /\ [Next]_vars => ClassInv'
<1> SUFFICES ASSUME ClassInv, [Next]_vars PROVE ClassInv'
  OBVIOUS
<1> USE DEF ClassInv
<1>1. ASSUME NEW skip \in BOOLEAN, Client(skip) PROVE ClassInv'
  BY <1>1 DEF Client
<1>2. ASSUME NEW a \in Answers, List(a) PROVE ClassInv'
  BY <1>2 DEF List, Escapes
<1>3. ASSUME NEW a \in Answers, Detail(a) PROVE ClassInv'
  BY <1>3 DEF Detail, NextCall, Omit, Escapes
<1>4. ASSUME NEW a \in Answers, Last(a) PROVE ClassInv'
  BY <1>4 DEF Last, NextCall, Escapes
<1>5. ASSUME NEW i \in Items, Take(i) \/ Vanish(i) \/ PartVanishes(i) PROVE ClassInv'
  BY <1>5 DEF Take, Vanish, PartVanishes
<1>6. CASE Keep \/ AllDetails \/ EndList \/ Parse \/ ParseFails
  BY <1>6 DEF Keep, AllDetails, EndList, Parse, ParseFails
<1>7. CASE UNCHANGED vars
  BY <1>7 DEF vars
<1>8. QED
  BY <1>1, <1>2, <1>3, <1>4, <1>5, <1>6, <1>7 DEF Next, Scan

\* The call at hand is one of those of the class.
LEMMA CallAtHand ==
  ASSUME ClassInv, step < Len(class.details)
  PROVE  /\ OmitsFew(class.details[step + 1])
         /\ class \in Uncaught => RaisesGone(class.details[step + 1])
         /\ class \notin Uncaught => TakesGone(class.details[step + 1])
<1>1. Len(class.details) \in Nat
  BY DetailFacts DEF ClassInv
<1>2. step + 1 \in 1 .. Len(class.details)
  BY <1>1 DEF ClassInv
<1>3. QED
  BY <1>2, DetailFacts DEF ClassInv

-----------------------------------------------------------------------------
(* Which classes a deletion fails                                          *)

\* Why a listing failed, and that the two kinds of classes differ in it.
CauseInv ==
  /\ phase = "raised" => answers \cap {"gone", "denied", "throttled", "error"} # {}
  /\ "gone" \in answers /\ class \in Uncaught => phase = "raised"
  /\ phase = "raised" /\ answers \cap {"denied", "throttled", "error"} = {}
       => class \in Uncaught

\* An answer that fails the class is a cause; "gone" is one of the uncaught only.
LEMMA CauseEscapes ==
  ASSUME CauseInv, NEW a \in Answers \ {"ok", "unset"}, Escapes(a), Answered(a),
         UNCHANGED class, phase # "raised", a = "gone" => class \in Uncaught
  PROVE  CauseInv'
<1>1. "gone" \in answers => class \notin Uncaught
  BY DEF CauseInv
<1>2. CASE a = "ignored"
  BY <1>1, <1>2 DEF CauseInv, Escapes, Answered
<1>3. CASE a # "ignored"
  BY <1>3 DEF CauseInv, Escapes, Answered, Answers
<1>4. QED
  BY <1>2, <1>3

\* An answer other than "gone" that leaves the class going fails none.
LEMMA CauseGoesOn ==
  ASSUME CauseInv, NEW a, a = "gone" => class \notin Uncaught, Answered(a),
         UNCHANGED class, phase # "raised", phase' # "raised"
  PROVE  CauseInv'
  BY DEF CauseInv, Answered

LEMMA CauseNext == ClassInv /\ CauseInv /\ [Next]_vars => CauseInv'
<1> SUFFICES ASSUME ClassInv, CauseInv, [Next]_vars PROVE CauseInv'
  OBVIOUS
<1>1. ASSUME NEW skip \in BOOLEAN, Client(skip) PROVE CauseInv'
  BY <1>1 DEF Client, CauseInv
\* A listing call fails only by a denial or another error.
<1>2. ASSUME NEW a \in Answers, List(a) PROVE CauseInv'
  <2>1. phase = "list" /\ UNCHANGED class /\ Answered(a) /\ a \notin {"gone", "throttled"}
    BY <1>2 DEF List
  <2>2. CASE a = "ok" \/ a \in class.empty
    <3>1. phase' # "raised"
      BY <1>2, <2>2 DEF List
    <3>2. QED
      BY <2>1, <3>1, CauseGoesOn
  <2>3. CASE a # "ok" /\ a \notin class.empty
    <3>1. a \in Answers \ {"ok", "unset"} /\ Escapes(a)
      BY <1>2, <2>3 DEF List
    <3>2. QED
      BY <2>1, <3>1, CauseEscapes
  <2>4. QED
    BY <2>2, <2>3
\* A detail call answered "gone" fails the classes that catch nothing, and no other.
<1>3. ASSUME NEW a \in Answers, Detail(a) PROVE CauseInv'
  <2> DEFINE call == class.details[step + 1]
  <2>1. /\ phase = "details" /\ UNCHANGED class /\ Answered(a) /\ MayAnswer(call, a)
        /\ step < Len(class.details)
    BY <1>3 DEF Detail
  <2>2. \/ /\ UNCHANGED phase /\ a \in call.omit \cup call.keep \cup {"ok", "throttled"}
        \/ ~Tolerated(call, a) /\ Escapes(a)
    BY <1>3 DEF Detail, NextCall, Omit, Retry, TriesLeft
  <2>3. CASE UNCHANGED phase /\ a \in call.omit \cup call.keep \cup {"ok", "throttled"}
    <3>1. a = "gone" => class \notin Uncaught
      BY <2>1, <2>3, CallAtHand DEF RaisesGone
    <3>2. QED
      BY <2>1, <2>3, <3>1, CauseGoesOn
  <2>4. CASE ~Tolerated(call, a) /\ Escapes(a)
    <3>1. a \in Answers \ {"ok", "unset"}
      BY <2>1, <2>4 DEF Tolerated, MayAnswer
    <3>2. a = "gone" => class \in Uncaught
      BY <2>1, <2>4, CallAtHand DEF TakesGone, Tolerated
    <3>3. QED
      BY <2>1, <2>4, <3>1, <3>2, CauseEscapes
  <2>5. QED
    BY <2>2, <2>3, <2>4
<1>4. ASSUME NEW a \in Answers, Last(a) PROVE CauseInv'
  <2>1. /\ phase = "last" /\ UNCHANGED class /\ Answered(a)
        /\ step < Len(class.last) /\ step \in Nat /\ class \in Classes
        /\ a = "gone" => class.last[step + 1].part
        /\ a \in {"ok", "gone", "denied", "ignored", "error"}
    BY <1>4 DEF Last, ClassInv
  <2>2. a = "gone" => class \in Uncaught
    BY <2>1, LastFacts
  <2>3. CASE a = "ok"
    <3>1. phase' # "raised"
      BY <1>4, <2>1, <2>3 DEF Last, NextCall
    <3>2. QED
      BY <2>1, <2>3, <3>1, CauseGoesOn
  <2>4. CASE a # "ok"
    <3>1. Escapes(a)
      BY <1>4, <2>4 DEF Last
    <3>2. QED
      BY <2>1, <2>2, <2>4, <3>1, CauseEscapes
  <2>5. QED
    BY <2>3, <2>4
<1>5. ASSUME NEW i \in Items, Take(i) \/ Vanish(i) \/ PartVanishes(i) PROVE CauseInv'
  BY <1>5 DEF Take, Vanish, PartVanishes, CauseInv
<1>6. CASE Keep \/ AllDetails \/ EndList \/ Parse
  BY <1>6 DEF Keep, AllDetails, EndList, Parse, CauseInv
<1>7. CASE ParseFails
  BY <1>7 DEF ParseFails, CauseInv
<1>8. CASE UNCHANGED vars
  BY <1>8 DEF vars, CauseInv
<1>9. QED
  BY <1>1, <1>2, <1>3, <1>4, <1>5, <1>6, <1>7, <1>8 DEF Next, Scan

\* For every class of the list and any resources, however they and their parts come
\* and go: what is gone when it is asked for fails the scan of EC2Instance, OU and
\* OrgsAccount, and of no other class.
THEOREM DeletionsFailUncaught == Spec => []GoneFailsUncaught
<1>1. Init => CauseInv
  BY DEF Init, CauseInv
<1>2. CauseInv => GoneFailsUncaught
  BY DEF CauseInv, GoneFailsUncaught
<1>3. QED
  BY <1>1, <1>2, ClassInit, ClassNext, CauseNext, PTL DEF Spec

-----------------------------------------------------------------------------
(* A deletion hides nothing else                                           *)

\* While the resources are looked at, each that is there with its parts is to be
\* done, at hand, done or refused; afterwards done or refused, unless the class was
\* given up as one that has no resources.
ListedInv ==
  /\ item = {} \/ \E i \in Items : item = {i}
  /\ phase = "details" => exists \cap intact \subseteq todo \cup item \cup result \cup refused
  /\ phase \in {"last", "parse", "returned"}
       /\ answers \cap ({"ignored"} \cup class.empty) = {}
       => exists \cap intact \subseteq result \cup refused

\* An answer that leaves the class empty breaks the second half's premise.
LEMMA ListedList ==
  ASSUME ListedInv, NEW a \in Answers, List(a)
  PROVE  ListedInv'
<1> USE DEF ListedInv
<1>1. CASE a = "ok"
  BY <1>1 DEF List
<1>2. CASE a # "ok" /\ a \in class.empty
  BY <1>2 DEF List, Answered
<1>3. CASE a # "ok" /\ a \notin class.empty
  BY <1>3 DEF List, Escapes, Answered
<1>4. QED
  BY <1>1, <1>2, <1>3

LEMMA ListedDetail ==
  ASSUME ClassInv, ListedInv, NEW a \in Answers, Detail(a)
  PROVE  ListedInv'
<1> USE DEF ListedInv
<1> DEFINE call == class.details[step + 1]
<1>1. /\ phase = "details" /\ UNCHANGED <<class, exists, intact>>
      /\ Answered(a) /\ MayAnswer(call, a) /\ refused \subseteq refused'
      /\ a = "denied" /\ a \in call.omit => refused' = refused \cup item
  BY DEF Detail
<1>2. CASE UNCHANGED <<phase, todo, item, result>>
  BY <1>1, <1>2
\* A resource is left out only when it is gone or refused.
<1>3. CASE a \in call.omit /\ Omit
  <2>1. a \in {"gone", "denied"}
    BY <1>3, CallAtHand DEF Detail, OmitsFew
  <2>2. CASE a = "gone"
    <3>1. ~(item \subseteq exists) \/ ~(item \subseteq intact)
      BY <1>1, <2>2 DEF MayAnswer
    <3>2. exists \cap intact \cap item = {}
      BY <3>1
    <3>3. QED
      BY <1>1, <1>3, <3>2 DEF Omit
  <2>3. CASE a = "denied"
    BY <1>1, <1>3, <2>3 DEF Omit
  <2>4. QED
    BY <2>1, <2>2, <2>3
<1>4. CASE Escapes(a)
  BY <1>1, <1>4 DEF Escapes, Answered
<1>5. QED
  BY <1>2, <1>3, <1>4 DEF Detail, NextCall

LEMMA ListedNext == ClassInv /\ ListedInv /\ [Next]_vars => ListedInv'
<1> SUFFICES ASSUME ClassInv, ListedInv, [Next]_vars PROVE ListedInv'
  OBVIOUS
<1> USE DEF ListedInv
<1>1. ASSUME NEW skip \in BOOLEAN, Client(skip) PROVE ListedInv'
  BY <1>1 DEF Client
<1>2. ASSUME NEW a \in Answers, List(a) PROVE ListedInv'
  BY <1>2, ListedList
<1>3. ASSUME NEW a \in Answers, Detail(a) PROVE ListedInv'
  BY <1>3, ListedDetail
<1>4. ASSUME NEW a \in Answers, Last(a) PROVE ListedInv'
  <2>1. CASE a = "ok"
    BY <1>4, <2>1 DEF Last, NextCall, Answered
  <2>2. CASE a # "ok"
    BY <1>4, <2>2 DEF Last, Escapes, Answered
  <2>3. QED
    BY <2>1, <2>2
<1>5. ASSUME NEW i \in Items, Take(i) PROVE ListedInv'
  BY <1>5 DEF Take
<1>6. ASSUME NEW i \in Items, Vanish(i) \/ PartVanishes(i) PROVE ListedInv'
  BY <1>6 DEF Vanish, PartVanishes
<1>7. CASE Keep
  BY <1>7 DEF Keep
<1>8. CASE AllDetails
  BY <1>8 DEF AllDetails
<1>9. CASE EndList \/ Parse
  BY <1>9 DEF EndList, Parse
<1>10. CASE ParseFails
  BY <1>10 DEF ParseFails
<1>11. CASE UNCHANGED vars
  BY <1>11 DEF vars
<1>12. QED
  BY <1>1, <1>2, <1>3, <1>4, <1>5, <1>6, <1>7, <1>8, <1>9, <1>10, <1>11
  DEF Next, Scan

\* For every class of the list and any resources: one that is there with its parts
\* when the listing returns is listed, whatever was deleted meanwhile, unless a
\* detail it needs was denied or the class was answered to have none.
THEOREM DeletionsHideNothing == Spec => []SurvivorsListed
<1>1. Init => ListedInv
  BY DEF Init, ListedInv
<1>2. ListedInv => SurvivorsListed
  BY DEF ListedInv, SurvivorsListed
<1>3. QED
  BY <1>1, <1>2, ClassInit, ClassNext, ListedNext, PTL DEF Spec
=============================================================================
