-------------------------- MODULE ResourceListing --------------------------
(***************************************************************************)
(* How one AWS resource class is listed (AWSResourceSpec.scan and the      *)
(* list_from_aws of each class) while the resources come and go.  Every    *)
(* class follows one pattern: a listing call, then for each resource       *)
(* listed a sequence of calls for its details, then perhaps a last call    *)
(* about all of them.  The classes differ in the answers they tolerate, so *)
(* each is a constant: which answers to a call leave the resource out      *)
(* ("omit"), which only leave the detail out ("keep"), and how often a     *)
(* throttled call is tried.  Any other error ends the listing.             *)
(***************************************************************************)
EXTENDS Naturals, Sequences, FiniteSets

CONSTANTS Items   \* the resources of the class when the listing begins

(* What AWS answers to a call: the resource is gone, it has no such detail *)
(* (bucket tags, a login profile), the caller is denied it, the account    *)
(* does not have the service ("ignored": AWS_API_IGNORE_ERRORS).           *)
Answers == {"ok", "gone", "unset", "denied", "throttled", "ignored", "error"}

-----------------------------------------------------------------------------
(* The classes.                                                            *)

Call(omit, keep, tries) ==
    [omit |-> omit, keep |-> keep, tries |-> tries, part |-> FALSE]

(* The call names something that may go while the resource stays: a policy *)
(* version, an access key, the image of an instance.                       *)
OfPart(call) == [call EXCEPT !.part = TRUE]

Strict == Call({}, {}, 1)

\* Slip: the exception of a deleted resource is not caught.
OmitGoneStrict == Strict

OmitGone == Call({"gone"}, {}, 1)

(* empty: answers to the listing call that mean there is nothing to list.  *)
Class(details, last, empty) ==
    [details |-> details, last |-> last, empty |-> empty, master |-> FALSE]

ListOnly == Class(<<>>, <<>>, {})
WithDetails(details) == Class(details, <<>>, {})

(* The organizations classes are skipped outside the master account.       *)
OfMaster(class) == [class EXCEPT !.master = TRUE]

Account == ListOnly
LambdaFunction == ListOnly
CloudTrailTrail == ListOnly
FlowLog == ListOnly
EC2Image == ListOnly
InternetGateway == ListOnly
EC2NetworkInterface == ListOnly
Region == ListOnly
EC2RouteTable == ListOnly
SecurityGroup == ListOnly
EBSSnapshot == ListOnly
Subnet == ListOnly
TransitGatewayVpcAttachment == ListOnly
EBSVolume == ListOnly
VPC == ListOnly
VpcEndpoint == ListOnly
VpcEndpointService == ListOnly
VPCPeeringConnection == ListOnly
EventBus == ListOnly
InstanceProfile == ListOnly
IAMAWSManagedPolicy == ListOnly
KMSKey == ListOnly
RDSSnapshot == ListOnly
SeverityLevel == ListOnly
Org == OfMaster(ListOnly)

(* The images of all instances are looked up by their ids at the end.      *)
EC2Instance == Class(<<>>, <<OfPart(Strict)>>, {})

(* The attachments of a gateway are filtered, so a gateway that is gone    *)
(* has none.                                                               *)
TransitGateway == WithDetails(<<Call({}, {"gone"}, 1)>>)

(* An account without access to the service has no clusters.               *)
EKSCluster == Class(<<>>, <<>>, {"denied"})

(* No policy is set for the account.                                       *)
IAMAccountPasswordPolicy == Class(<<>>, <<>>, {"unset"})

DynamoDbTable == WithDetails(<<OmitGone, OmitGone>>)
ClassicLoadBalancer == WithDetails(<<OmitGone>>)
LoadBalancer == WithDetails(<<OmitGone>>)
EventsRule == WithDetails(<<OmitGone>>)
IAMGroup == WithDetails(<<OmitGone>>)
IAMOIDCProvider == WithDetails(<<OmitGone>>)
IAMSAMLProvider == WithDetails(<<OmitGone>>)
IAMRole == WithDetails(<<OmitGone>>)

(* The version that was the default when the policy was listed.            *)
IAMPolicy == WithDetails(<<OfPart(OmitGone)>>)

(* get_detector, list_members, get_master_account: the code they are       *)
(* compared with, BadRequestException, is not that of a deletion only.     *)
Detector ==
    WithDetails(<<OfPart(OmitGone), OfPart(OmitGone), OfPart(OmitGone)>>)

(* The backups of instances no longer listed are passed over.              *)
RDSInstance == Class(<<OmitGone>>, <<Strict>>, {})

(* get_target_group_health tries five times.                               *)
TargetGroup == WithDetails(<<Call({"gone"}, {}, 5)>>)

(* Access keys, the last use of each, MFA devices, login profile; for the  *)
(* last, a user that is gone and one without a profile give one answer.    *)
IAMUser ==
    WithDetails(<<OmitGone, OfPart(Call({"gone"}, {"denied"}, 1)), OmitGone,
                  Call({}, {"gone", "unset"}, 1)>>)

(* Location, tags and encryption: without its location a bucket has no     *)
(* ARN, without the others it has defaults.                                *)
S3Bucket ==
    WithDetails(<<Call({"gone", "denied"}, {}, 1),
                  Call({"gone"}, {"unset", "denied"}, 1),
                  Call({"gone"}, {"unset", "denied"}, 1)>>)

(* The units or accounts below each unit are listed in turn, a unit that   *)
(* was just listed or one that was listed before.                          *)
OU == OfMaster(WithDetails(<<Strict>>))
OrgsAccount == OfMaster(WithDetails(<<Strict>>))

Plain ==
    {Account, LambdaFunction, CloudTrailTrail, FlowLog, EC2Image,
     InternetGateway, EC2NetworkInterface, Region, EC2RouteTable,
     SecurityGroup, EBSSnapshot, Subnet, TransitGatewayVpcAttachment,
     EBSVolume, VPC, VpcEndpoint, VpcEndpointService, VPCPeeringConnection,
     EventBus, InstanceProfile, IAMAWSManagedPolicy, KMSKey, RDSSnapshot,
     SeverityLevel}

(* The classes that catch nothing when they ask about what was listed.     *)
Uncaught == {EC2Instance, OU, OrgsAccount}

Classes ==
    Plain \cup Uncaught \cup
    {Org, TransitGateway, EKSCluster, IAMAccountPasswordPolicy,
     DynamoDbTable, ClassicLoadBalancer, LoadBalancer, EventsRule, IAMGroup,
     IAMOIDCProvider, IAMSAMLProvider, IAMPolicy, IAMRole, Detector,
     RDSInstance, TargetGroup, IAMUser, S3Bucket}

-----------------------------------------------------------------------------
VARIABLES
    class,      \* the class that is listed
    exists,     \* the resources there are
    intact,     \* those whose parts are all there
    phase,      \* "client", "list", "details", "last", "parse" and the ends
    todo,       \* resources listed whose details are not complete
    item,       \* the one at hand: at most one
    step,       \* how many of its calls, or last calls, are answered
    tries,      \* how often the call at hand was throttled
    result,     \* the resources of the ListFromAWSResult
    answers,    \* history: the answers so far
    refused     \* history: the resources left out because of a denial

vars == <<class, exists, intact, phase, todo, item, step, tries, result,
          answers, refused>>

Init ==
    /\ class \in Classes
    /\ exists = Items /\ intact = Items
    /\ phase = "client"
    /\ todo = {} /\ item = {} /\ step = 0 /\ tries = 0
    /\ result = {} /\ answers = {} /\ refused = {}

Ended == phase \in {"returned", "raised"}

(* A resource is deleted at any time.                                      *)
Vanish(i) ==
    /\ i \in exists /\ ~Ended
    /\ exists' = exists \ {i}
    /\ UNCHANGED <<class, intact, phase, todo, item, step, tries, result,
                   answers, refused>>

(* A part of a resource is deleted, or replaced by another.                *)
PartVanishes(i) ==
    /\ i \in intact /\ ~Ended
    /\ intact' = intact \ {i}
    /\ UNCHANGED <<class, exists, phase, todo, item, step, tries, result,
                   answers, refused>>

(* The client is made; outside its master account an organization has      *)
(* nothing to list.                                                        *)
Client(skip) ==
    /\ phase = "client"
    /\ skip => class.master
    /\ phase' = IF skip THEN "parse" ELSE "list"
    /\ answers' = IF skip THEN answers \cup {"ignored"} ELSE answers
    /\ UNCHANGED <<class, exists, intact, todo, item, step, tries, result, refused>>

Answered(a) == answers' = answers \cup {a}

(* An error that reaches _list_from_aws: with a code that is ignored the   *)
(* class has no resources, also if some were listed; otherwise it raises.  *)
Escapes(a) ==
    /\ phase' = IF a = "ignored" THEN "parse" ELSE "raised"
    /\ result' = {} /\ todo' = {} /\ item' = {}
    /\ step' = 0 /\ tries' = 0

List(a) ==
    /\ phase = "list" /\ a \notin {"gone", "throttled"}
    /\ a = "unset" => a \in class.empty
    /\ Answered(a)
    /\ IF a = "ok" THEN phase' = "details" /\ todo' = exists
                        /\ UNCHANGED <<item, step, tries, result>>
       ELSE IF a \in class.empty
            THEN phase' = "parse" /\ UNCHANGED <<todo, item, step, tries, result>>
            ELSE Escapes(a)
    /\ UNCHANGED <<class, exists, intact, refused>>

(* The next resource of the pages.                                         *)
Take(i) ==
    /\ phase = "details" /\ item = {} /\ i \in todo
    /\ item' = {i} /\ todo' = todo \ {i}
    /\ UNCHANGED <<class, exists, intact, phase, step, tries, result, answers,
                   refused>>

Keep ==
    /\ phase = "details" /\ item # {} /\ step = Len(class.details)
    /\ result' = result \cup item
    /\ item' = {} /\ step' = 0
    /\ UNCHANGED <<class, exists, intact, phase, todo, tries, answers, refused>>

(* AWS says of a resource that is gone that it is, and says the same when  *)
(* the part of it that the call names is gone; it says that a detail is    *)
(* unset only where there may be none.                                     *)
MayAnswer(call, a) ==
    /\ ~(item \subseteq exists) => a = "gone"
    /\ a = "gone" => \/ ~(item \subseteq exists)
                     \/ call.part /\ ~(item \subseteq intact)
    /\ a = "unset" => a \in call.keep

NextCall == step' = step + 1 /\ tries' = 0 /\ UNCHANGED <<phase, todo, item, result>>

\* Slip: the exception is caught outside the loop over the resources.
OmitRest ==
    /\ item' = {} /\ todo' = {} /\ step' = 0 /\ tries' = 0
    /\ UNCHANGED <<phase, result>>

Omit ==
    /\ item' = {} /\ step' = 0 /\ tries' = 0
    /\ UNCHANGED <<phase, todo, result>>

TriesLeft(call, a) == a = "throttled" /\ tries + 1 < call.tries

\* Slip: the count of the tries starts again.
RetryForever(call, a) ==
    /\ a = "throttled" /\ call.tries > 1
    /\ tries' = IF tries = 0 THEN 1 ELSE 0

Retry(call, a) == TriesLeft(call, a) /\ tries' = tries + 1

Tolerated(call, a) == a \in call.omit \cup call.keep \cup {"ok"}

Detail(a) ==
    /\ phase = "details" /\ item # {} /\ step < Len(class.details)
    /\ LET call == class.details[step + 1]
       IN  /\ MayAnswer(call, a)
           /\ \/ a \in call.keep \cup {"ok"} /\ NextCall
              \/ a \in call.omit /\ Omit
              \/ Retry(call, a) /\ UNCHANGED <<phase, todo, item, step, result>>
              \/ ~Tolerated(call, a) /\ ~TriesLeft(call, a) /\ Escapes(a)
           /\ refused' = IF a = "denied" /\ a \in call.omit
                         THEN refused \cup item ELSE refused
    /\ Answered(a)
    /\ UNCHANGED <<class, exists, intact>>

AllDetails ==
    /\ phase = "details" /\ item = {} /\ todo = {}
    /\ phase' = "last"
    /\ UNCHANGED <<class, exists, intact, todo, item, step, tries, result,
                   answers, refused>>

(* The last call names other resources, which may be gone, or lists them.  *)
Last(a) ==
    /\ phase = "last" /\ step < Len(class.last)
    /\ a \in {"ok", "gone", "denied", "ignored", "error"}
    /\ a = "gone" => class.last[step + 1].part
    /\ IF a = "ok" THEN NextCall ELSE Escapes(a)
    /\ Answered(a)
    /\ UNCHANGED <<class, exists, intact, refused>>

EndList ==
    /\ phase = "last" /\ step = Len(class.last)
    /\ phase' = "parse"
    /\ UNCHANGED <<class, exists, intact, todo, item, step, tries, result,
                   answers, refused>>

(* The schema turns every resource into links; one it cannot parse fails   *)
(* the class.                                                              *)
Parse ==
    /\ phase = "parse"
    /\ phase' = "returned"
    /\ UNCHANGED <<class, exists, intact, todo, item, step, tries, result,
                   answers, refused>>

ParseFails ==
    /\ phase = "parse" /\ result # {}
    /\ phase' = "raised"
    /\ answers' = answers \cup {"error"}
    /\ UNCHANGED <<class, exists, intact, todo, item, step, tries, result, refused>>

Scan ==
    \/ \E skip \in BOOLEAN : Client(skip)
    \/ \E a \in Answers : List(a) \/ Detail(a) \/ Last(a)
    \/ \E i \in Items : Take(i)
    \/ Keep \/ AllDetails \/ EndList \/ Parse \/ ParseFails

Next == Scan \/ \E i \in Items : Vanish(i) \/ PartVanishes(i)

(* AWS answers every call.                                                 *)
Spec == Init /\ [][Next]_vars /\ WF_vars(Scan)

-----------------------------------------------------------------------------
(* A resource or a part of it that is gone when it is asked about fails    *)
(* exactly the classes that catch nothing (list_from_aws of EC2Instance,   *)
(* OU and OrgsAccount), and with the class the account; any other class    *)
(* goes on, and fails only by a denial, throttling or some other error.    *)
GoneFailsUncaught ==
    /\ phase = "raised" => answers \cap {"gone", "denied", "throttled", "error"} # {}
    /\ "gone" \in answers /\ answers \cap {"denied", "throttled", "error"} = {}
         => (phase = "raised" <=> class \in Uncaught)

(* A resource that is there when the listing returns, with the parts it    *)
(* had, is in the result, whatever others were deleted meanwhile, unless a *)
(* detail it needs was denied or the account does not have the service.    *)
(* (A policy whose default version was replaced, or a user whose access    *)
(* key was deleted, during the listing may be left out.)                   *)
SurvivorsListed ==
    phase = "returned" /\ answers \cap ({"ignored"} \cup class.empty) = {}
        => exists \cap intact \subseteq result \cup refused

(* Every listing ends, however AWS throttles it.                           *)
ListingEnds == <>Ended
=============================================================================
