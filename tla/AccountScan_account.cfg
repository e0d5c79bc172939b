SPECIFICATION FairSpec
CONSTANTS
    r1 = r1
    r2 = r2
    ec2 = ec2
    iam = iam
    instance = instance
    vpc = vpc
    role = role
    Regions = {r1, r2}
    Services = {ec2, iam}
    Classes <- MCClasses
    ServiceOf <- MCServiceOf
    AccountWide = {role}
    ParallelScan = {role}
    Available <- MCAvailable
    Global = {iam}
    Preferred = {r1, r2}
    RegionWhitelist <- MCAnyRegion
    GlobalWhitelist = {}
    EnabledRegions = {r1, r2}
    Threads = {t1, t2}
CHECK_DEADLOCK FALSE
INVARIANTS TypeOK CompleteOrErrors SerialClassesAlone NothingLeftRunning
PROPERTIES ScanEnds
