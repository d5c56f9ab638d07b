SPECIFICATION FairSpec
CONSTANTS
    primary = primary
    secondary = secondary
    apps = apps
    wildcard = wildcard
    api = api
    CRs <- Requests
    DnsNames <- Names
    BaseName <- Base
    FirstPages <- Pages
    Platforms = {"AWS", "GCP", "Azure"}
    MaxFaults = 2
INVARIANTS TypeOK RecordStandsOnRoute53 CleanedUp OrdersOK
PROPERTY Issues
\* Once every request has its certificate, nothing is left to do.
CHECK_DEADLOCK FALSE
