SPECIFICATION Spec
CONSTANTS
    primary = primary
    secondary = secondary
    apps = apps
    wildcard = wildcard
    api = api
    CRs <- Requests
    DnsNames <- Names
    BaseName <- Base
    FirstPages <- Pages
    Platforms = {"GCP"}
    MaxFaults = 0
INVARIANT RecordStands
\* Once every request has its certificate, nothing is left to do.
CHECK_DEADLOCK FALSE
