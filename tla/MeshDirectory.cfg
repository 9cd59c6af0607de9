CONSTANTS
    Services <- MCServices
    Hosts <- MCHosts
    HostOf <- MCHostOf
    Queries = {"q1"}
    Names <- MCNames
    Matched <- MCMatched
    Plain <- MCPlain
    Qualified <- MCQualified
    MaxChanges = 2
SPECIFICATION Spec
INVARIANTS
    TypeOK
    TableMatchesLastReply
PROPERTIES
    ImplementsMeshAnswers
    TableConverges
    ReloaderStops
