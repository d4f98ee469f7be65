SPECIFICATION Spec
CONSTANTS
    api = api
    web = web
    docs = docs
    RepoList <- ThreeRepos
    Batches <- SomeBatches
    Enterprise <- SomeEnterprise
    Protected = {api, web}
    Hidden = {web}
    Branchless = {docs}
    Refused <- SomeRefused
    Concurrency = 2
    MaxRetries = 1
    MaxFaults = 2
    MaxChanges = 1
    None = None
CHECK_DEADLOCK FALSE
INVARIANTS
    CleanBatchIsComplete
    OneStory
    NoticesAreRefusals
    FindingsAreTrue
PROPERTY
    BatchReturns
