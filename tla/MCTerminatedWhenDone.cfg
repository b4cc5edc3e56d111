CONSTANTS
    Templates <- MCTemplates
    TaskIds = {"a"}
    WorkerIds = {w}
    Catalog <- MCCatalog
    Requests <- MCRequests
    MaxPlans = 1
    MaxPackets = 2
SPECIFICATION SpecOrchestrator
INVARIANTS
    TerminatedWhenDone
