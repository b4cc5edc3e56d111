CONSTANTS
    Templates <- MCTemplates
    TaskIds = {"a"}
    WorkerIds = {}
    Catalog <- MCCatalog
    Requests <- MCRequests
    MaxPlans = 2
    MaxPackets = 2
SPECIFICATION SpecOrchestrator
INVARIANTS
    OrchestratorTypeOK
    PlansServe
    UnreviewedIsSafe
