CONSTANTS
    n_models = 3
    max_retries = 2
    n_large = 1
    MaxSteps = 2
    MaxFailed = 2
SPECIFICATION Spec
INVARIANTS
    TypeOK
    FallbackInOrder
    EngineCanRely
