SPECIFICATION Spec
CONSTANTS
    Workers = 2
    Layers = 3
    Drafts = 1
    FirstMoE = 1
INVARIANTS
    HybridInv
    SameCalls
    SourcesSequential
    SamplersAgree
    FailsTogether
PROPERTIES
    StepEnds
