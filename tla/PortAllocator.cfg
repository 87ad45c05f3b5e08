SPECIFICATION Spec
CONSTANTS
    MinPort = 4
    MaxPort = 14
INVARIANTS
    Conservation
    ExhaustedOnlyWhenAllOut
PROPERTY
    RefinesPool
