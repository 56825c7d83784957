SPECIFICATION Spec
CONSTANTS
    Configs <- StaticOnly
    MaxFaults = 2
PROPERTY ConfiguredDAIsKnown
