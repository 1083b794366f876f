SPECIFICATION Spec
CONSTANTS
    Cpus <- MCCpus
    Masks <- MCMasks
INVARIANTS EnabledAvailable SetupExact
