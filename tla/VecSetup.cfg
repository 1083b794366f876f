SPECIFICATION Spec
CONSTANTS
    Cpus <- MCCpus
    Masks <- MCMasks
INVARIANT SetupAsAsked
