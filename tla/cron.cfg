CONSTANTS
    r1 = r1
    r2 = r2
    Replicas <- MCReplicas
    Nobody = Nobody
    JobCount = 1
    MaxSlot = 2
    MaxCrashes = 2
    MaxErrors = 3
SPECIFICATION Spec
INVARIANTS SchedulerTypeOK 
 
