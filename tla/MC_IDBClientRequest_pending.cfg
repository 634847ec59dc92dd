CONSTANTS
    r1 = r1
    r2 = r2
    n1 = n1
    Reqs <- MCReqs
    IndexNames <- MCIndexNames
    MaxIterations <- MCMaxIterations
    MaxIndexObjects <- MCMaxIndexObjects
SPECIFICATION Spec
\* Once the context is destroyed and the server has answered, nothing runs.
CHECK_DEADLOCK FALSE
INVARIANT InFlightRequestPending
