SPECIFICATION MeshSpec
CONSTANTS
    Workload = {w1}
    Port = {1, 2}
    Kinds = {"istio", "cilium", "linkerd", "noop"}
    MaxCalls = 6
    MaxChanges = 2
    MaxFaults = 2
INVARIANTS QuarantineIsComplete ReleaseIsComplete CallsAreIdempotent
CHECK_DEADLOCK FALSE
