SPECIFICATION Spec
CONSTANTS
    Queries = {q1, q2, q3, q4}
    Threshold = 2
    Cooldown = 1
INVARIANT GuacProbesAfterCooldown
