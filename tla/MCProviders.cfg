CONSTANTS
    a = a
    b = b
    Name <- TwoProviders
    Archive <- Archives
    MaxCommands = 2
SPECIFICATION Spec
INVARIANTS TypeOK PullSettles DamageIsBounded LoadedIsPulled
CHECK_DEADLOCK FALSE
