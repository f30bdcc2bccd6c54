CONSTANTS
    op1 = op1
    op2 = op2
    Ops <- MCOps
    NoThread = nil
SPECIFICATION ElpFairSpec
INVARIANTS
    NotInElp ComplOnStack WakeupDeliverable
PROPERTIES SleepsInTheEnd InterruptsServed ImplementsChipUse
