SPECIFICATION Spec
CONSTANTS
    MaxFd = 3
    CustomBaud = TRUE
    HasAddress = TRUE
    MaxChanges = 4
INVARIANTS
    DescriptorsKept
    SpeedsAgree
PROPERTIES
    DriverIsServed
CHECK_DEADLOCK FALSE
