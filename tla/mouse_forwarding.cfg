\* One button and two axes; a report holds movements of -2 to 1.
SPECIFICATION FairSpec
CONSTANTS
    Axes = {"x", "wheel"}
    Wheel = "wheel"
    Buttons = {1}
    Steps <- MCSteps
    Lo <- MCLo
    Hi = 1
    QueueCap = 1
    Protocols = {"boot", "report"}
    MaxSteps = 1
    None = None
CONSTRAINT WhileRunning
INVARIANTS TypeOK MovementIsKept NoButtonStuck HostIsCurrent
PROPERTIES HostCatchesUp
