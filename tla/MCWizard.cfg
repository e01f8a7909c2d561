SPECIFICATION Spec
CONSTANTS
    Profiles = {"wallex", "nobitex"}
    Wallex = "wallex"
    NoProfile = "none"
    Launchers = {"terminal"}
    Servers = {"backend"}
    Jobs = {"research", "probe", "diagnose", "calibrate"}
    Ports = {1, 2, 3}
    MaxWork = 4
    MaxAnswers = 2
CHECK_DEADLOCK FALSE
INVARIANTS
    NoProfileLost
    BootsLastLaunched
    ReadyWasProven
PROPERTIES
    
    NoAnswerLost
