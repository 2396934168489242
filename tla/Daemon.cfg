CONSTANTS
    Start = s1
    Helpers = {h1, h2}
    Reboots = {r1}
    Others = {o1}
    MaxSignals = 2
    Signals = {"SIGHUP", "SIGTERM"}
SPECIFICATION FairSpec
INVARIANTS TypeOK QuietReload
PROPERTIES ReloadEnds ExitEnds
CHECK_DEADLOCK FALSE
