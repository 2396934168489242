CONSTANTS
    Names = {"web", "mail", "www"}
    Usernames = {"admin", "jo"}
    Groups = {"g", "none"}
    Passwords = {"secret", "word"}
    VCD_CAPS = {"AUTH", "BCAP", "CCAP", "CFLAG", "CREATE", "DLIM", "EXEC", "INFO", "INIT", "MOUNT", "NET", "RLIM", "SCHED", "UNAME"}
    Xids = {2, 3, 4}
    vbasedir <- MCvbasedir
    Templates <- MCTemplates
    Flags = {"flag"}
    LimitTypes = {"RSS", "NPROC"}
    LIMTYPE = {"RSS"}
    NumCpus = 2
    NumMems = 1
    Unames = {"NODENAME"}
    Paths = {"/", "/mnt", "/srv", "/web", "/mail", "/www", "/new", "/proc", "/dev/pts", "/sbin/init", "/sbin/halt", "/sbin/reboot"}
    Addrs = {"10.0.0.1", "10.0.0.2", "255.0.0.0", "255.255.255.255"}
    KB = 2
    PAGE = 4
    WORD = 64
    Numerals <- MCNumerals
    Digits <- MCDigits
    WORD32 = 32
    Clients = {1, 2}
    Sessions <- MCSessions
    VceLines <- MCVceLines
    Configs <- MCConfigs
    Typed <- MCTyped
    Listen <- MCListen
    InitialDb <- MCInitialDb
    InitialLines <- MCInitialLines
    FreshLines <- MCFreshLines
    Garbage <- MCGarbage
    Counters = {0, 8}
    Outcomes = {"ok", "failed", "sys", "timeout", "unborn"}
    Mortal = {3}
SPECIFICATION Spec
INVARIANTS TypeOK SameFormats OwnPassword LoginIntoOne GroupStopped
PROPERTIES ChangesNamed KeepsPromise
