CONSTANTS
    Flags = {"flag"}
    LimitTypes = {"RSS", "NPROC", "LOCKS"}
    LIMTYPE = {"RSS"}
    NumCpus = 2
    NumMems = 1
    Unames = {"NODENAME"}
    Paths = {"/", "/proc", "/sbin/init", "/sbin/halt", "/sbin/reboot"}
    Addrs = {"10.0.0.1", "10.0.0.255", "255.255.255.255"}
    KB = 2
    PAGE = 4
    WORD = 16
    Numerals <- MCNumerals
    Digits <- MCDigits
    WORD32 = 8
    Requests <- MCRequests
    MaxChanges = 2
    Supported = {"RSS", "NPROC"}
    DiskUses <- MCDiskUses
SPECIFICATION Spec
INVARIANTS TypeOK LimitReadBack NoLimitAboveAsked
 
