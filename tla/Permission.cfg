CONSTANTS
    f1 = f1
    f2 = f2
    self = self
    other = other
    File = {f1, f2}
    Regular = {f1}
    Id = {self, other}
    euid = self
    egid = self
    Mode <- MCMode
    Flag <- MCFlag
    NOTHING = NOTHING
    MaxChanges = 2
SPECIFICATION CheckSpec
INVARIANTS
    CheckTypeOK
    VerdictOfOneMoment
    DescriptorsBalanced
    RefusalLegible
