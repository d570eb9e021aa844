CONSTANTS
    NoFile = NoFile
    Blank = Blank
    NoImage = NoImage
    good = good
    sick = sick
    corrupt = corrupt
    damaged = damaged
    torn = torn
    Images <- MCImages
    Partials <- MCPartials
    Mountable <- MCMountable
    Factory = good
    Reports <- MCReports
    MAXTRIES = 3
    Layout = "file"
    Env = {"cut", "kill", "manual", "selftest", "retrial"}
SPECIFICATION Spec
INVARIANTS
    CommittedIsVetted
    RunningIntact
    BootsClean
