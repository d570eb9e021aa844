CONSTANTS
    NoFile = NoFile
    Blank = Blank
    NoImage = NoImage
    good = good
    sick = sick
    corrupt = corrupt
    damaged = damaged
    torn = torn
    Images <- MCImages
    Partials <- MCPartials
    Mountable <- MCMountable
    Factory = good
    Reports <- MCReports
    MAXTRIES = 3
    Layout = "partition"
    Env = {"cut", "manual", "selftest"}
    Repos <- MCRepos
    Requests <- MCRequests
    MaxEdits = 2
    MaxBuilds = 2
    MaxRot = 1
    ConfBoards <- MCConfBoards
    Keys = {"a", "b"}
    Texts = {"x", "y"}
    MaxSets = 3
    MaxCuts = 2
SPECIFICATION MCSpec
INVARIANTS
    TrialComplete
    CommitSurvivesCut
    
    Composed
    Resolved
    
