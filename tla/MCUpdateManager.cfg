SPECIFICATION Spec
CONSTANTS
    Clients = {c1}
    Checkers = {t1}
    NoDir = NoDir
    Faults = 1
    MaxVersion = 3
    MaxSaves = 1
    Prereleases = {3}
    NoSettings = NoSettings
    TornSettings = TornSettings
    MaxSets = 2
    SavingParts = {"settings"}
    Tag <- Tags
    Numbers = {0, 1, 9, 10}
    Labels = {1}
    Builds = {1}
    Lengths = {1, 2, 3, 4}
INVARIANTS InstallationSafe DownloadSafe VersionsOrdered SettingsShown
PROPERTY OfferWanted
CHECK_DEADLOCK FALSE
