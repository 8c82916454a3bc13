SPECIFICATION Spec
CONSTANTS
    Clients = {1, 2}
    NewKey <- MCNewKey
    AuthFiles <- MCAuthFiles
    MaxAuthFaults = 1
    Calls = {1, 2}
    HostNames = {"h"}
    HostKeys = {"k1", "k2"}
    Missing = Missing
    KnownFiles <- MCKnownFiles
    MaxRekeys = 1
    MaxKeygens = 1
    Requests = {1, 2}
    Edits <- MCEdits
    Files <- MCFiles
    EditorItem <- MCEditorItem
    MaxFaults = 1
INVARIANTS AuthorizedSafe KnownSafe ConfigSafe
PROPERTIES HostKeysTrusted 
CHECK_DEADLOCK FALSE
