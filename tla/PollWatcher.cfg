SPECIFICATION Spec
CONSTANTS
    Subs = {s1, s2}
    Nil = Nil
    MaxValue = 3
    Loops = 2
    MaxStops = 1
    StartsSick = {TRUE, FALSE}
INVARIANTS WatcherSafe BroadcastSafe
PROPERTIES FirstUpdateArrives StreamGoesForward ReaderNeverGoesBack
CHECK_DEADLOCK FALSE
