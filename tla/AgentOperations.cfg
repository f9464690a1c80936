\* Two of three requests, redelivered, two of which expire within the bound; a journal
\* with room for one of them, and up to two failures or crashes.
CONSTANTS
    reboot = reboot
    pause = pause
    picture = picture
    None = None
    Requests = {reboot, pause, picture}
    Kind <- Kinds
    Deadline <- Late
    MaxEntries = 1
    MaxTime = 2
    MaxFaults = 2
SPECIFICATION FairSpec
CONSTRAINT TwoSent
PROPERTIES HonestAgent EveryRequestEnds
