SPECIFICATION FairSpec
CONSTANTS
    writer = writer
    flusher = flusher
    syncer = syncer
    Producers = {writer, flusher}
    Consumers = {flusher, syncer}
    Observers = {syncer}
    Values = {0}
    Zero = 0
    Capacity = 2
    MaxTicket = 5
PROPERTIES
    ClaimedPairsFinish
    CloseReleases
