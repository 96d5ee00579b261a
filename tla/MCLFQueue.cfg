SPECIFICATION Spec
CONSTANTS
    writer = writer
    flusher = flusher
    syncer = syncer
    Producers = {writer, flusher}
    Consumers = {flusher, syncer}
    Observers = {syncer}
    Values = {0, 1}
    Zero = 0
    Capacity = 2
    MaxTicket = 5
INVARIANTS
    TypeOK
    NoSlotRace
    DequeuesItsTicket
PROPERTIES
    SizeNeverOverstates
    ImplementsFIFO
