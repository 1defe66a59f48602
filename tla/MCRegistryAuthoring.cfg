SPECIFICATION FairSpec
CONSTANTS
    None = None
    Command = {"adopt", "cross", "rename", "policy", "run"}
    Slot <- Slots
    File <- Files
    Entry <- Entries
    FileOf <- FilesOf
    EntryOf <- EntriesOf
    Requires <- Uses
    Authority <- Authorities
    Op <- Ops
    Initial <- Start
    Mortal = {"rename"}
    Faulty = {"rename", "run"}
    Interruptible = {"adopt"}
INVARIANTS TypeOK TornIsMarked MarkedIsUnfinished UsesResolve
PROPERTIES NoLostUpdate ImplementsAtomic CommandsEnd
CHECK_DEADLOCK FALSE
