SPECIFICATION Spec
CONSTANTS
    None = None
    Command = {"adopt", "relocate"}
    Slot <- Slots
    File <- Files
    Entry <- Entries
    FileOf <- FilesOf
    EntryOf <- EntriesOf
    Requires <- Uses
    Authority <- Authorities
    Op <- Ops
    Initial <- Start
    Mortal = {}
    Faulty = {"relocate"}
    Interruptible = {}
INVARIANTS MarkedIsUnfinished
CHECK_DEADLOCK FALSE
