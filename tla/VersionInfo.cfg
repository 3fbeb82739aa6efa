SPECIFICATION DumpverSpec
CONSTANTS
    InfoObjects <- MCInfoObjects
    Clients <- MCClients
    Addresses <- MCAddresses
    Files <- MCFiles
    Lengths <- MCLengths
    Platforms = {"ELF", "Windows"}
    CommandLines <- MCCommandLines
    MaxMoves = 3
    None = None
INVARIANTS
    OwnedOnce
    SaysWhatWasEmbedded
    DumpsWhatWasEmbedded

    
CHECK_DEADLOCK FALSE
