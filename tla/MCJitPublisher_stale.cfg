SPECIFICATION JitSpec
CONSTANTS
    high = high
    low = low
    NoRate = NoRate
    Absent = Absent
    Renditions <- OneRendition
    Bitrate <- NoBitrate
    Descs = {1}
    Rates = {NoRate}
    Tracks = {1, 2}
    Workers = {high}
    Readers = {}
    Watchers = {watcher}
    OwnTracks <- HighTracks
    Passthrough = {}
    InitialFiles <- AdvertiseAll
    Edits <- FewEdits
PROPERTIES
    UnadvertisedStayOut
