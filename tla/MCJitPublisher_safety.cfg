SPECIFICATION JitSpec
CONSTANTS
    high = high
    low = low
    NoRate = NoRate
    Absent = Absent
    Renditions <- TwoRenditions
    Bitrate <- Nine
    Descs = {1}
    Rates = {NoRate, 9}
    Tracks = {1, 2, 3, 4}
    Workers = {high, low}
    Readers = {}
    Watchers = {watcher}
    OwnTracks <- BothTracks
    Passthrough = {}
    InitialFiles <- AdvertiseAll
    Edits <- FewEdits
INVARIANTS
    SerialPublishesConverge
    OneTrackPerRendition
    DeadTracksOnlyAfterError
