SPECIFICATION StdinSpec
CONSTANTS
    high = high
    low = low
    NoRate = NoRate
    Absent = Absent
    Renditions <- TwoRenditions
    Bitrate <- OnlyHighPriced
    Descs = {1, 2}
    Rates = {NoRate, 9}
    Tracks = {1, 2, 3}
    Workers = {}
    Readers = {stdin}
    Watchers = {}
    OwnTracks <- NoWorkers
PROPERTIES
    AdvertisedSpec
