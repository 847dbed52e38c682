SPECIFICATION Spec
CONSTANTS
    Datasets <- MCDatasets
    Precision = 4
    Threshold = 6
    Limits = {1, 2}
    Anchors = {400}
    Ks <- MCKs
    Bins <- MCBins
    Ranges <- MCRanges
    MaxBins = 3
    Windows <- MCWindows
    Percentiles = {5000, 7500, 9950}
    Batch = 2
    MaxFaults = 1
INVARIANTS ReadsInv PagesSound AggregatesExact TrainingSound
