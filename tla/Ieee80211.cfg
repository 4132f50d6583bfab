CONSTANTS
    Ifs = {"wlan0", "wlan1"}
    Records <- MCRecords
    Results <- MCResults
    Driver <- MCDriver
    Bsses = {"home"}
    IMAX = 1
    NWID_LEN = 4
    MaxQueue = 2
SPECIFICATION Spec
INVARIANTS
    FreshScan
    ReportTruthful
    StatusTruthful
 
