\* Two requests to one process, for any two files. After the last request nothing happens, so deadlock is not checked.
CONSTANTS
    Image <- Files
    MaxLoads = 2
SPECIFICATION Spec
CHECK_DEADLOCK FALSE
INVARIANTS
    TypeOK
    PixelsAsFile
    FoundIfReadable
    DrawnAsSent
