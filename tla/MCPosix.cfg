SPECIFICATION PosixSpec
CONSTANTS
    Frequency = 2
    Word = 12
    Nanos = 5
    DefaultHz = 1
    Rates = {0, 2}
    Sleeps <- MCSleeps
    MaxReading = 4
    MaxCounter = 3
    MaxFds = 4
    Counts = {0, 1}
    Installs <- MCInstalls
INVARIANTS
    ClockExact
    TicksNeverFast
    StreamsStayOpen
    FailureReported
 
