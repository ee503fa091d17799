\* Up to 34 failures in a row, about a quarter of an hour without a server; in milliseconds, maxima
\* at, under and between the delays, the default 30 s, and 0, which leaves no wait.
SPECIFICATION Spec
CONSTANTS
    Second = 1000
    MaxDelays = {0, 300, 1000, 1500, 8000, 30000, 60000, 900000}
    MaxFailures = 34
    Doublings = 13
PROPERTIES
    ExponentialBackoff
