\* Reproduces the hazard at main.c:287: with MCTimer.cfg's clock values, a
\* 1000 ms timer runs only about 2 s after set_timeout().
CONSTANTS
    Ms = 1000
    ClockNsec = {0, 1, 999, 1000, 500000000, 999999000, 999999999}
    Delays = {1, 999, 1000, 999999, 999999999}
    Oversleep = {0, 1}
    MaxWakes = 2
SPECIFICATION FairSpec
PROPERTY NotLate
