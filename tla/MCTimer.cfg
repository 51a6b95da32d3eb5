\* The 1000 ms predecessor timer, set at clock values at and around the
\* second and microsecond boundaries, with select() woken early by a ready
\* descriptor up to twice per timer, 1 ns to 1 s - 1 ns after it starts
\* waiting, and the kernel sleeping exactly the timeout or 1 ns more.
CONSTANTS
    Ms = 1000
    ClockNsec = {0, 1, 999, 1000, 500000000, 999999000, 999999999}
    Delays = {1, 999, 1000, 999999, 999999999}
    Oversleep = {0, 1}
    MaxWakes = 2
SPECIFICATION FairSpec
INVARIANT TypeOK
INVARIANT SelectTimeoutValid
PROPERTY NeverEarly
PROPERTY WakeFires
PROPERTY TimerFires
