\* One component at a time; its bounds are with its instance.
SPECIFICATION FairSpec
CONSTANTS
    a1 = a1
    a2 = a2
    Absent = Absent
PROPERTIES
    JobsAreLeased
    QuarantineEnds
    WhatBeginsEnds
CHECK_DEADLOCK FALSE
