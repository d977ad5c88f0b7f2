\* Three requests of any kind on an installation that is new or has a user and
\* a session; sessions of one tick, a clock that outlives them, one restart.
CONSTANTS
    Requests = {r1, r2, r3}
    Passwords = {old, new}
    Earlier = Earlier
    Nobody = Nobody
    TTL = 1
    MaxTime = 1
    MaxCrashes = 1
SPECIFICATION Spec
SYMMETRY AuthSymmetry
INVARIANTS
    SetupsOverlap
    PasswordWasKnown
    AcknowledgedPasswordWorks
    LogoutIsFinal
\* The bounded set of requests runs out.
CHECK_DEADLOCK FALSE
