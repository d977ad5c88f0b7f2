\* Tokens of three ticks, four attempts (patience seven), two outages, one restart.
CONSTANTS
    LeaseTTL = 3
    Grace = 2
    Attempts = 4
    MaxBackoff = 4
    TicketLife = 2
    MaxKeys = 3
    MaxOutages = 2
    MaxOutage = 8
    MaxRestarts = 1
SPECIFICATION VTSpec
INVARIANTS
    GivesUpLate
    TicketsVerify
PROPERTY TokenComesBack
