\* Two pages on one cluster that comes and goes, Kubernetes and Proxmox out at any
\* time, restarts, and a fair process.
CONSTANTS
    Pages = {p1, p2}
    Nobody = Nobody
    Long = 2
    Short = 1
    Failing <- MCFailing
SPECIFICATION FairSpec
INVARIANTS
    RecoversInTime
    AnswersAreFresh
PROPERTY PageRecovers
