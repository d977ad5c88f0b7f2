\* Two Initialize requests that bring all their secrets.
CONSTANTS
    Ops = {o1, o2}
    Kinds = {"replace"}
    Earlier = Earlier
    NoOne = NoOne
    MaxCerts = 1
    MaxMissed = 0
    MaxCrashes = 0
SPECIFICATION Spec
INVARIANT EditModeFindsSecrets
\* The bounded set of requests runs out.
CHECK_DEADLOCK FALSE
