\* Two zones, two secrets an operator may type, one field filled in on each page.
CONSTANTS
    Plain = {Default}
    Default = Default
    Typed = {t1, t2}
    Zones = {LabZone, OtherZone}
    LabZone = LabZone
    Own = Own
    Generated = Generated
    Blank = Blank
    Nothing = Nothing
    MaxTyped = 1
SPECIFICATION Spec
SYMMETRY SecretSymmetry
INVARIANTS
    KeysMatch
    SavedAsAsked
    DnsIsUsable
    RecordIsThere
