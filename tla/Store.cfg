\* One component at a time; its bounds are with its instance. The copy is
\* requested and tried again, and a deletion tried twice.
SPECIFICATION SuiteSpec
CONSTANTS
    r1 = r1
    r2 = r2
    r3 = r3
    v1 = v1
    v2 = v2
    v3 = v3
    Absent = Absent
    Request = {r1, r2}
    MaxPurges = 2
    Importing <- FolderFileAndOddKey
    Handing <- TwoOpeners
    Planning <- UpToSixParts
    Staged <- OneStagingKey
    Scanning <- ThreeRevisions
    Previewing <- OneImage
    Mailing <- TwoMessages
    Charging <- ThreeUploads
    Auditing <- OneAudited
INVARIANTS
    TypeOK
    PublishedCopyStored
    AnsweredCopyStays
    PartsMakeUpTheFile
    RowsTellTheTruth
    OnlyCleanShown
    AdmittedWithinQuota
PROPERTIES
    SettledStays
CHECK_DEADLOCK FALSE
