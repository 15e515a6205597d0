\* A folder, a file in it and one beside it; what a record promises while runs overlap.
SPECIFICATION Spec
CONSTANTS
    r1 = r1
    r2 = r2
    Run <- TwoRuns
    Root = "root"
    None = "none"
    FolderName <- Folders
    Lower <- Folds
    Malformed = {}
    Objects <- Bucket
    Name <- Names
    Folder <- FolderOf
    FileName <- NameOf
PROPERTIES
    ReimportChangesNothing
CHECK_DEADLOCK FALSE
