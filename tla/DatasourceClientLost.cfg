SPECIFICATION Spec
CONSTANTS
    Kinds = {"PersesDatasource"}
    Name = "perses"
    FlatName <- MCFlatName
    VolumeSafe <- MCVolumeSafe
    TaggedImages <- MCTaggedImages
    NewV1Specs <- MCNewV1Specs
    NewV2Specs <- MCNewV2Specs
    V1Edits <- MCV1Edits
    V2Edits <- MCV2Edits
    OperatorFlags <- DefaultFlags
    MaxWrites = 2
INVARIANT ReadsBackWhatItWrote
