SPECIFICATION Spec
CONSTANTS
    Kinds = {"Perses", "PersesDashboard"}
    Name = "perses"
    FlatName <- MCFlatName
    VolumeSafe <- MCVolumeSafe
    TaggedImages <- MCTaggedImages
    NewV1Specs <- MCNewV1Specs
    NewV2Specs <- MCNewV2Specs
    V1Edits <- MCV1Edits
    V2Edits <- MCV2Edits
    OperatorFlags <- MCOperatorFlags
    MaxWrites = 4
INVARIANT ApiInv
INVARIANT ReadsBackWhatItWrote
INVARIANT V1RewriteKeepsDeployment
INVARIANT PodCanStart
INVARIANT PortsAgree
