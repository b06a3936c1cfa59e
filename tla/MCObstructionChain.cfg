SPECIFICATION Spec
CONSTANTS
    Points <- MCPoints
    Sources <- MCSources
    Edited <- MCEdited
    Coarse <- COARSE
    Witnesses <- MCWitnesses
    Gluings <- MCGluings
    Steps <- MCSteps
    SecondMaps <- MCSecondMaps
    Covers <- MCCovers
    Registry <- MCRegistry
    Required <- MCRequired
    Admissions <- MCAdmissions
    Others <- MCOthers
    MaxEvidence = 5
    MaxOfAKind = 3
INVARIANTS
    CertificateSound
    JudgedAsComputed
    PairingCertifies
    VerdictTransported
    StepsCompose
    CombinedAsBranches
    CancellationSolved
    RealisedAsMeasured
PROPERTY
    AssembledAsSupported
