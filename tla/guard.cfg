CONSTANTS
    Period = 1
    MaxGap = 2
    Hold = 4
SPECIFICATION FairSpec
PROPERTIES
    NoCommandInDoubt ResumesOnce ResumesInCalm OwnsWhatItSaw
    BackupPauses PrimaryReleases
