\* two fields, every combination of what the sources may say of them
SPECIFICATION SettingsSpec
CONSTANTS
    Fields <- AllFields
    Default <- AllDefaults
    Invalid <- AllInvalid
    Stages <- AllStages
    Normal <- Spellings
    Inits <- SomeInits
    Environs <- SomeEnvirons
    DotEnvs <- SomeDotEnvs
    FileSets <- SomeFileSets
    Compose <- Join
    Nil = Nil
    Error = Error
    Broken = Broken
\* Settings() is called once
CHECK_DEADLOCK FALSE
INVARIANTS
    StageIsTheLayer
    TestIsHermetic
    PlaceholdersAgree
    NoHoleIsPapered
