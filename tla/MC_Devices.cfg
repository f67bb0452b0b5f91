SPECIFICATION Spec
CONSTANTS
    Fs <- MC_Fs
    Entries <- MC_Entries
    WeightInputs <- MC_WeightInputs
    ReadBpsInputs <- MC_ReadBpsInputs
    WriteBpsInputs <- MC_WriteBpsInputs
    DeviceInputs <- MC_DeviceInputs
    PrivilegedInputs = {FALSE, TRUE}
    TemplateDevs <- MC_TemplateCg
    TemplateCg <- MC_TemplateCg
    LIST_DEVICE_SIZE_MAX = 4
    MAX_PATH_DEPTH = 2
    SizeWidth = 8
    AllocCanFail = TRUE
INVARIANTS
    EnumerationMatchesSpec
    DevicesPairedWithRules
    PrivilegedGetsAllDevices
    MergeFailsOnlyOnFault
CHECK_DEADLOCK FALSE
