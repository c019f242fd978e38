CONSTANTS
    Kernels <- MCKernels
    Garbage = 255
    PageSize = 2
    DescriptorSize = 1
    Stack = 80
    StackPages = 3
    ImageFrames <- MCImageFrames
    Displays <- MCDisplays
    DevicePaths <- MCDevicePaths
    ModeAddress = 11
    InfoAddress = 14
    PointerSize = 1
    FirstFrame = 10
    MaxForeign = 2
SPECIFICATION Spec
INVARIANTS
    JumpLands
    SegmentsInPlace
    KernelOwnsMachine
    LargestModeShown
    DriverPathRight
PROPERTIES
    KernelStarts
CHECK_DEADLOCK FALSE
