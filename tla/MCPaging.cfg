CONSTANTS
    Entries = 8
    Spans = 2
    Pages <- MCPages
    Frames <- MCFrames
    Flags <- MCFlags
    MaxTables = 9
SPECIFICATION Spec
INVARIANTS
    TablesFormTree
PROPERTIES
    TranslationSpec
    MapsWhatIsAsked
CHECK_DEADLOCK FALSE
