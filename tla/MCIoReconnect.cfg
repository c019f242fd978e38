CONSTANTS
    Handles = {h1, h2, h3, h4}
SPECIFICATION Spec
INVARIANTS
    ConnectsTheRoots
CHECK_DEADLOCK FALSE
