SPECIFICATION Spec
CONSTANT Lines <- MCLines
INVARIANTS IndexesInRange RecordHasNoHoles VarnishLinesAreKept
CHECK_DEADLOCK FALSE
