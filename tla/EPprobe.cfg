SPECIFICATION Spec
INVARIANTS TypeOK VerdictIsTrue StructuralIsTrue VantageBlamed ThrottledIsSkipped ChainIDIsKnown
PROPERTIES Answers
