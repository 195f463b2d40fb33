SPECIFICATION Spec
CONSTANT
    Years <- ThisCentury
INVARIANTS
    TypeOK
    MatchesCalendar
CHECK_DEADLOCK FALSE
