SPECIFICATION Spec
INVARIANTS ValidationLonger AggregationInvariant
CHECK_DEADLOCK FALSE
