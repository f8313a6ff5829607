SPECIFICATION Spec
CONSTANT BatchSize = 2
INVARIANT CountsIsolations
