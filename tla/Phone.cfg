SPECIFICATION Spec
INVARIANT IInv
PROPERTIES
    BindingEnds
    BindingReturns
    LastNumberHolds
