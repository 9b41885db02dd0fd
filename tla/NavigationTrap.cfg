CONSTANT MaxItems = 5
SPECIFICATION Spec
PROPERTY WalkReturns
