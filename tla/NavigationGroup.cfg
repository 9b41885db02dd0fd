CONSTANT MaxItems = 4
SPECIFICATION Spec
PROPERTY SaysEndAtEnd
