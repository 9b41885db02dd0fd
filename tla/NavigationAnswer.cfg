CONSTANT MaxItems = 4
SPECIFICATION Spec
INVARIANT AnswerBelongs
