CONSTANT MaxItems = 6
SPECIFICATION EditSpec
INVARIANTS TypeOK KeepsTarget AnswerFollows
PROPERTIES FindsNeighbour PassesGroup WalkEnds
