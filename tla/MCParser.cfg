CONSTANT Programs <- Both
SPECIFICATION MCSpec
INVARIANTS AcceptsGrammar ResultAlive
PROPERTY Progress
