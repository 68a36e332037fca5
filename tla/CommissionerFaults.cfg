CONSTANTS
  MaxRetry = 2
  Rate = 1
  Ids = {1, 2}
  MaxUpdates = 1
  MaxExpiries = 1
  Lossy = TRUE
  Separate = TRUE
SPECIFICATION Spec
INVARIANTS PetitionBudget AnsweredOnce
