CONSTANTS
  Clients = {1, 2, 3}
  Position <- MCPosition
  Informations <- MCInformations
  Supports <- MCSupports
  Directions <- MCDirections
  Ridge = 1
  RadiusOf <- MCRadiusOf
  ActionNorms <- MCActionNorms
  BallRadius = 8
  BudgetFractions <- MCBudgetFractions
  FractionUnit = 4
  SelectionSeeds = 2
SPECIFICATION SelectionSpec
CHECK_DEADLOCK FALSE
PROPERTY AddedClientsNeverWiden
