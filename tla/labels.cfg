CONSTANTS
  Label <- MCLabel
  Lower <- MCLower
  DeclaredLabels <- MCDeclared
  Inputs <- MCInputs
  Serials <- MCSerials
  MaxText = 12
SPECIFICATION Spec
INVARIANTS
  FilterKeepsMeaning
  SqlMeansTheFilter
  SelectionIsChecked
  MacroAgreesWithGrammar
  StoredFollowsTheRules
