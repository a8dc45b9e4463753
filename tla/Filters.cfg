SPECIFICATION Spec
CONSTANTS
  Columns <- ThreeColumns
  Ranks = {1, 2, 3}
  Written <- ThreeWords
  MaxValues = 2
  Callers <- AllCallers
INVARIANTS PlaceholdersBound KeyIsTheQuery SameWordsSameKey OptionsKeyTells
