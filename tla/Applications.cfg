SPECIFICATION Spec
CONSTANTS
  None = None
  amina = amina
  brahim = brahim
  chafik = chafik
  r1 = r1
  r2 = r2
  Year = 2027
  Requests <- TwoRequests
  Forms <- TheForms
  Communes <- OneCommune
  Entered <- TwoEntered
  References <- TwoReferences
  Today <- FirstOfMarch
INVARIANTS
  NamesNeither
PROPERTIES
  OneLawfulApplication
SYMMETRY Symmetry
CHECK_DEADLOCK FALSE
