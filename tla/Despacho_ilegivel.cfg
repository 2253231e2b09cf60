SPECIFICATION Spec
CONSTANTS
  w2 = w2
  c3 = c3
  c1 = c1
  c2 = c2
  w1 = w1
  SemVaga = SemVaga
  Chamadas = {c1, c2}
  Transmissoras = {c1}
  Workers = {w1}
  SemLib = {}
  Slots = 1
  MaxCalls = 2
  MaxParadas = 1
INVARIANT FalhaNaLibEhErroDaLib
