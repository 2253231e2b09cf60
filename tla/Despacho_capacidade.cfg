SPECIFICATION Spec
CONSTANTS
  w2 = w2
  c1 = c1
  c2 = c2
  c3 = c3
  w1 = w1
  SemVaga = SemVaga
  Chamadas = {c1, c2, c3}
  Transmissoras = {c1, c2, c3}
  Workers = {w1}
  SemLib = {}
  Slots = 2
  MaxCalls = 0
  MaxParadas = 2
SYMMETRY TransmissorasTrocaveis
INVARIANTS
  VagasConservadas
  ConcorrenciaNativa
  RaioDaQueda
