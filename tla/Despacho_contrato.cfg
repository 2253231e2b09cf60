SPECIFICATION Spec
CONSTANTS
  c1 = c1
  c2 = c2
  c3 = c3
  w1 = w1
  w2 = w2
  SemVaga = SemVaga
  Chamadas = {c1, c2, c3}
  Transmissoras = {c1, c2}
  Workers = {w1, w2}
  SemLib = {w2}
  Slots = 1
  MaxCalls = 2
  MaxParadas = 1
SYMMETRY TransmissorasTrocaveis
INVARIANTS
  TypeOK
  IndisponivelNaoTransmite
  SemReenvio
  ReciclarFechaUmaVez
PROPERTIES
  SoIndeterminadoMudaDepois
  CumprePromessa
