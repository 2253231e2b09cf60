SPECIFICATION FairSpec
CONSTANTS
  p1 = p1
  p2 = p2
  p3 = p3
  w1 = w1
  w2 = w2
  Api = Api
  Sonda = Sonda
  Nenhum = Nenhum
  Pedidos = {p1, p2}
  Transmissoras = {p1}
  Duplos = {p2}
  Workers = {w1, w2}
  Destinos <- MCDestinos
  Teto = 1
  Margem = 2
  PrazoDaSonda = 1
  Atraso = 1
  MaxSinais = 1
  MaxSondas = 1
CHECK_DEADLOCK FALSE
INVARIANTS
  TypeOK
  SemLimboDeQuemTinhaVaga
PROPERTIES
  IndisponivelComMotivo
  WorkerNaoCortaQuemEspera
  WorkerTermina
  SondaTermina
