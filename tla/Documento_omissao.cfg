SPECIFICATION Spec
CONSTANTS
  rio = rio
  brasilia = brasilia
  goiania = goiania
  sefaz = sefaz
  p1 = p1
  p2 = p2
  p3 = p3
  p4 = p4
  Municipios <- MCMunicipios
  SessaoNacional = rio
  Provedor <- MCProvedor
  LayoutDe <- MCLayoutDe
  vigencias <- MCVigenciasNaoOptante
  Datas <- MCDatas
  DiaDoMes <- MCDiaDoMes
  Pedidos = {p1, p2}
  Tipos = {"xml", "transmissao"}
  Emissores = {brasilia}
  Sefaz = sefaz
  Pedidas <- EscritasISO
  Informados = {"producao"}
  OpSimpNac = {0}
  SemServico <- MCSemServico
  MaxHoje = 1
SYMMETRY Trocaveis
INVARIANTS
  GeracaoETransmissaoConcordam
