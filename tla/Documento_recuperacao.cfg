SPECIFICATION Spec
CONSTANTS
  rio = rio
  brasilia = brasilia
  goiania = goiania
  sefaz = sefaz
  p1 = p1
  p2 = p2
  p3 = p3
  p4 = p4
  Municipios <- MCMunicipios
  SessaoNacional = rio
  Provedor <- MCProvedor
  LayoutDe <- MCLayoutDe
  vigencias <- MCVigencias
  Datas <- MCDatas
  DiaDoMes <- MCDiaDoMes
  Pedidos = {p1, p2, p3, p4}
  Tipos = {"xml", "transmissao", "lote", "consulta-dps"}
  Emissores = {brasilia}
  Sefaz = sefaz
  Pedidas <- EscritasISO
  Informados = {"producao"}
  OpSimpNac = {3}
  SemServico <- MCSemServico
  MaxHoje = 0
SYMMETRY Trocaveis
INVARIANTS
  NotaSemAvisoNaoExiste
  AutorizadoSoSeExiste
  AusenteSoSeNaoExiste
