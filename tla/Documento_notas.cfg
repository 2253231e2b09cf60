SPECIFICATION Spec
CONSTANTS
  rio = rio
  brasilia = brasilia
  goiania = goiania
  sefaz = sefaz
  p1 = p1
  p2 = p2
  p3 = p3
  p4 = p4
  Municipios <- MCMunicipios
  SessaoNacional = rio
  Provedor <- MCProvedor
  LayoutDe <- MCLayoutDe
  vigencias <- MCVigenciasDeTodos
  Datas <- MCDatas
  DiaDoMes <- MCDiaDoMes
  Pedidos = {p1, p2, p3}
  Tipos = {"xml", "transmissao", "cancelamento", "distribuicao"}
  Emissores = {brasilia, goiania, sefaz}
  Sefaz = sefaz
  Pedidas <- EscritasISO
  Informados = {"homologacao", "producao"}
  OpSimpNac = {0, 1, 3}
  SemServico <- MCSemServico
  MaxHoje = 1
SYMMETRY Trocaveis
INVARIANTS
  TypeOK
  SoSaiNoAmbienteGerado
  NaoSuportadaDizAVerdade
  CarimboFoiDado
  CursorNaoTrocaDeFila
  UmaNotaPorDPS
  CancelaOndeANotaEsta
  GeracaoETransmissaoConcordam
