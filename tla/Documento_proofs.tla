-------------------------- MODULE Documento_proofs --------------------------
(***************************************************************************)
(* Theorems about Documento and Rota, for any number of requests, any      *)
(* calendar and any tables of municipalities and of vigencias.             *)
(*                                                                         *)
(* Nothing of the routing is kept by the server, so what the properties    *)
(* need is an agreement between what the client holds and where the        *)
(* document is: the XML never changes once it left, its route is worked    *)
(* out of it alone, and every system that has it is the one of that route. *)
(***************************************************************************)
EXTENDS Documento, FiniteSetTheorems, TLAPS

USE RotaAssumption, DocumentoAssumption DEF RotaAssumption, DocumentoAssumption

-----------------------------------------------------------------------------
(* The routes.                                                             *)

\* A municipality of the national class has one system only.
LEMMA NacionalTemUmCaminho ==
  ASSUME NEW m \in Municipios, Provedor[m] = PadraoNacional,
         NEW op, NEW comp
  PROVE  ~ TemDoisCaminhos(m) /\ ~ PeloAmbienteNacional(m, op, comp)
BY DEF TemDoisCaminhos, PeloAmbienteNacional

\* The key of a note leads back to the system that generated it: position 8
\* tells the two systems of a municipality apart (rota.go, DaNota and DoEvento).
THEOREM DaNotaAchaONotaDaEmissao ==
  ASSUME NEW m \in Municipios, NEW op, NEW comp, NEW r2, NEW op2, NEW comp2,
         r2 = DoEvento(RotaDoMunicipio(m), "cancelamento", op2, comp2,
                AmbienteGerador(Sistema(DaEmissao(RotaDoMunicipio(m), op, comp)), m))
  PROVE  Sistema(r2) = Sistema(DaEmissao(RotaDoMunicipio(m), op, comp))
<1> DEFINE r == RotaDoMunicipio(m)
           s == Sistema(DaEmissao(r, op, comp))
<1>0. r2 = DaNota(r, AmbienteGerador(s, m)) /\ r.municipio = m /\ r.sessao = m
  BY DEF DoEvento, RotaDoMunicipio
<1>1. CASE PeloAmbienteNacional(m, op, comp)
  <2>1. Sistema(Nacional(r)) = SessaoNacional
    BY DEF Nacional, Sistema, SistemaDaSessao, RotaDoMunicipio
  <2>2. s = SessaoNacional /\ TemDoisCaminhos(m)
    BY <1>0, <1>1, <2>1 DEF DaEmissao, TemDoisCaminhos, PeloAmbienteNacional
  <2>3. AmbienteGerador(s, m) = "2"
    BY <2>2 DEF AmbienteGerador
  <2> QED
    BY <1>0, <2>1, <2>2, <2>3 DEF DaNota
<1>2. CASE ~ PeloAmbienteNacional(m, op, comp)
  <2>1. s = Sistema(r)
    BY <1>0, <1>2 DEF DaEmissao
  <2>2. CASE Provedor[m] = PadraoNacional
    BY <1>0, <2>1, <2>2, NacionalTemUmCaminho DEF DaNota
  <2>3. CASE Provedor[m] # PadraoNacional
    <3>1. s = m /\ m # SessaoNacional
      BY <1>0, <2>1, <2>3 DEF Sistema, SistemaDaSessao
    <3>2. AmbienteGerador(s, m) # "2"
      BY <3>1 DEF AmbienteGerador
    <3> QED
      BY <1>0, <2>1, <3>2 DEF DaNota
  <2> QED
    BY <2>2, <2>3
<1> QED
  BY <1>1, <1>2

\* Where a regime left out changes the system: the document of the provider of
\* the city says 1, which the request did not say, and there is a line for 1.
OmissaoTrocaDeRota(m) ==
  /\ LayoutDe[m] = "padrao_nacional"
  /\ \E v \in vigencias : v.municipio = m /\ v.opSimpNac = RegimeEscrito(0)

\* A competence written AAAA-MM-DD and a regime that was given, or whose default
\* has no line: the finished document leads to the system that the request led to
\* (rota.go, DaEmissao and DaDPSPronta; ini.go:52 and 65 write what they read).
THEOREM DaDPSProntaSegueAEmissao ==
  ASSUME NEW m \in Municipios, NEW op \in OpSimpNac, NEW dia \in Datas,
         op # 0 \/ ~ OmissaoTrocaDeRota(m),
         NEW hoje_, NEW ambiente, NEW comp, comp = EscritaEm(dia),
         NEW r, r = DaEmissao(RotaDoMunicipio(m), op, comp)
  PROVE  DaDPSPronta(RotaDoMunicipio(m),
                     DocumentoDa(r, op, DataBR(comp, hoje_), ambiente)) = r
<1> DEFINE xml_ == DocumentoDa(r, op, DataBR(comp, hoje_), ambiente)
<1>1. DataBR(comp, hoje_) = dia
  BY DEF DataBR, EscritaEm
<1>2. RotaDoMunicipio(m).municipio = m /\ RotaDoMunicipio(m).sessao = m
  BY DEF RotaDoMunicipio
<1>3. CASE LayoutDe[r.sessao] = "padrao_nacional"
  <2>1. xml_.opSimpNac = RegimeEscrito(op) /\ xml_.dCompet = comp
    BY <1>1, <1>3 DEF DocumentoDa
  <2>2. CASE op # 0
    BY <2>1, <2>2 DEF RegimeEscrito, DaDPSPronta
  <2>3. CASE op = 0
    <3>1. ~ PeloAmbienteNacional(m, op, comp) /\ r = RotaDoMunicipio(m)
      BY <1>2, <2>3 DEF PeloAmbienteNacional, DaEmissao
    <3>2. ~ OmissaoTrocaDeRota(m) /\ LayoutDe[m] = "padrao_nacional"
      BY <1>2, <1>3, <2>3, <3>1
    <3>3. ~ PeloAmbienteNacional(m, xml_.opSimpNac, xml_.dCompet)
      BY <2>1, <2>3, <3>2 DEF PeloAmbienteNacional, OmissaoTrocaDeRota
    <3> QED
      BY <1>2, <3>1, <3>3 DEF DaDPSPronta, DaEmissao
  <2> QED
    BY <2>2, <2>3
<1>4. CASE LayoutDe[r.sessao] # "padrao_nacional"
  <2>1. ~ PeloAmbienteNacional(m, op, comp)
    BY <1>2, <1>4 DEF DaEmissao, Nacional, RotaDoMunicipio
  <2>2. xml_.opSimpNac = 0
    BY <1>4 DEF DocumentoDa
  <2>3. ~ PeloAmbienteNacional(m, xml_.opSimpNac, xml_.dCompet)
    BY <2>2 DEF PeloAmbienteNacional
  <2> QED
    BY <1>2, <2>1, <2>3 DEF DaDPSPronta, DaEmissao
<1> QED
  BY <1>3, <1>4

\* The other case: where a regime left out has a line for what is written in its
\* place, a request of a competence from that line on is answered with the
\* provider of the city, and its document leaves by the national environment.
THEOREM OmissaoDesviaODocumento ==
  ASSUME NEW m \in Municipios, NEW v \in vigencias, NEW dia \in Datas,
         LayoutDe[m] = "padrao_nacional",
         v.municipio = m, v.opSimpNac = RegimeEscrito(0), dia >= v.desde,
         NEW ambiente, NEW r, r = DaEmissao(RotaDoMunicipio(m), 0, EscritaEm(dia)),
         NEW xml_, xml_ = DocumentoDa(r, 0, dia, ambiente)
  PROVE  /\ Sistema(r) = m
         /\ Sistema(DaDPSPronta(RotaDoMunicipio(m), xml_)) = SessaoNacional
         /\ m # SessaoNacional
<1>1. RotaDoMunicipio(m).municipio = m /\ RotaDoMunicipio(m).sessao = m
  BY DEF RotaDoMunicipio
<1>2. Provedor[m] # PadraoNacional /\ m # SessaoNacional
  OBVIOUS
<1>3. r = RotaDoMunicipio(m)
  BY <1>1 DEF DaEmissao, PeloAmbienteNacional
<1>4. Sistema(r) = m
  BY <1>1, <1>2, <1>3 DEF Sistema, SistemaDaSessao
<1>5. xml_.opSimpNac = RegimeEscrito(0) /\ xml_.dCompet = EscritaEm(dia)
  BY <1>1, <1>3 DEF DocumentoDa
<1>6. NaoAntes(EscritaEm(dia), v.desde)
  BY DEF NaoAntes, EscritaEm
<1>7. PeloAmbienteNacional(m, xml_.opSimpNac, xml_.dCompet)
  BY <1>5, <1>6 DEF PeloAmbienteNacional
<1>8. DaDPSPronta(RotaDoMunicipio(m), xml_) = Nacional(RotaDoMunicipio(m))
  BY <1>1, <1>7 DEF DaDPSPronta, DaEmissao
<1>9. Nacional(RotaDoMunicipio(m)).sessao = SessaoNacional
  BY DEF Nacional, RotaDoMunicipio
<1> QED
  BY <1>2, <1>4, <1>8, <1>9 DEF Sistema, SistemaDaSessao

-----------------------------------------------------------------------------
(* The inductive invariant.                                                *)

\* Where the finished document leads to.
SistemaDaDPS == IF emissor = Sefaz THEN Sefaz ELSE Sistema(RotaDaTransmissao)

Requisicoes ==
  [tipo : TodosOsTipos \union {"nenhum"}, ambiente : Ambientes,
   comp : Pedidas \union {SemXML.dCompet}, nota : Sistemas, dia : Nat]

Tipagem ==
  /\ hoje \in 0..MaxHoje
  /\ emissor \in Emissores
  /\ regime \in OpSimpNac
  /\ pedido \in [Pedidos -> Requisicoes]
  /\ etapa \in [Pedidos -> 0..4]
  /\ registro \in [Lugares -> SituacoesNoFisco]

Gerando(p) == pedido[p].tipo = "xml" /\ etapa[p] # 4

\* The document is generated once: while it does not exist at most one request
\* is generating it, and none afterwards.
UmaGeracao ==
  /\ \A p \in Pedidos : etapa[p] = 0 => pedido[p].tipo = "nenhum"
  /\ \A p \in Pedidos : Gerando(p) =>
       /\ xml = SemXML
       /\ pedido[p].comp \in Pedidas
       /\ \E d \in 0..MaxHoje : pedido[p].dia = DataBR(pedido[p].comp, d)
       /\ \A q \in Pedidos : Gerando(q) => p = q

\* What needs the document comes after it, with the key of a note of its system.
DepoisDoXML ==
  /\ \A p \in DoTipo("transmissao") : xml # SemXML
  /\ \A p \in DoTipo("cancelamento") :
       xml # SemXML /\ pedido[p].nota = SistemaDaDPS

\* The document is at the system and in the environment that it leads to.
NoLugar ==
  \A s \in Sistemas, a \in Ambientes :
    registro[<<s, a>>] # "nenhuma" =>
      /\ xml # SemXML
      /\ s = SistemaDaDPS
      /\ xml.tpAmb \in Ambientes => a = xml.tpAmb

IInv == Tipagem /\ UmaGeracao /\ DepoisDoXML /\ NoLugar

LEMMA InitIInv == Init => IInv
<1> SUFFICES ASSUME Init PROVE IInv
  OBVIOUS
<1>1. SemPedido \in Requisicoes
  BY DEF SemPedido, Requisicoes, SemXML, Sistemas, Ambientes
<1>2. Tipagem
  BY <1>1 DEF Init, Tipagem, SituacoesNoFisco
<1>3. UmaGeracao /\ DepoisDoXML
  BY DEF Init, UmaGeracao, Gerando, SemPedido, DepoisDoXML, DoTipo
<1>4. NoLugar
  BY DEF Init, NoLugar, Lugares
<1> QED
  BY <1>2, <1>3, <1>4 DEF IInv

\* A document that exists is not SemXML.
LEMMA DocumentoExiste ==
  ASSUME NEW p \in Pedidos, Tipagem
  PROVE  DocumentoGerado(p) # SemXML
<1>1. pedido[p].ambiente \in Ambientes
  BY DEF Tipagem, Requisicoes
<1>2. CASE emissor = Sefaz
  BY <1>1, <1>2 DEF DocumentoGerado, SemXML, Ambientes
<1>3. CASE emissor # Sefaz
  BY <1>1, <1>3 DEF DocumentoGerado, DocumentoDa, SemXML, Ambientes
<1> QED
  BY <1>2, <1>3

\* A transmission leaves by the document alone.
LEMMA ATransmissaoSegueODocumento ==
  ASSUME NEW p, NEW k, pedido[p].tipo = "transmissao"
  PROVE  SistemaDe(p, k) = SistemaDaDPS
BY DEF SistemaDe, SistemaDaDPS, RotaDe

LEMMA MesmoSistema ==
  UNCHANGED <<emissor, xml>> => SistemaDaDPS' = SistemaDaDPS
BY DEF SistemaDaDPS, RotaDaTransmissao

LEMMA ComecarIInv ==
  ASSUME NEW p \in Pedidos, IInv, Comecar(p)
  PROVE  IInv'
<1> USE DEF IInv
<1>1. PICK tipo \in Tipos, a \in Informados, s \in Notas \union {Sefaz},
           comp \in Pedidas \union {SemXML.dCompet} :
        /\ Cabe(tipo)
        /\ IF tipo = "xml" THEN comp \in Pedidas ELSE comp = SemXML.dCompet
        /\ IF tipo = "cancelamento" THEN s \in Notas ELSE s = Sefaz
        /\ pedido' = [pedido EXCEPT ![p] = Requisicao(tipo, a, comp, s)]
        /\ etapa'  = [etapa EXCEPT ![p] = PrimeiraChamada(tipo)]
  BY DEF Comecar
<1> DEFINE req == Requisicao(tipo, a, comp, s)
<1>0. /\ req.tipo = tipo /\ req.ambiente = a /\ req.comp = comp /\ req.nota = s
      /\ req.dia = IF tipo = "xml" THEN DataBR(comp, hoje) ELSE 0
  BY DEF Requisicao
<1>2. UNCHANGED <<hoje, emissor, regime, xml, registro>> /\ etapa[p] = 0
  BY DEF Comecar
<1>3. PrimeiraChamada(tipo) \in 1..2
  BY DEF PrimeiraChamada
<1>4. Tipagem'
  <2>1. s \in Sistemas /\ tipo \in TodosOsTipos /\ a \in Ambientes
    BY <1>1 DEF Notas, Sistemas
  <2>2. req.dia \in Nat
    <3>1. hoje \in Nat
      BY DEF Tipagem
    <3>2. ASSUME tipo = "xml" PROVE comp.dia \in Nat /\ comp.local \in Nat
      BY <1>1, <3>2 DEF Competencias
    <3> QED
      BY <1>0, <3>1, <3>2 DEF DataBR
  <2>3. req \in Requisicoes
    BY <1>1, <2>1, <2>2 DEF Requisicoes, Requisicao
  <2> QED
    BY <1>1, <1>2, <1>3, <2>3 DEF Tipagem
<1>5. UmaGeracao'
  <2>1. \A q \in Pedidos : Gerando(q)' <=>
          IF q = p THEN tipo = "xml" ELSE Gerando(q)
    BY <1>0, <1>1, <1>2, <1>3 DEF Gerando, Tipagem
  <2>2. tipo = "xml" => xml = SemXML /\ comp \in Pedidas
                        /\ \A q \in Pedidos : ~ Gerando(q)
    BY <1>1 DEF Cabe, Gerando
  <2>3. ~ Gerando(p)
    BY <1>2 DEF UmaGeracao, Gerando
  <2>4. \A q \in Pedidos : etapa'[q] = 0 => pedido'[q].tipo = "nenhum"
    BY <1>1, <1>2, <1>3 DEF UmaGeracao, Tipagem
  <2>5. \A q \in Pedidos : Gerando(q)' => xml' = SemXML /\ pedido'[q].comp \in Pedidas
    BY <1>0, <1>1, <1>2, <2>1, <2>2 DEF UmaGeracao, Tipagem
  <2>6. \A q, q2 \in Pedidos : Gerando(q)' /\ Gerando(q2)' => q = q2
    BY <2>1, <2>2, <2>3 DEF UmaGeracao
  <2>7. ASSUME NEW q \in Pedidos, Gerando(q)'
        PROVE  \E h \in 0..MaxHoje : pedido'[q].dia = DataBR(pedido'[q].comp, h)
    <3>1. CASE q # p
      BY <1>1, <2>1, <2>7, <3>1 DEF UmaGeracao, Tipagem
    <3>2. CASE q = p
      <4>1. pedido'[p] = req /\ req.dia = DataBR(req.comp, hoje)
        BY <1>0, <1>1, <2>1, <2>7, <3>2 DEF Tipagem
      <4> QED
        BY <3>2, <4>1 DEF Tipagem
    <3> QED
      BY <3>1, <3>2
  <2> QED
    BY <2>4, <2>5, <2>6, <2>7 DEF UmaGeracao
<1>6. DepoisDoXML'
  <2>1. \A q \in Pedidos \ {p} : pedido'[q] = pedido[q]
    BY <1>1 DEF Tipagem
  <2>2. pedido'[p] = req
    BY <1>1 DEF Tipagem
  <2>3. tipo = "transmissao" => xml # SemXML
    BY <1>1 DEF Cabe
  <2>4. tipo = "cancelamento" => xml # SemXML /\ s = SistemaDaDPS
    <3>1. ASSUME tipo = "cancelamento" PROVE s \in Notas
      BY <1>1, <3>1
    <3>2. ASSUME s \in Notas PROVE xml # SemXML /\ s = SistemaDaDPS
      BY <3>2 DEF Notas, NoLugar, TemNota
    <3> QED
      BY <3>1, <3>2
  <2> QED
    BY <1>0, <1>2, <2>1, <2>2, <2>3, <2>4, MesmoSistema DEF DepoisDoXML, DoTipo
<1>7. NoLugar'
  BY <1>2, MesmoSistema DEF NoLugar
<1> QED
  BY <1>4, <1>5, <1>6, <1>7

\* Nothing but the registers of the systems and the bookkeeping of the calls.
Quieto == UNCHANGED <<emissor, regime, xml, pedido, etapa>>

LEMMA RegistroIInv ==
  ASSUME IInv, Quieto, Tipagem',
         \A s \in Sistemas, a \in Ambientes :
           registro'[<<s, a>>] # "nenhuma" =>
             \/ registro[<<s, a>>] # "nenhuma"
             \/ /\ xml # SemXML /\ s = SistemaDaDPS
                /\ xml.tpAmb \in Ambientes => a = xml.tpAmb
  PROVE  IInv'
<1> USE DEF IInv, Quieto
<1>1. UmaGeracao' /\ DepoisDoXML'
  BY MesmoSistema DEF UmaGeracao, Gerando, DepoisDoXML, DoTipo
<1>2. NoLugar'
  BY MesmoSistema DEF NoLugar
<1> QED
  BY <1>1, <1>2

LEMMA ChegarIInv ==
  ASSUME NEW p \in Pedidos, NEW k \in 1..2, IInv, Chegar(p, k)
  PROVE  IInv'
<1> DEFINE c == <<p, k>>
           l == Lugar(p, k)
<1>1. Quieto /\ UNCHANGED hoje
  BY DEF Chegar, Quieto, cliente
<1>2. CASE UNCHANGED registro
  BY <1>1, <1>2, RegistroIInv DEF IInv, Tipagem, Quieto
<1>3. CASE \E sit \in SituacoesNoFisco \ {"nenhuma"} :
             Registrar(l, sit) /\ registro[l] # "nenhuma"
  <2>1. Tipagem'
    BY <1>1, <1>3 DEF IInv, Tipagem, Quieto, Registrar
  <2>2. \A s \in Sistemas, a \in Ambientes :
          registro'[<<s, a>>] # "nenhuma" => registro[<<s, a>>] # "nenhuma"
    BY <1>3 DEF IInv, Tipagem, Registrar, Lugares
  <2> QED
    BY <1>1, <2>1, <2>2, RegistroIInv
<1>4. CASE /\ pedido[p].tipo = "transmissao"
           /\ \E sit \in SituacoesNoFisco : Registrar(l, sit)
  <2>1. Tipagem'
    BY <1>1, <1>4 DEF IInv, Tipagem, Quieto, Registrar
  <2>2. l = <<SistemaDaDPS, AmbienteDe(p)>>
    BY <1>4, ATransmissaoSegueODocumento DEF Lugar
  <2>3. xml.tpAmb \in Ambientes => AmbienteDe(p) = xml.tpAmb
    BY <1>4 DEF AmbienteDe
  <2>4. xml # SemXML
    BY <1>4 DEF IInv, DepoisDoXML, DoTipo
  <2>5. \A s \in Sistemas, a \in Ambientes :
          registro'[<<s, a>>] # "nenhuma" =>
            registro[<<s, a>>] # "nenhuma" \/ <<s, a>> = l
    BY <1>4 DEF IInv, Tipagem, Registrar, Lugares
  <2> QED
    BY <1>1, <2>1, <2>2, <2>3, <2>4, <2>5, RegistroIInv
<1>5. CASE pedido[p].tipo = "transmissao"
  <2>1. ReceberEmissao(c, l)
    BY <1>5 DEF Chegar
  <2>2. UNCHANGED registro \/ \E sit \in SituacoesNoFisco : Registrar(l, sit)
    BY <2>1 DEF ReceberEmissao, SituacoesNoFisco
  <2> QED
    BY <1>2, <1>4, <1>5, <2>2
<1>6. CASE pedido[p].tipo = "cancelamento"
  <2>1. ReceberCancelamento(c, l)
    BY <1>6 DEF Chegar
  <2>2. \/ UNCHANGED registro
        \/ Registrar(l, "cancelada") /\ registro[l] # "nenhuma"
    BY <2>1 DEF ReceberCancelamento
  <2> QED
    BY <1>2, <1>3, <2>2 DEF SituacoesNoFisco
<1>7. CASE pedido[p].tipo \notin {"transmissao", "cancelamento"}
  <2>1. ReceberConsulta(c, pedido[p].tipo, l)
    BY <1>7 DEF Chegar
  <2> QED
    BY <1>2, <2>1 DEF ReceberConsulta
<1> QED
  BY <1>5, <1>6, <1>7

\* What the answer of a call changes: the step of its request and, when it ends
\* a generation well, the document.
LEMMA PassoDeVoltar ==
  ASSUME NEW p \in Pedidos, NEW k \in 1..3, Voltar(p, k)
  PROVE  /\ etapa[p] = k
         /\ UNCHANGED <<hoje, emissor, regime, pedido, registro>>
         /\ \/ /\ UNCHANGED <<xml, prometido>>
               /\ \E e \in 2..4 : etapa' = [etapa EXCEPT ![p] = e]
            \/ /\ pedido[p].tipo = "xml"
               /\ etapa' = [etapa EXCEPT ![p] = 4]
               /\ xml' = DocumentoGerado(p)
               /\ prometido' = SistemaDe(p, 2)
<1>1. CASE pedido[p].tipo = "xml"
  <2>1. SeguirXML(p, k, codigo'[<<p, k>>])
    BY <1>1 DEF Voltar
  <2> QED
    BY <1>1, <2>1 DEF Voltar, SeguirXML, Seguir, Encerrar, cliente
<1>2. CASE pedido[p].tipo # "xml"
  <2>1. SeguirOperacao(p, k, codigo'[<<p, k>>], retorno'[<<p, k>>])
        /\ UNCHANGED <<xml, prometido>>
    BY <1>2 DEF Voltar
  <2> QED
    BY <1>2, <2>1 DEF Voltar, SeguirOperacao, Seguir, Encerrar, cliente
<1> QED
  BY <1>1, <1>2

LEMMA VoltarIInv ==
  ASSUME NEW p \in Pedidos, NEW k \in 1..3, IInv, Voltar(p, k)
  PROVE  IInv'
<1> USE DEF IInv
<1>1. etapa[p] = k /\ UNCHANGED <<hoje, emissor, regime, pedido, registro>>
  BY PassoDeVoltar
<1>2. PICK e \in 2..4 : etapa' = [etapa EXCEPT ![p] = e]
  BY PassoDeVoltar
<1>3. Tipagem'
  BY <1>1, <1>2 DEF Tipagem
<1>4. \A q \in Pedidos : Gerando(q)' => Gerando(q)
  BY <1>1, <1>2 DEF Gerando, Tipagem
<1>5. \A q \in Pedidos : etapa'[q] = 0 => pedido'[q].tipo = "nenhum"
  BY <1>1, <1>2 DEF UmaGeracao, Tipagem
<1>6. CASE UNCHANGED xml
  <2>1. UmaGeracao'
    BY <1>1, <1>4, <1>5, <1>6 DEF UmaGeracao
  <2>2. DepoisDoXML' /\ NoLugar'
    BY <1>1, <1>6, MesmoSistema DEF DepoisDoXML, DoTipo, NoLugar
  <2> QED
    BY <1>3, <2>1, <2>2
<1>7. CASE /\ pedido[p].tipo = "xml"
           /\ etapa' = [etapa EXCEPT ![p] = 4]
           /\ xml' = DocumentoGerado(p)
  <2>1. Gerando(p) /\ xml = SemXML
    BY <1>1, <1>7 DEF Gerando, UmaGeracao
  <2>2. \A q \in Pedidos : ~ Gerando(q)'
    BY <1>4, <1>7, <2>1 DEF UmaGeracao, Gerando, Tipagem
  <2>3. UmaGeracao'
    BY <1>5, <2>2 DEF UmaGeracao
  <2>4. DepoisDoXML'
    BY <1>1, <2>1 DEF DepoisDoXML, DoTipo
  <2>5. NoLugar'
    BY <1>1, <2>1 DEF NoLugar
  <2> QED
    BY <1>3, <2>3, <2>4, <2>5
<1> QED
  BY <1>6, <1>7, PassoDeVoltar

LEMMA NextIInv == IInv /\ [Next]_vars => IInv'
<1> SUFFICES ASSUME IInv, [Next]_vars PROVE IInv'
  OBVIOUS
<1>1. CASE \E p \in Pedidos : Comecar(p)
  BY <1>1, ComecarIInv
<1>2. CASE \E p \in Pedidos, k \in 1..2 : Chegar(p, k)
  BY <1>2, ChegarIInv
<1>3. CASE \E p \in Pedidos, k \in 1..3 : Voltar(p, k)
  BY <1>3, VoltarIInv
<1>4. CASE ProcessarLote
  <2>1. PICK l \in Lugares, sit \in {"autorizada", "loteRecusado"} :
          registro[l] = "lote" /\ Registrar(l, sit)
    BY <1>4 DEF ProcessarLote
  <2>2. Quieto /\ Tipagem'
    BY <1>4, <2>1
    DEF ProcessarLote, cliente, Quieto, IInv, Tipagem, Registrar, SituacoesNoFisco
  <2>3. \A s \in Sistemas, a \in Ambientes :
          registro'[<<s, a>>] # "nenhuma" => registro[<<s, a>>] # "nenhuma"
    BY <2>1 DEF IInv, Tipagem, Registrar, Lugares
  <2> QED
    BY <2>2, <2>3, RegistroIInv
<1>5. CASE PassarDia
  BY <1>5, RegistroIInv DEF PassarDia, cliente, Quieto, IInv, Tipagem
<1>6. CASE UNCHANGED vars
  BY <1>6, RegistroIInv DEF vars, Quieto, IInv, Tipagem
<1> QED
  BY <1>1, <1>2, <1>3, <1>4, <1>5, <1>6 DEF Next, Fim

\* The agreement between the document, the systems and the requests holds.
THEOREM EspecDocumentoNoLugar == Spec => []IInv
  BY InitIInv, NextIInv, PTL DEF Spec

-----------------------------------------------------------------------------
(* What follows from it.                                                   *)

\* A document never exists in two systems of one environment, however often
\* its transmission is repeated and on whatever day (rota.go, DaDPSPronta).
THEOREM EspecUmaNotaPorDPS == Spec => []UmaNotaPorDPS
<1>1. IInv => UmaNotaPorDPS
  <2> SUFFICES ASSUME IInv, NEW a \in Ambientes
               PROVE  Cardinality({s \in Sistemas : registro[<<s, a>>] # "nenhuma"}) <= 1
    BY DEF UmaNotaPorDPS
  <2> DEFINE N == {s \in Sistemas : registro[<<s, a>>] # "nenhuma"}
  <2>1. N \subseteq {SistemaDaDPS}
    BY DEF IInv, NoLugar
  <2>2. IsFiniteSet({SistemaDaDPS}) /\ Cardinality({SistemaDaDPS}) = 1
    BY FS_Singleton
  <2>3. Cardinality(N) <= Cardinality({SistemaDaDPS})
    BY <2>1, <2>2, FS_Subset
  <2> QED
    BY <2>2, <2>3
<1> QED
  BY <1>1, EspecDocumentoNoLugar, PTL

\* A document that names its environment is received in no other one, whatever
\* the requests that transmit it say (fiscal.go, AmbienteDoXML).
THEOREM EspecSoSaiNoAmbienteGerado == Spec => []SoSaiNoAmbienteGerado
<1>1. IInv => SoSaiNoAmbienteGerado
  BY DEF IInv, NoLugar, SoSaiNoAmbienteGerado, Lugares
<1> QED
  BY <1>1, EspecDocumentoNoLugar, PTL

\* A cancellation by the key speaks with the system that generated the note
\* (rota.go, DaNota and DoEvento).
THEOREM EspecCancelaOndeANotaEsta == Spec => []CancelaOndeANotaEsta
<1>1. IInv => CancelaOndeANotaEsta
  <2> SUFFICES ASSUME IInv, NEW p \in DoTipo("cancelamento")
               PROVE  SistemaDe(p, 2) = pedido[p].nota
    BY DEF CancelaOndeANotaEsta
  <2>1. pedido[p].tipo = "cancelamento" /\ pedido[p].nota = SistemaDaDPS
    BY DEF IInv, DepoisDoXML, DoTipo
  <2>2. CASE emissor = Sefaz
    BY <2>1, <2>2 DEF SistemaDe, SistemaDaDPS
  <2>3. CASE emissor # Sefaz
    <3>1. emissor \in Municipios
      BY <2>3 DEF IInv, Tipagem
    <3>2. RotaDe(p, 2) = RotaDoCancelamento(p)
      BY <2>1 DEF RotaDe
    <3>3. SistemaDaDPS = Sistema(DaEmissao(RotaDoMunicipio(emissor),
                                           xml.opSimpNac, xml.dCompet))
      BY <2>3 DEF SistemaDaDPS, RotaDaTransmissao, DaDPSPronta
    <3>4. Sistema(RotaDoCancelamento(p)) = SistemaDaDPS
      BY <2>1, <3>1, <3>3, DaNotaAchaONotaDaEmissao DEF RotaDoCancelamento
    <3> QED
      BY <2>1, <2>3, <3>2, <3>4 DEF SistemaDe
  <2> QED
    BY <2>2, <2>3
<1> QED
  BY <1>1, EspecDocumentoNoLugar, PTL

-----------------------------------------------------------------------------
(* What the client writes, and what of it the code reads twice.            *)

\* Competences written AAAA-MM-DD.
EscritaISO == \A comp \in Pedidas : \E dia \in Datas : comp = EscritaEm(dia)

\* Regimes given in the request, or no line for what is written in their place.
RegimeDito ==
  0 \in OpSimpNac => \A m \in Emissores \ {Sefaz} : ~ OmissaoTrocaDeRota(m)

Cumprido == xml # SemXML => prometido = SistemaDaDPS

LEMMA GeracaoCumprida ==
  ASSUME EscritaISO, RegimeDito, NEW p \in Pedidos, IInv, Gerando(p),
         UNCHANGED emissor, xml' = DocumentoGerado(p)
  PROVE  SistemaDaDPS' = SistemaDe(p, 2)
<1>1. CASE emissor = Sefaz
  BY <1>1 DEF SistemaDaDPS, SistemaDe
<1>2. CASE emissor # Sefaz
  <2> DEFINE r == DaEmissao(RotaDoMunicipio(emissor), regime, pedido[p].comp)
  <2>1. emissor \in Municipios /\ regime \in OpSimpNac
    BY <1>2 DEF IInv, Tipagem
  <2>2. PICK dia \in Datas : pedido[p].comp = EscritaEm(dia)
    BY DEF EscritaISO, IInv, UmaGeracao
  <2>3. RotaDe(p, 2) = r
    BY DEF RotaDe, Gerando
  <2>4. PICK d \in 0..MaxHoje : pedido[p].dia = DataBR(pedido[p].comp, d)
    BY DEF IInv, UmaGeracao
  <2>5. xml' = DocumentoDa(r, regime, DataBR(pedido[p].comp, d), pedido[p].ambiente)
    BY <1>2, <2>3, <2>4 DEF DocumentoGerado
  <2>6. regime # 0 \/ ~ OmissaoTrocaDeRota(emissor)
    BY <1>2, <2>1 DEF RegimeDito, IInv, Tipagem
  <2>7. DaDPSPronta(RotaDoMunicipio(emissor), xml') = r
    BY <2>1, <2>2, <2>5, <2>6, DaDPSProntaSegueAEmissao
  <2>8. SistemaDaDPS' = Sistema(DaDPSPronta(RotaDoMunicipio(emissor), xml'))
    BY <1>2 DEF SistemaDaDPS, RotaDaTransmissao
  <2> QED
    BY <1>2, <2>3, <2>7, <2>8 DEF SistemaDe
<1> QED
  BY <1>1, <1>2

LEMMA NextCumprido ==
  ASSUME EscritaISO, RegimeDito, IInv, Cumprido, [Next]_vars
  PROVE  Cumprido'
<1>1. CASE \E p \in Pedidos, k \in 1..3 : Voltar(p, k)
  <2>1. PICK p \in Pedidos, k \in 1..3 : Voltar(p, k)
    BY <1>1
  <2>2. CASE UNCHANGED <<xml, prometido>>
    BY <2>1, <2>2, PassoDeVoltar, MesmoSistema DEF Cumprido
  <2>3. CASE /\ pedido[p].tipo = "xml"
             /\ xml' = DocumentoGerado(p)
             /\ prometido' = SistemaDe(p, 2)
    <3>1. Gerando(p) /\ UNCHANGED emissor
      BY <2>1, <2>3, PassoDeVoltar DEF Gerando
    <3> QED
      BY <2>3, <3>1, GeracaoCumprida DEF Cumprido
  <2> QED
    BY <2>1, <2>2, <2>3, PassoDeVoltar
<1>2. CASE UNCHANGED <<emissor, xml, prometido>>
  BY <1>2, MesmoSistema DEF Cumprido
<1> QED
  BY <1>1, <1>2
  DEF Next, Comecar, Chegar, ProcessarLote, PassarDia, Fim, cliente, vars

\* With every competence written AAAA-MM-DD and no regime left out where it is
\* read as another, a document leaves by the provider that the answer of /xml named
\* (docs/LIMITACOES.md:133-135; ini.go:65 and rota.go:176-179 for the second).
THEOREM EspecGeracaoETransmissaoConcordam ==
  ASSUME EscritaISO, RegimeDito
  PROVE  Spec => []GeracaoETransmissaoConcordam
<1>1. Init => Cumprido
  BY DEF Init, Cumprido
<1>2. IInv /\ Cumprido /\ [Next]_vars => Cumprido'
  BY NextCumprido
<1>3. IInv /\ Cumprido => GeracaoETransmissaoConcordam
  BY ATransmissaoSegueODocumento
  DEF Cumprido, IInv, DepoisDoXML, DoTipo, GeracaoETransmissaoConcordam
<1> QED
  BY <1>1, <1>2, <1>3, EspecDocumentoNoLugar, PTL DEF Spec

-----------------------------------------------------------------------------
(* The calls of one request.                                               *)

ChamadasDefinidas ==
  /\ codigo \in [Chamadas -> P!Codigos \union {"pendente"}]
  /\ transmitidas \in [Chamadas -> 0..1]
  /\ retorno = [c \in Chamadas |-> retorno[c]]
  /\ resultado = [p \in Pedidos |-> resultado[p]]

\* A request without an answer has none, and before its first call nothing of
\* it has happened.
SemResposta(p) ==
  /\ etapa[p] # 4 => resultado[p] = "nenhum"
  /\ etapa[p] = 0 => \A k \in 1..3 : /\ codigo[<<p, k>>] = "pendente"
                                     /\ transmitidas[<<p, k>>] = 0
                                     /\ retorno[<<p, k>>] = "nenhum"

\* Generating does not leave, so what its second call says is of the library.
Carimbo(p) ==
  pedido[p].tipo = "xml" =>
    /\ \A k \in 1..3 : transmitidas[<<p, k>>] = 0
    /\ resultado[p] = "entregue" =>
         \/ codigo[<<p, 2>>] = "operacao_nao_suportada"
         \/ codigo[<<p, 2>>] = "sucesso" /\ retorno[<<p, 2>>] = "semMensagens"

\* A refusal for lack of the operation is settled before it is explained.
Recusa(p) ==
  pedido[p].tipo \in {"transmissao", "cancelamento"} =>
    /\ etapa[p] # 1
    /\ codigo[<<p, 2>>] = "pendente" => retorno[<<p, 2>>] # "naoImplementada"
    /\ etapa[p] = 3 \/ resultado[p] = "operacao_nao_suportada" =>
         /\ codigo[<<p, 2>>] \in {"sucesso", "operacao_nao_suportada"}
         /\ transmitidas[<<p, 2>>] = 0
    /\ etapa[p] = 4 /\ retorno[<<p, 2>>] = "naoImplementada"
         => resultado[p] = "operacao_nao_suportada"

Conta(p) == SemResposta(p) /\ Carimbo(p) /\ Recusa(p)

ContasCertas == ChamadasDefinidas /\ \A p \in Pedidos : Conta(p)

LEMMA InitContas == Init => ContasCertas
<1> SUFFICES ASSUME Init PROVE ContasCertas
  OBVIOUS
<1>1. ChamadasDefinidas
  BY DEF Init, P!Init, ChamadasDefinidas
<1>2. ASSUME NEW p \in Pedidos PROVE Conta(p)
  BY DEF Init, P!Init, Conta, SemResposta, Carimbo, Recusa, SemPedido, Chamadas
<1> QED
  BY <1>1, <1>2 DEF ContasCertas

LEMMA ComecarContas ==
  ASSUME NEW p \in Pedidos, IInv, ContasCertas, Comecar(p)
  PROVE  ContasCertas'
<1>1. PICK req : /\ pedido' = [pedido EXCEPT ![p] = req]
                 /\ etapa'  = [etapa EXCEPT ![p] = PrimeiraChamada(req.tipo)]
  <2>1. PICK tipo, a, s, comp :
          /\ pedido' = [pedido EXCEPT ![p] = Requisicao(tipo, a, comp, s)]
          /\ etapa'  = [etapa EXCEPT ![p] = PrimeiraChamada(tipo)]
    BY DEF Comecar
  <2> DEFINE req == Requisicao(tipo, a, comp, s)
  <2>2. req.tipo = tipo
    BY DEF Requisicao
  <2> HIDE DEF req
  <2>3. pedido' = [pedido EXCEPT ![p] = req]
        /\ etapa' = [etapa EXCEPT ![p] = PrimeiraChamada(req.tipo)]
    BY <2>1, <2>2 DEF req
  <2> QED
    BY <2>3
<1>2. PrimeiraChamada(req.tipo) \in 1..2
      /\ (req.tipo \in {"transmissao", "cancelamento"} => PrimeiraChamada(req.tipo) = 2)
  BY DEF PrimeiraChamada
<1>3. UNCHANGED <<codigo, transmitidas, retorno, resultado>> /\ etapa[p] = 0
  BY DEF Comecar
<1>4. ASSUME NEW q \in Pedidos, q # p PROVE Conta(q)'
  <2>1. pedido'[q] = pedido[q] /\ etapa'[q] = etapa[q]
    BY <1>1, <1>4 DEF IInv, Tipagem
  <2> QED
    BY <1>3, <2>1 DEF ContasCertas, Conta, SemResposta, Carimbo, Recusa
<1>5. Conta(p)'
  <2>1. pedido'[p] = req /\ etapa'[p] = PrimeiraChamada(req.tipo)
    BY <1>1 DEF IInv, Tipagem
  <2>2. SemResposta(p)
    BY DEF ContasCertas, Conta
  <2> QED
    BY <1>2, <1>3, <2>1, <2>2 DEF Conta, SemResposta, Carimbo, Recusa
<1> QED
  BY <1>3, <1>4, <1>5 DEF ContasCertas, ChamadasDefinidas

\* What an arrival puts into the answer of its call.
LEMMA PassoDeChegar ==
  ASSUME NEW p \in Pedidos, NEW k \in 1..2, Chegar(p, k)
  PROVE  /\ UNCHANGED <<pedido, etapa, resultado, codigo>>
         /\ pedido[p].tipo # "xml"
         /\ Emitida(<<p, k>>)
         /\ codigo[<<p, k>>] \in {"pendente", "desfecho_indeterminado"}
         /\ transmitidas' = [transmitidas EXCEPT ![<<p, k>>] = 1]
         /\ \E r : /\ retorno' = [retorno EXCEPT ![<<p, k>>] = r]
                   /\ pedido[p].tipo \in {"transmissao", "cancelamento"}
                        => r # "naoImplementada"
<1>1. /\ UNCHANGED <<pedido, etapa, resultado, codigo>>
      /\ pedido[p].tipo # "xml" /\ Emitida(<<p, k>>)
      /\ codigo[<<p, k>>] \in {"pendente", "desfecho_indeterminado"}
      /\ transmitidas' = [transmitidas EXCEPT ![<<p, k>>] = 1]
  BY DEF Chegar, P!Transmitir, cliente
<1>2. CASE pedido[p].tipo = "transmissao"
  BY <1>1, <1>2 DEF Chegar, ReceberEmissao
<1>3. CASE pedido[p].tipo = "cancelamento"
  BY <1>1, <1>3 DEF Chegar, ReceberCancelamento
<1>4. CASE pedido[p].tipo \notin {"transmissao", "cancelamento"}
  <2>1. ReceberConsulta(<<p, k>>, pedido[p].tipo, Lugar(p, k))
    BY <1>4 DEF Chegar
  <2>2. \E r : retorno' = [retorno EXCEPT ![<<p, k>>] = r]
    BY <2>1 DEF ReceberConsulta
  <2> QED
    BY <1>1, <1>4, <2>2
<1> QED
  BY <1>2, <1>3, <1>4

LEMMA ChegarContas ==
  ASSUME NEW p \in Pedidos, NEW k \in 1..2, ContasCertas, Chegar(p, k)
  PROVE  ContasCertas'
<1> USE DEF ContasCertas, ChamadasDefinidas
<1>1. /\ UNCHANGED <<pedido, etapa, resultado, codigo>>
      /\ pedido[p].tipo # "xml" /\ Emitida(<<p, k>>)
      /\ codigo[<<p, k>>] \in {"pendente", "desfecho_indeterminado"}
      /\ transmitidas' = [transmitidas EXCEPT ![<<p, k>>] = 1]
  BY PassoDeChegar
<1>2. PICK r : /\ retorno' = [retorno EXCEPT ![<<p, k>>] = r]
               /\ pedido[p].tipo \in {"transmissao", "cancelamento"}
                    => r # "naoImplementada"
  BY PassoDeChegar
<1>3. <<p, k>> \in Chamadas
  BY DEF Chamadas
<1>4. ChamadasDefinidas'
  <2>1. transmitidas' \in [Chamadas -> 0..1]
    <3>1. transmitidas \in [Chamadas -> 0..1] /\ 1 \in 0..1
      OBVIOUS
    <3> HIDE DEF ContasCertas, ChamadasDefinidas
    <3> QED
      BY <1>1, <3>1
  <2>2. retorno' = [c \in Chamadas |-> retorno'[c]]
    BY <1>2
  <2> QED
    BY <1>1, <2>1, <2>2
<1>5. \A q \in Pedidos, j \in 1..3 : <<q, j>> # <<p, k>> =>
        retorno'[<<q, j>>] = retorno[<<q, j>>]
        /\ transmitidas'[<<q, j>>] = transmitidas[<<q, j>>]
  BY <1>1, <1>2 DEF Chamadas
<1>6. ASSUME NEW q \in Pedidos, q # p PROVE Conta(q)'
  BY <1>1, <1>5, <1>6 DEF Conta, SemResposta, Carimbo, Recusa
<1>7. Conta(p)'
  <2>1. Conta(p)
    OBVIOUS
  <2>0. etapa[p] # 0
    <3>1. etapa[p] = k \/ codigo[<<p, k>>] # "pendente"
      BY <1>1 DEF Emitida
    <3>2. etapa[p] = 0 => codigo[<<p, k>>] = "pendente"
      BY <2>1 DEF Conta, SemResposta
    <3> QED
      BY <3>1, <3>2
  <2>2. SemResposta(p)' /\ Carimbo(p)'
    BY <1>1, <2>0, <2>1 DEF Conta, SemResposta, Carimbo
  <2>3. Recusa(p)'
    <3>1. CASE k = 2
      BY <1>1, <1>2, <1>3, <2>1, <3>1 DEF Conta, Recusa
    <3>2. CASE k # 2
      <4>1. <<p, 2>> # <<p, k>>
        BY <3>2
      <4>2. retorno'[<<p, 2>>] = retorno[<<p, 2>>]
            /\ transmitidas'[<<p, 2>>] = transmitidas[<<p, 2>>]
        BY <1>1, <1>2, <4>1 DEF Chamadas
      <4> QED
        BY <1>1, <2>1, <4>2 DEF Conta, Recusa
    <3> QED
      BY <3>1, <3>2
  <2> QED
    BY <2>2, <2>3 DEF Conta
<1> QED
  BY <1>4, <1>6, <1>7

LEMMA StatusNaoEhRecusa ==
  ASSUME NEW p, NEW ret PROVE StatusDe(p, ret) # "operacao_nao_suportada"
BY DEF StatusDe, StatusDaEmissao, StatusDoCancelamento, StatusDaConsulta,
       Autoriza, Autorizadas

\* The answer of one call: its code, what it brought, and what it leaves alone.
LEMMA RespostaDaChamada ==
  ASSUME NEW p \in Pedidos, NEW k \in 1..3, ContasCertas, Voltar(p, k)
  PROVE  /\ etapa[p] = k
         /\ UNCHANGED <<pedido, transmitidas>>
         /\ codigo[<<p, k>>] = "pendente"
         /\ codigo'[<<p, k>>] \in P!Codigos
         /\ codigo'[<<p, k>>] = "operacao_nao_suportada" => transmitidas[<<p, k>>] = 0
         /\ retorno'[<<p, k>>] \in Devolve(p, k)
         /\ ChamadasDefinidas'
         /\ \A c \in Chamadas \ {<<p, k>>} :
              codigo'[c] = codigo[c] /\ retorno'[c] = retorno[c]
         /\ \E e \in 2..4 : etapa' = [etapa EXCEPT ![p] = e]
         /\ \/ UNCHANGED resultado
            \/ \E res : resultado' = [resultado EXCEPT ![p] = res]
<1> USE DEF ContasCertas, ChamadasDefinidas
<1>1. <<p, k>> \in Chamadas
  BY DEF Chamadas
<1>2. etapa[p] = k /\ UNCHANGED <<pedido, transmitidas>>
  BY DEF Voltar, P!Responder, cliente
<1>3. PICK cod \in P!Codigos :
        /\ codigo[<<p, k>>] = "pendente"
        /\ cod = "operacao_nao_suportada" => transmitidas[<<p, k>>] = 0
        /\ codigo' = [codigo EXCEPT ![<<p, k>>] = cod]
  BY DEF Voltar, P!Responder
<1>4. PICK r \in Devolve(p, k) : retorno' = [retorno EXCEPT ![<<p, k>>] = r]
  BY DEF Voltar
<1>5. /\ \E e \in 2..4 : etapa' = [etapa EXCEPT ![p] = e]
      /\ \/ UNCHANGED resultado
         \/ \E res : resultado' = [resultado EXCEPT ![p] = res]
  <2>1. CASE pedido[p].tipo = "xml"
    <3>1. SeguirXML(p, k, codigo'[<<p, k>>])
      BY <2>1 DEF Voltar
    <3> QED
      BY <3>1 DEF SeguirXML, Seguir, Encerrar
  <2>2. CASE pedido[p].tipo # "xml"
    <3>1. SeguirOperacao(p, k, codigo'[<<p, k>>], retorno'[<<p, k>>])
      BY <2>2 DEF Voltar
    <3> QED
      BY <3>1 DEF SeguirOperacao, Seguir, Encerrar
  <2> QED
    BY <2>1, <2>2
<1>6. codigo'[<<p, k>>] = cod /\ retorno'[<<p, k>>] = r
  BY <1>1, <1>3, <1>4
<1>7. \A c \in Chamadas \ {<<p, k>>} :
        codigo'[c] = codigo[c] /\ retorno'[c] = retorno[c]
  BY <1>3, <1>4
<1>8. codigo' \in [Chamadas -> P!Codigos \union {"pendente"}]
  BY <1>3
<1>9. retorno' = [c \in Chamadas |-> retorno'[c]]
  BY <1>4
<1>10. resultado' = [q \in Pedidos |-> resultado'[q]]
  BY <1>5
<1>11. ChamadasDefinidas'
  BY <1>2, <1>8, <1>9, <1>10
<1> QED
  BY <1>2, <1>3, <1>4, <1>5, <1>6, <1>7, <1>11

\* A generation goes on.
LEMMA CarimboDepois ==
  ASSUME NEW p \in Pedidos, NEW k \in 1..3, ContasCertas, Voltar(p, k),
         pedido[p].tipo = "xml", resultado[p] = "nenhum", Carimbo(p)
  PROVE  Carimbo(p)'
<1>1. UNCHANGED <<pedido, transmitidas>> /\ codigo'[<<p, k>>] \in P!Codigos
      /\ retorno'[<<p, k>>] \in Devolve(p, k)
  BY RespostaDaChamada
<1>2. SeguirXML(p, k, codigo'[<<p, k>>])
  BY DEF Voltar
<1>3. ASSUME resultado'[p] = "entregue"
      PROVE  /\ k = 2 /\ Defeito(p) = "nenhum"
             /\ codigo'[<<p, 2>>] \in {"sucesso", "operacao_nao_suportada"}
  <2>1. resultado = [q \in Pedidos |-> resultado[q]]
    BY DEF ContasCertas, ChamadasDefinidas
  <2>2. Defeito(p) # "entregue"
    BY DEF Defeito
  <2>3. codigo'[<<p, k>>] # "entregue"
    BY <1>1 DEF P!Codigos
  <2> QED
    BY <1>2, <1>3, <2>1, <2>2, <2>3 DEF SeguirXML, Seguir, Encerrar, SemValidacao
<1>4. ASSUME k = 2, Defeito(p) = "nenhum", codigo'[<<p, 2>>] = "sucesso"
      PROVE  retorno'[<<p, 2>>] = "semMensagens"
  <2>1. transmitidas[<<p, 2>>] = 0
    BY DEF Carimbo
  <2>2. Devolve(p, 2) = DaLib(p, 2)
    BY <1>4, <2>1 DEF Devolve
  <2>3. DaLib(p, 2) \subseteq {"semMensagens", "mensagens"}
    BY DEF DaLib
  <2>4. retorno'[<<p, 2>>] # "mensagens"
    BY <1>4 DEF Defeito
  <2> QED
    BY <1>1, <1>4, <2>2, <2>3, <2>4
<1> QED
  BY <1>1, <1>3, <1>4 DEF Carimbo

\* A transmission or a cancellation goes on.
LEMMA RecusaDepois ==
  ASSUME NEW p \in Pedidos, NEW k \in 1..3, IInv, ContasCertas, Voltar(p, k),
         pedido[p].tipo \in {"transmissao", "cancelamento"},
         resultado[p] = "nenhum", Recusa(p)
  PROVE  Recusa(p)'
<1>0. \A c \in Chamadas \ {<<p, k>>} : codigo'[c] = codigo[c] /\ retorno'[c] = retorno[c]
  BY RespostaDaChamada
<1> DEFINE cod == codigo'[<<p, k>>]
           r == retorno'[<<p, k>>]
<1>1. /\ etapa[p] = k /\ UNCHANGED <<pedido, transmitidas>>
      /\ codigo[<<p, k>>] = "pendente"
      /\ cod \in P!Codigos /\ r \in Devolve(p, k)
      /\ cod = "operacao_nao_suportada" => transmitidas[<<p, k>>] = 0
  BY RespostaDaChamada
<1>2. SeguirOperacao(p, k, cod, r)
  BY DEF Voltar
<1>3. k # 1
  BY <1>1 DEF Recusa
<1>4. resultado = [q \in Pedidos |-> resultado[q]] /\ etapa \in [Pedidos -> 0..4]
  BY DEF ContasCertas, ChamadasDefinidas, IInv, Tipagem
<1>5. CASE k = 3
  <2>1. etapa'[p] = 4 /\ resultado'[p] = "operacao_nao_suportada"
    BY <1>2, <1>4, <1>5 DEF SeguirOperacao, PassaAdiante, Encerrar, RespostaDaRecusa
  <2>2. codigo'[<<p, 2>>] = codigo[<<p, 2>>]
    <3>1. <<p, 2>> \in Chamadas \ {<<p, 3>>}
      BY DEF Chamadas
    <3> QED
      BY <1>0, <1>5, <3>1
  <2>3. codigo[<<p, 2>>] \in {"sucesso", "operacao_nao_suportada"}
        /\ transmitidas[<<p, 2>>] = 0
    BY <1>1, <1>5 DEF Recusa
  <2> QED
    BY <1>1, <2>1, <2>2, <2>3 DEF Recusa
<1>6. CASE k = 2
  <2>1. retorno[<<p, 2>>] # "naoImplementada"
    BY <1>1, <1>6 DEF Recusa
  <2>2. r = "naoImplementada" => cod = "sucesso" /\ transmitidas[<<p, 2>>] # 1
    BY <1>1, <1>6, <2>1 DEF Devolve
  <2>3. transmitidas[<<p, 2>>] \in 0..1 /\ cod # "pendente"
    BY <1>1 DEF ContasCertas, ChamadasDefinidas, Chamadas, P!Codigos
  <2>4. CASE cod = "sucesso" /\ r = "naoImplementada"
    <3>1. etapa'[p] = 3 /\ resultado'[p] = "nenhum"
      BY <1>2, <1>4, <1>6, <2>4
      DEF SeguirOperacao, PassaAdiante, OperacaoNaoSuportada, Seguir
    <3> QED
      BY <1>1, <1>6, <2>2, <2>3, <2>4, <3>1 DEF Recusa
  <2>5. CASE ~ (cod = "sucesso" /\ r = "naoImplementada")
    <3>1. /\ etapa'[p] = 4
          /\ resultado'[p] = IF cod = "sucesso" THEN StatusDe(p, r) ELSE cod
      BY <1>2, <1>4, <1>6, <2>5
      DEF SeguirOperacao, PassaAdiante, OperacaoNaoSuportada, Encerrar
    <3>2. resultado'[p] = "operacao_nao_suportada" => cod = "operacao_nao_suportada"
      BY <3>1, StatusNaoEhRecusa
    <3> QED
      BY <1>1, <1>6, <2>2, <2>3, <2>5, <3>1, <3>2 DEF Recusa
  <2> QED
    BY <2>4, <2>5
<1> QED
  BY <1>3, <1>5, <1>6

LEMMA VoltarContas ==
  ASSUME NEW p \in Pedidos, NEW k \in 1..3, IInv, ContasCertas, Voltar(p, k)
  PROVE  ContasCertas'
<1>1. etapa[p] = k /\ UNCHANGED <<pedido, transmitidas>> /\ ChamadasDefinidas'
  BY RespostaDaChamada
<1>2. \A c \in Chamadas \ {<<p, k>>} : codigo'[c] = codigo[c] /\ retorno'[c] = retorno[c]
  BY RespostaDaChamada
<1>3. PICK e \in 2..4 : etapa' = [etapa EXCEPT ![p] = e]
  BY RespostaDaChamada
<1>4. \/ UNCHANGED resultado
      \/ \E res : resultado' = [resultado EXCEPT ![p] = res]
  BY RespostaDaChamada
<1>5. etapa \in [Pedidos -> 0..4] /\ resultado = [q \in Pedidos |-> resultado[q]]
  BY DEF IInv, Tipagem, ContasCertas, ChamadasDefinidas
<1>6. Conta(p) /\ resultado[p] = "nenhum"
  BY <1>1 DEF ContasCertas, Conta, SemResposta
<1>7. ASSUME NEW q \in Pedidos, q # p PROVE Conta(q)'
  <2>1. etapa'[q] = etapa[q] /\ resultado'[q] = resultado[q]
    BY <1>3, <1>4, <1>5, <1>7
  <2>2. \A j \in 1..3 : <<q, j>> \in Chamadas \ {<<p, k>>}
    BY <1>7 DEF Chamadas
  <2>3. \A j \in 1..3 : codigo'[<<q, j>>] = codigo[<<q, j>>]
                        /\ retorno'[<<q, j>>] = retorno[<<q, j>>]
    BY <1>2, <2>2
  <2>4. Conta(q)
    BY DEF ContasCertas
  <2> QED
    BY <1>1, <2>1, <2>3, <2>4 DEF Conta, SemResposta, Carimbo, Recusa
<1>8. SemResposta(p)'
  <2>1. etapa'[p] = e
    BY <1>3, <1>5
  <2>2. e # 4 => resultado'[p] = "nenhum"
    <3>1. CASE pedido[p].tipo = "xml"
      <4>1. SeguirXML(p, k, codigo'[<<p, k>>])
        BY <3>1 DEF Voltar
      <4> QED
        BY <1>3, <1>5, <1>6, <4>1 DEF SeguirXML, Seguir, Encerrar
    <3>2. CASE pedido[p].tipo # "xml"
      <4>1. SeguirOperacao(p, k, codigo'[<<p, k>>], retorno'[<<p, k>>])
        BY <3>2 DEF Voltar
      <4> QED
        BY <1>3, <1>5, <1>6, <4>1 DEF SeguirOperacao, Seguir, Encerrar
    <3> QED
      BY <3>1, <3>2
  <2> QED
    BY <2>1, <2>2 DEF SemResposta
<1>9. Carimbo(p)'
  <2>1. CASE pedido[p].tipo = "xml"
    BY <1>6, <2>1, CarimboDepois DEF Conta
  <2> QED
    BY <1>1, <2>1 DEF Carimbo
<1>10. Recusa(p)'
  <2>1. CASE pedido[p].tipo \in {"transmissao", "cancelamento"}
    BY <1>6, <2>1, RecusaDepois DEF Conta
  <2> QED
    BY <1>1, <2>1 DEF Recusa
<1> QED
  BY <1>1, <1>7, <1>8, <1>9, <1>10 DEF ContasCertas, Conta

LEMMA NextContas == IInv /\ ContasCertas /\ [Next]_vars => ContasCertas'
<1> SUFFICES ASSUME IInv, ContasCertas, [Next]_vars PROVE ContasCertas'
  OBVIOUS
<1>1. CASE \E p \in Pedidos : Comecar(p)
  BY <1>1, ComecarContas
<1>2. CASE \E p \in Pedidos, k \in 1..2 : Chegar(p, k)
  BY <1>2, ChegarContas
<1>3. CASE \E p \in Pedidos, k \in 1..3 : Voltar(p, k)
  BY <1>3, VoltarContas
<1>4. CASE UNCHANGED <<pedido, etapa, retorno, resultado, codigo, transmitidas>>
  BY <1>4
  DEF ContasCertas, ChamadasDefinidas, Conta, SemResposta, Carimbo, Recusa
<1> QED
  BY <1>1, <1>2, <1>3, <1>4 DEF Next, ProcessarLote, PassarDia, Fim, cliente, vars

LEMMA SempreContas == Spec => []ContasCertas
  BY InitContas, NextContas, EspecDocumentoNoLugar, PTL DEF Spec

\* A generated document is delivered only with its rules run, or with the
\* library saying it has none: no other failure of the second call of Montar
\* delivers it (fiscal.go, validarRegras).
THEOREM EspecCarimboFoiDado == Spec => []CarimboFoiDado
<1>1. ContasCertas => CarimboFoiDado
  BY DEF ContasCertas, Conta, Carimbo, CarimboFoiDado, DoTipo
<1> QED
  BY <1>1, SempreContas, PTL

\* "The class does not implement it" is answered exactly when the class said so,
\* and then nothing left (http.go, naoSuportada).
THEOREM EspecNaoSuportadaDizAVerdade == Spec => []NaoSuportadaDizAVerdade
<1>1. ContasCertas => NaoSuportadaDizAVerdade
  BY DEF ContasCertas, Conta, Recusa, NaoSuportadaDizAVerdade, DoTipo
<1> QED
  BY <1>1, SempreContas, PTL

=============================================================================
