-------------------------------- MODULE Rota --------------------------------
(***************************************************************************)
(* By which system an operation of the NFS-e leaves: the route of          *)
(* internal/nfse/rota.go and the table of internal/nfse/vigencia.go.       *)
(*                                                                         *)
(* The library picks the class of the provider by the municipality of the  *)
(* session.  Where `vigencias` has a line the same municipality has notes  *)
(* in two systems, so each operation works out the session from what it    *)
(* has in hand: the request, the finished DPS, or the key of the note.     *)
(*                                                                         *)
(* A date is its number of days; what else there is in the text of a date  *)
(* the client wrote is the form it was written in.                         *)
(***************************************************************************)
EXTENDS Naturals, Sequences

CONSTANTS
  Municipios,      \* the municipalities the table of the library knows
  SessaoNacional,  \* one of them, served by the national class alone
  Provedor,        \* the name of the provider of each (tabelas.ProvedorNFSe)
  LayoutDe,        \* the layout of its input (LayoutDoMunicipio)
  vigencias,       \* the lines of the table of vigencia.go
  Datas,           \* the days there are
  DiaDoMes         \* the day of the month of each

\* opSimpNac: 0 when the field of the request was left out, and when a document
\* has no such tag.  A request without the whole group of the regime behaves like
\* one without the field where there is no tag, and becomes no document of the
\* national layout, where the group is required.
Regimes == 0..3
Layouts == {"padrao_nacional", "abrasf", "proprio"}
Formas  == {"iso", "barra", "instante", "vazio"}

PadraoNacional == "PadraoNacional"

\* TestVigencias_LinhasValidas keeps the lines like this, and another test
\* keeps the class of SessaoNacional.
ASSUME RotaAssumption ==
  /\ Datas \subseteq Nat
  /\ DiaDoMes \in [Datas -> 1..31]
  /\ Provedor \in [Municipios -> STRING]
  /\ LayoutDe \in [Municipios -> Layouts]
  /\ SessaoNacional \in Municipios
  /\ Provedor[SessaoNacional] = PadraoNacional
  /\ LayoutDe[SessaoNacional] = "padrao_nacional"
  /\ vigencias \subseteq [municipio : Municipios, opSimpNac : 1..3, desde : Datas]
  /\ \A v \in vigencias : Provedor[v.municipio] # PadraoNacional

-----------------------------------------------------------------------------
(* The competence: what the client wrote and what the document says.       *)

\* `dia` is the day written, and `local` the day of that instant in the time
\* zone of the document, which differ around midnight.
Competencias ==
  [forma : Formas, dia : Datas, local : Datas]

\* dCompet[:10] >= Desde, as texts: "DD/..." is above "20..." from day 21 on,
\* whatever the month and the year, and the empty text is below everything.
NaoAntes(comp, desde) ==
  CASE comp.forma = "vazio" -> FALSE
    [] comp.forma = "barra" -> DiaDoMes[comp.dia] >= 21
    [] OTHER                -> comp.dia >= desde

\* inifmt.DataBR: the day that goes into the document.
DataBR(comp, hoje) ==
  CASE comp.forma = "vazio"    -> hoje
    [] comp.forma = "instante" -> comp.local
    [] OTHER                   -> comp.dia

\* A day as the tag dCompet of a document writes it.
EscritaEm(dia) == [forma |-> "iso", dia |-> dia, local |-> dia]

-----------------------------------------------------------------------------
(* Routes.  `sessao` decides the class of the library, `layout` the INI    *)
(* and the way of the events.                                              *)

Rotas == [municipio : Municipios, sessao : Municipios, layout : Layouts]

RotaDoMunicipio(m) ==
  [municipio |-> m, sessao |-> m, layout |-> LayoutDe[m]]

Nacional(r) ==
  [r EXCEPT !.sessao = SessaoNacional, !.layout = "padrao_nacional"]

\* The system that answers by this route: all the sessions of the national
\* class speak with the same one.
ProvedorDaRota(r) == Provedor[r.sessao]

SistemaDaSessao(s) ==
  IF Provedor[s] = PadraoNacional THEN SessaoNacional ELSE s

Sistema(r) == SistemaDaSessao(r.sessao)

TemDoisCaminhos(m) == \E v \in vigencias : v.municipio = m

\* Whether a note of this issuer leaves by the national environment.
PeloAmbienteNacional(m, op, comp) ==
  \E v \in vigencias :
    /\ v.municipio = m
    /\ v.opSimpNac = op
    /\ NaoAntes(comp, v.desde)

\* The route of a DPS by the request.
DaEmissao(r, op, comp) ==
  IF PeloAmbienteNacional(r.municipio, op, comp) THEN Nacional(r) ELSE r

\* ToINI writes the regime that was left out as 1, not of the Simples.
RegimeEscrito(op) == IF op = 0 THEN 1 ELSE op

\* The document the class of a session writes, of the day in its INI: only the
\* national layout has the tags opSimpNac, dCompet and tpAmb that the transmission
\* looks for.
DocumentoDa(r, op, dia, ambiente) ==
  IF LayoutDe[r.sessao] = "padrao_nacional"
  THEN [opSimpNac |-> RegimeEscrito(op), dCompet |-> EscritaEm(dia),
        tpAmb |-> ambiente]
  ELSE [opSimpNac |-> 0, tpAmb |-> "sem",
        dCompet |-> [EscritaEm(dia) EXCEPT !.forma = "vazio"]]

\* The route of the transmission, which has only the finished document.
DaDPSPronta(r, xml) == DaEmissao(r, xml.opSimpNac, xml.dCompet)

\* Position 8 of a key of 50 digits says which system generated the note; the
\* systems of the cities that have no such key answer "outra".
AmbienteGerador(sistema, m) ==
  IF sistema = SessaoNacional THEN "2"
  ELSE IF LayoutDe[m] = "padrao_nacional" THEN "1" ELSE "outra"

\* The route of a note that exists, by its key.
DaNota(r, gerador) ==
  IF TemDoisCaminhos(r.municipio) /\ gerador = "2" THEN Nacional(r) ELSE r

\* The route of an event; a replacement goes by the rule of the new note first.
DoEvento(r, tipo, op, comp, gerador) ==
  IF tipo = "substituicao" /\ PeloAmbienteNacional(r.municipio, op, comp)
  THEN Nacional(r)
  ELSE DaNota(r, gerador)

\* Where to look for a DPS, in order: its identifier does not say the system.
RotasDaConsultaDPS(r) ==
  IF TemDoisCaminhos(r.municipio) THEN <<Nacional(r), r>> ELSE <<r>>

=============================================================================
