---------------------------- MODULE MCDocumento ----------------------------
(***************************************************************************)
(* Small instances of Documento for TLC: a calendar of two days with the   *)
(* beginning of the vigencia between them, and the municipalities that     *)
(* tell the routes apart.                                                  *)
(***************************************************************************)
EXTENDS Documento, TLC

CONSTANTS
  rio,        \* served by the national class: SessaoNacional
  brasilia,   \* ISSNet with the national layout, and a line in vigencias
  goiania,    \* ABRASF, one system, lots
  sefaz, p1, p2, p3, p4

MCMunicipios == {rio, brasilia, goiania}

MCProvedor == (rio :> "PadraoNacional") @@ (brasilia :> "ISSNet")
              @@ (goiania :> "GISS")

MCLayoutDe == (rio :> "padrao_nacional") @@ (brasilia :> "padrao_nacional")
              @@ (goiania :> "abrasf")

\* The 31st of October and the 1st of November, the first day of the rule.
MCDatas    == 0..1
MCDiaDoMes == (0 :> 31) @@ (1 :> 1)

MCVigencias == {[municipio |-> brasilia, opSimpNac |-> 3, desde |-> 1]}

\* Lines of the regime 1, which is also the one written when none was given.  The
\* tests of the table admit both; only in the first city has a document the tag.
VigenciaNaoOptante(m) == [municipio |-> m, opSimpNac |-> 1, desde |-> 1]

MCVigenciasNaoOptante == {VigenciaNaoOptante(brasilia)}
MCVigenciasDeTodos    == MCVigencias \union {VigenciaNaoOptante(goiania)}

\* Days written AAAA-MM-DD.
EscritasISO == {EscritaEm(d) : d \in MCDatas}

\* Every way the field is documented to be written, with an instant that is
\* still the day before, or already the day after, in the time zone of Brasilia.
EscritasTodas ==
  {[forma |-> f, dia |-> d, local |-> l] :
     f \in {"iso", "barra", "instante", "vazio"}, d \in MCDatas, l \in MCDatas}

\* Classes that lack a service, known before anything leaves.
MCSemServico == {<<goiania, "cancelamento">>, <<goiania, "consulta-dps">>,
                 <<brasilia, "distribuicao">>}

Trocaveis == Permutations(Pedidos)

=============================================================================
