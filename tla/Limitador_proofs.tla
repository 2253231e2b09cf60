--------------------------- MODULE Limitador_proofs ---------------------------
(***************************************************************************)
(* Theorems about Limitador, for any number of addresses and goroutines,   *)
(* any rate and any limit of the map.                                      *)
(*                                                                         *)
(* A bucket (fichas, visto) stands for the difference visto - fichas: a    *)
(* reading that lies behind the bucket's own moves both by the same amount *)
(* and changes nothing.  LInv bounds what an observer has counted by that  *)
(* difference, which is why the order of the readings does not matter.     *)
(***************************************************************************)
EXTENDS Limitador, FiniteSetTheorems, TLAPS

\* One bucket and what the observer of its address knows.
BaldeCerto(i) ==
  LET b == clientes[i] IN
  /\ SaldoGuardado(b)
  /\ b.visto - b.fichas <= relogio
  /\ consumido[i] > 0 => consumido[i] + b.fichas <= Teto + b.visto - desde[i]
  /\ prometido[i] # Nada =>
       b.fichas < Ficha /\ b.visto + Ficha - b.fichas <= prometido[i]

LInv ==
  /\ TypeOK
  /\ IsFiniteSet(Acompanhados)
  /\ TetoDeClientes
  /\ \A i \in Acompanhados : BaldeCerto(i)
  /\ \A i \in Ips \ Acompanhados : consumido[i] = 0 /\ prometido[i] = Nada

-----------------------------------------------------------------------------

USE LimitadorAssumption DEF Nada

LEMMA InitLInv == Init => LInv
<1> SUFFICES ASSUME Init PROVE LInv
  OBVIOUS
<1>1. Acompanhados = {}
  BY DEF Init, Acompanhados
<1>2. IsFiniteSet(Acompanhados) /\ Cardinality(Acompanhados) = 0
  BY <1>1, FS_EmptySet
<1>3. TypeOK
  BY <1>1 DEF Init, TypeOK, Acompanhados
<1> QED
  BY <1>1, <1>2, <1>3 DEF LInv, TetoDeClientes, Init

\* Nothing but the clock, the requests or the interval watched changes.
LEMMA TiqueLInv == LInv /\ Tique => LInv'
<1> SUFFICES ASSUME LInv, Tique PROVE LInv'
  OBVIOUS
<1>1. UNCHANGED <<clientes, pedido, desde, consumido, prometido>>
      /\ relogio' = relogio + 1 /\ relogio' \in 0..MaxRelogio
  BY DEF Tique, observacao, LInv, TypeOK
<1>2. TypeOK'
  BY <1>1 DEF LInv, TypeOK, Acompanhados
<1>3. \A i \in Acompanhados : BaldeCerto(i)'
  BY <1>1 DEF LInv, BaldeCerto, TypeOK
<1> QED
  BY <1>1, <1>2, <1>3 DEF LInv, Acompanhados, TetoDeClientes

LEMMA ChegarLInv ==
  ASSUME LInv, NEW p \in Pedidos, NEW i \in Ips, Chegar(p, i)
  PROVE  LInv'
<1>1. UNCHANGED <<relogio, clientes, desde, consumido, prometido>>
  BY DEF Chegar, observacao
<1>2. pedido' \in [Pedidos -> {Ocioso} \union [ip : Ips, agora : 0..relogio]]
  BY DEF Chegar, LInv, TypeOK
<1>3. TypeOK'
  BY <1>1, <1>2 DEF LInv, TypeOK, Acompanhados
<1> QED
  BY <1>1, <1>3 DEF LInv, BaldeCerto, Acompanhados, TetoDeClientes

LEMMA ObservarLInv ==
  ASSUME LInv, NEW i \in Ips, Observar(i)
  PROVE  LInv'
<1>1. /\ UNCHANGED <<relogio, pedido, clientes, prometido>>
      /\ desde'     = [desde EXCEPT ![i] = relogio]
      /\ consumido' = [consumido EXCEPT ![i] = 0]
  BY DEF Observar
<1>2. TypeOK'
  BY <1>1 DEF LInv, TypeOK, Acompanhados
<1>3. \A j \in Acompanhados : BaldeCerto(j)'
  BY <1>1 DEF LInv, TypeOK, BaldeCerto, Acompanhados
<1>4. \A j \in Ips \ Acompanhados : consumido'[j] = 0 /\ prometido'[j] = Nada
  BY <1>1 DEF LInv, TypeOK
<1> QED
  BY <1>1, <1>2, <1>3, <1>4 DEF LInv, Acompanhados, TetoDeClientes

\* What is known of a request that enters the critical section.
LEMMA LeituraTipada ==
  ASSUME LInv, NEW p \in Pedidos, pedido[p] # Ocioso
  PROVE  pedido[p].ip \in Ips /\ pedido[p].agora \in 0..relogio
  BY DEF LInv, TypeOK

LEMMA EncerrarTipado ==
  ASSUME LInv, NEW p \in Pedidos, Encerrar(p)
  PROVE  /\ UNCHANGED relogio
         /\ pedido' \in [Pedidos -> {Ocioso} \union [ip : Ips, agora : 0..relogio]]
  BY DEF LInv, TypeOK, Encerrar

\* A bucket that stays in the map is replaced by one that is right.
LEMMA BaldeTrocado ==
  ASSUME LInv, NEW p \in Pedidos, pedido[p] # Ocioso, Encerrar(p),
         NEW i \in Acompanhados, NEW f \in Int, NEW a \in 0..relogio,
         clientes' = [clientes EXCEPT ![i] = [fichas |-> f, visto |-> a]],
         NEW k \in Nat, consumido' = [consumido EXCEPT ![i] = k],
         NEW m \in Nat \union {Nada}, prometido' = [prometido EXCEPT ![i] = m],
         UNCHANGED desde,
         BaldeCerto(i)'
  PROVE  LInv'
<1>1. UNCHANGED relogio
  BY EncerrarTipado
<1>2. /\ Acompanhados' = Acompanhados
      /\ clientes' \in [Acompanhados -> [fichas : Int, visto : 0..relogio]]
      /\ \A j \in Acompanhados \ {i} : clientes'[j] = clientes[j]
  BY DEF LInv, TypeOK, Acompanhados
<1>3. i \in Ips /\ i \in DOMAIN consumido /\ i \in DOMAIN prometido
  BY DEF LInv, TypeOK
<1>4. \A j \in Acompanhados : BaldeCerto(j)'
  BY <1>1, <1>2, <1>3 DEF LInv, TypeOK, BaldeCerto
<1>5. TypeOK'
  <2>1. \A j \in Acompanhados' : SaldoGuardado(clientes'[j])
    BY <1>2, <1>4 DEF BaldeCerto
  <2>2. consumido' \in [Ips -> Nat] /\ prometido' \in [Ips -> Nat \union {Nada}]
    BY DEF LInv, TypeOK
  <2> QED
    BY <1>1, <1>2, <2>1, <2>2, EncerrarTipado DEF LInv, TypeOK
<1>6. \A j \in Ips \ Acompanhados : consumido'[j] = 0 /\ prometido'[j] = Nada
  BY <1>3 DEF LInv, TypeOK
<1> QED
  BY <1>1, <1>2, <1>4, <1>5, <1>6 DEF LInv, TetoDeClientes

LEMMA PassarLInv ==
  ASSUME LInv, NEW p \in Pedidos, Passar(p)
  PROVE  LInv'
<1>1. PICK i \in Ips, a \in 0..relogio : i = pedido[p].ip /\ a = pedido[p].agora
  BY LeituraTipada DEF Passar
<1>2. pedido[p] # Ocioso /\ i \in Acompanhados /\ Encerrar(p)
  BY <1>1 DEF Passar
<1>3. clientes[i] \in [fichas : Int, visto : 0..relogio]
  BY <1>2 DEF LInv, TypeOK
<1>4. PICK f \in Nat : f = Reposto(clientes[i], a) - Ficha
  BY <1>1, <1>3 DEF Passar, Reposto
<1>5. /\ f <= clientes[i].fichas + (a - clientes[i].visto) - Ficha
      /\ f <= Teto - Ficha
  BY <1>3, <1>4 DEF Reposto
<1>6. consumido[i] \in Nat /\ desde[i] \in 0..relogio
  BY DEF LInv, TypeOK
<1>7. PICK k \in Nat : k = Contado(i, a)
  BY <1>6 DEF Contado
<1>8. /\ clientes' = [clientes EXCEPT ![i] = [fichas |-> f, visto |-> a]]
      /\ consumido' = [consumido EXCEPT ![i] = k]
      /\ prometido' = [prometido EXCEPT ![i] = Nada]
      /\ UNCHANGED <<desde, relogio>>
  BY <1>1, <1>4, <1>7 DEF Passar, Encerrar
<1>9. /\ clientes'[i] = [fichas |-> f, visto |-> a]
      /\ consumido'[i] = k /\ prometido'[i] = Nada
  BY <1>2, <1>8 DEF LInv, TypeOK, Acompanhados
<1>10. BaldeCerto(i)
  BY <1>2 DEF LInv
<1>11. k > 0 => k + f <= Teto + a - desde[i]
  <2>1. CASE consumido[i] > 0
    BY <2>1, <1>3, <1>5, <1>6, <1>7, <1>10 DEF BaldeCerto, Contado
  <2>2. CASE consumido[i] = 0
    BY <2>2, <1>5, <1>6, <1>7 DEF Contado
  <2> QED
    BY <2>1, <2>2, <1>6
<1>12. relogio \in Nat
  BY DEF LInv, TypeOK
<1>13. BaldeCerto(i)'
  BY <1>5, <1>8, <1>9, <1>11, <1>12 DEF BaldeCerto, SaldoGuardado
<1>14. PICK m \in Nat \union {Nada} : m = Nada
  OBVIOUS
<1>15. prometido' = [prometido EXCEPT ![i] = m] /\ f \in Int
  BY <1>8, <1>14
<1> QED
  BY <1>2, <1>8, <1>13, <1>15, BaldeTrocado

LEMMA RecusarLInv ==
  ASSUME LInv, NEW p \in Pedidos, Recusar(p)
  PROVE  LInv'
<1>1. PICK i \in Ips, a \in 0..relogio : i = pedido[p].ip /\ a = pedido[p].agora
  BY LeituraTipada DEF Recusar
<1>2. pedido[p] # Ocioso /\ i \in Acompanhados /\ Encerrar(p)
  BY <1>1 DEF Recusar
<1>3. clientes[i] \in [fichas : Int, visto : 0..relogio]
  BY <1>2 DEF LInv, TypeOK
<1>4. PICK f \in Int : f = Reposto(clientes[i], a)
  BY <1>3 DEF Reposto
<1>5. f < Ficha /\ f = clientes[i].fichas + (a - clientes[i].visto)
  BY <1>1, <1>3, <1>4 DEF Recusar, Reposto
<1>6. /\ consumido \in [Ips -> Nat] /\ desde[i] \in 0..relogio
      /\ prometido[i] \in Nat \union {Nada}
  BY DEF LInv, TypeOK
<1>7. PICK m \in Nat :
        m = IF prometido[i] = Nada THEN a + (Ficha - f) ELSE prometido[i]
  BY <1>5, <1>6
<1>8. PICK k \in Nat : k = consumido[i]
  BY <1>6
<1>9. /\ clientes' = [clientes EXCEPT ![i] = [fichas |-> f, visto |-> a]]
      /\ prometido' = [prometido EXCEPT ![i] = m]
      /\ consumido' = [consumido EXCEPT ![i] = k]
      /\ UNCHANGED <<desde, relogio>>
  BY <1>1, <1>4, <1>6, <1>7, <1>8 DEF Recusar, Encerrar
<1>10. /\ clientes'[i] = [fichas |-> f, visto |-> a]
       /\ prometido'[i] = m /\ consumido'[i] = k
  BY <1>2, <1>9 DEF LInv, TypeOK, Acompanhados
<1>11. BaldeCerto(i)
  BY <1>2 DEF LInv
<1>12. a + Ficha - f <= m
  BY <1>3, <1>5, <1>6, <1>7, <1>11 DEF BaldeCerto
<1>13. BaldeCerto(i)'
  BY <1>3, <1>5, <1>6, <1>8, <1>9, <1>10, <1>11, <1>12
     DEF BaldeCerto, SaldoGuardado
<1> QED
  BY <1>2, <1>9, <1>13, BaldeTrocado

LEMMA AdmitirLInv ==
  ASSUME LInv, NEW p \in Pedidos, Admitir(p)
  PROVE  LInv'
<1>1. PICK i \in Ips, a \in 0..relogio : i = pedido[p].ip /\ a = pedido[p].agora
  BY LeituraTipada DEF Admitir
<1>2. PICK fora : fora = Descartados(a)
  OBVIOUS
<1> DEFINE ficam == Acompanhados \ fora
<1>3. /\ i \notin Acompanhados /\ Encerrar(p)
      /\ Cardinality(ficam) < MaxClientes
  BY <1>1, <1>2 DEF Admitir
<1>4. /\ clientes' = [j \in ficam \union {i} |->
             IF j = i THEN [fichas |-> Teto - Ficha, visto |-> a] ELSE clientes[j]]
      /\ desde' = [j \in Ips |-> IF j \in fora THEN relogio ELSE desde[j]]
      /\ consumido' = [j \in Ips |-> IF j = i THEN Contado(i, a)
                                     ELSE IF j \in fora THEN 0 ELSE consumido[j]]
      /\ prometido' = [j \in Ips |-> IF j \in fora THEN Nada ELSE prometido[j]]
      /\ UNCHANGED relogio
  BY <1>1, <1>2 DEF Admitir, Encerrar
<1>5. fora \subseteq Acompanhados /\ Acompanhados \subseteq Ips /\ i \notin fora
  BY <1>2, <1>3 DEF Descartados, LInv, TypeOK
<1>6. /\ Contado(i, a) \in {0, Ficha} /\ consumido[i] = 0 /\ prometido[i] = Nada
      /\ a < desde[i] => Contado(i, a) = 0
  BY <1>3 DEF Contado, LInv, TypeOK
<1>7. Acompanhados' = ficam \union {i}
  BY <1>4 DEF Acompanhados
<1>8. IsFiniteSet(Acompanhados') /\ Cardinality(Acompanhados') <= MaxClientes
  <2>1. IsFiniteSet(ficam)
    BY FS_Subset DEF LInv
  <2>2. Cardinality(ficam) \in Nat
    BY <2>1, FS_CardinalityType
  <2>3. /\ IsFiniteSet(ficam \union {i})
        /\ Cardinality(ficam \union {i}) \in {Cardinality(ficam), Cardinality(ficam) + 1}
    BY <2>1, FS_AddElement
  <2>4. Cardinality(ficam \union {i}) <= MaxClientes
    <3> HIDE DEF ficam
    <3> QED
      BY <1>3, <2>2, <2>3
  <2> QED
    BY <1>7, <2>3, <2>4
<1>9. TypeOK'
  <2>1. clientes' \in [Acompanhados' -> [fichas : Int, visto : 0..relogio]]
    BY <1>4, <1>7 DEF LInv, TypeOK
  <2>2. /\ desde' \in [Ips -> 0..relogio] /\ consumido' \in [Ips -> Nat]
        /\ prometido' \in [Ips -> Nat \union {Nada}]
    BY <1>4, <1>6 DEF LInv, TypeOK
  <2>3. \A j \in Acompanhados' : SaldoGuardado(clientes'[j])
    BY <1>4, <1>5, <1>7 DEF LInv, TypeOK, SaldoGuardado
  <2> QED
    BY <1>3, <1>4, <1>5, <1>7, <2>1, <2>2, <2>3, EncerrarTipado DEF LInv, TypeOK
<1>10. \A j \in Acompanhados' : BaldeCerto(j)'
  <2>1. BaldeCerto(i)'
    <3>1. /\ clientes'[i] = [fichas |-> Teto - Ficha, visto |-> a]
          /\ consumido'[i] = Contado(i, a) /\ prometido'[i] = Nada
          /\ desde'[i] = desde[i] /\ desde[i] \in 0..relogio /\ relogio \in Nat
      BY <1>4, <1>5, <1>6 DEF LInv, TypeOK
    <3> QED
      BY <1>4, <1>6, <3>1 DEF BaldeCerto, SaldoGuardado
  <2>2. ASSUME NEW j \in ficam PROVE BaldeCerto(j)'
    <3>1. j \in Acompanhados /\ j \in Ips /\ j # i /\ j \notin fora
      BY <1>3, <1>5
    <3>2. /\ clientes'[j] = clientes[j] /\ consumido'[j] = consumido[j]
          /\ prometido'[j] = prometido[j] /\ desde'[j] = desde[j]
      BY <1>4, <3>1
    <3> QED
      BY <1>4, <3>1, <3>2 DEF LInv, BaldeCerto
  <2>3. \A j \in ficam \union {i} : BaldeCerto(j)'
    BY <2>1, <2>2
  <2> QED
    BY <1>7, <2>3
<1>11. \A j \in Ips \ Acompanhados' : consumido'[j] = 0 /\ prometido'[j] = Nada
  BY <1>4, <1>5, <1>7 DEF LInv
<1> QED
  BY <1>8, <1>9, <1>10, <1>11 DEF LInv, TetoDeClientes

LEMMA NextLInv == LInv /\ [Next]_vars => LInv'
<1> SUFFICES ASSUME LInv, [Next]_vars PROVE LInv'
  OBVIOUS
<1>1. CASE Tique
  BY <1>1, TiqueLInv
<1>2. ASSUME NEW p \in Pedidos, Permitir(p) PROVE LInv'
  <2>1. CASE SemEspaco(p)
    <3>1. UNCHANGED <<clientes, relogio, desde, consumido, prometido>>
      BY <2>1 DEF SemEspaco, observacao, Encerrar
    <3>2. TypeOK'
      BY <2>1, <3>1, EncerrarTipado DEF SemEspaco, LInv, TypeOK, Acompanhados
    <3> QED
      BY <3>1, <3>2 DEF LInv, BaldeCerto, Acompanhados, TetoDeClientes
  <2> QED
    BY <1>2, <2>1, PassarLInv, RecusarLInv, AdmitirLInv DEF Permitir
<1>3. ASSUME NEW p \in Pedidos, NEW i \in Ips, Chegar(p, i) PROVE LInv'
  BY <1>3, ChegarLInv
<1>4. ASSUME NEW i \in Ips, Observar(i) PROVE LInv'
  BY <1>4, ObservarLInv
<1>5. CASE UNCHANGED vars
  BY <1>5 DEF vars, LInv, TypeOK, BaldeCerto, Acompanhados, TetoDeClientes
<1> QED
  BY <1>1, <1>2, <1>3, <1>4, <1>5 DEF Next

LEMMA SempreLInv == Spec => []LInv
  BY InitLInv, NextLInv, PTL DEF Spec

-----------------------------------------------------------------------------

\* The types of limite.go's state.
THEOREM EspecTiposDoLimite == Spec => []TypeOK
<1>1. LInv => TypeOK
  BY DEF LInv
<1> QED
  BY <1>1, SempreLInv, PTL

\* The map never outgrows maxClientes (limite.go:24-28).
THEOREM EspecTetoDeClientes == Spec => []TetoDeClientes
<1>1. LInv => TetoDeClientes
  BY DEF LInv
<1> QED
  BY <1>1, SempreLInv, PTL

\* No interval lets a tracked address spend more than a full bucket and the
\* refill, whatever order the requests take the mutex in (limite.go:85-91).
THEOREM EspecTaxaRespeitada == Spec => []TaxaRespeitada
<1>1. LInv => TaxaRespeitada
  <2> SUFFICES ASSUME LInv, NEW i \in Acompanhados
               PROVE  consumido[i] <= Teto + (relogio - desde[i])
    BY DEF TaxaRespeitada
  <2>1. /\ clientes[i] \in [fichas : Int, visto : 0..relogio]
        /\ consumido[i] \in Nat /\ desde[i] \in 0..relogio /\ relogio \in Nat
    BY DEF LInv, TypeOK
  <2>2. BaldeCerto(i)
    BY DEF LInv
  <2> QED
    BY <2>1, <2>2 DEF BaldeCerto
<1> QED
  BY <1>1, SempreLInv, PTL

\* Who comes back when told to is let through (limite.go:62-63 and 87-88).
THEOREM EspecRetryAfterBasta == Spec => []RetryAfterBasta
<1>1. LInv => RetryAfterBasta
  <2> SUFFICES ASSUME LInv, NEW i \in Acompanhados, prometido[i] # Nada,
                      NEW a \in prometido[i]..MaxRelogio
               PROVE  Reposto(clientes[i], a) >= Ficha
    BY DEF RetryAfterBasta
  <2>1. clientes[i] \in [fichas : Int, visto : 0..relogio]
        /\ prometido[i] \in Nat /\ a \in Int /\ a >= prometido[i]
    BY DEF LInv, TypeOK
  <2>2. BaldeCerto(i)
    BY DEF LInv
  <2> QED
    BY <2>1, <2>2 DEF BaldeCerto, Reposto
<1> QED
  BY <1>1, SempreLInv, PTL

\* To forget an address forgives nothing (limite.go:94-105).
THEOREM EspecEsqueceSoQuemRepos == Spec => EsqueceSoQuemRepos
<1> DEFINE Esquece == \A i \in Acompanhados \ Acompanhados' :
                        consumido[i] <= relogio - desde[i]
<1>1. LInv /\ [Next]_vars => [Esquece]_vars
  <2> SUFFICES ASSUME LInv, Next, NEW i \in Acompanhados, i \notin Acompanhados'
               PROVE  consumido[i] <= relogio - desde[i]
    BY DEF vars
  <2>1. PICK p \in Pedidos : Admitir(p)
    <3>1. \A p \in Pedidos : Passar(p) \/ Recusar(p) => Acompanhados' = Acompanhados
      BY DEF Passar, Recusar, Acompanhados, LInv, TypeOK
    <3> QED
      BY <3>1 DEF Next, Tique, Permitir, SemEspaco, Chegar, Observar, Acompanhados
  <2> DEFINE a == pedido[p].agora
  <2>2. i \in Descartados(a) /\ pedido[p] # Ocioso
    BY <2>1 DEF Admitir, Acompanhados
  <2>3. Cheio(clientes[i], a) /\ a \in 0..relogio
    BY <2>2, LeituraTipada DEF Descartados
  <2>4. /\ clientes[i] \in [fichas : Int, visto : 0..relogio]
        /\ consumido[i] \in Nat /\ desde[i] \in 0..relogio /\ relogio \in Nat
    BY DEF LInv, TypeOK
  <2>5. BaldeCerto(i)
    BY DEF LInv
  <2> HIDE DEF a
  <2> QED
    BY <2>3, <2>4, <2>5 DEF BaldeCerto, Cheio
<1> QED
  BY <1>1, SempreLInv, PTL DEF Spec, EsqueceSoQuemRepos

=============================================================================
