------------------------------ MODULE Limitador ------------------------------
(***************************************************************************)
(* The request limit per address (internal/servidor/limite.go): one token  *)
(* bucket per address, in a map that never holds more than MaxClientes of  *)
(* them.                                                                   *)
(*                                                                         *)
(* permitir reads the clock BEFORE it takes the mutex, so requests enter   *)
(* the critical section in another order than that of their clocks, and a  *)
(* bucket may be refilled with a time that lies behind its own.            *)
(*                                                                         *)
(* One tick of the clock refills one part of a token and a token has Ficha *)
(* parts, so that the arithmetic is exact: the code's floating point is    *)
(* not modelled.                                                           *)
(***************************************************************************)
EXTENDS Integers, FiniteSets

CONSTANTS
  Pedidos,      \* the requests being served, one goroutine each
  Ips,          \* the addresses ipDoCliente may find
  Ficha,        \* parts of a token
  Teto,         \* parts of a full bucket: API_RATE_PER_MIN tokens
  MaxClientes,  \* maxClientes
  MaxRelogio,   \* bound on the clock
  Ocioso        \* a goroutine without a request

ASSUME LimitadorAssumption ==
  /\ Ficha \in Nat \ {0}
  /\ Teto \in Nat /\ Ficha <= Teto
  /\ MaxClientes \in Nat
  /\ MaxRelogio \in Nat

VARIABLES
  relogio,    \* the monotonic clock
  pedido,     \* the request of each goroutine: its address and its time reading
  clientes,   \* the buckets, a function on the addresses being tracked
  (* What an observer of one address writes down; the code reads none of it. *)
  desde,      \* the beginning of the interval it watches
  consumido,  \* parts spent by readings in that interval
  prometido   \* the time at which a refused client was told to come back

vars == <<relogio, pedido, clientes, desde, consumido, prometido>>

observacao == <<desde, consumido, prometido>>

Nada == -1  \* no promise is pending

Acompanhados == DOMAIN clientes

-----------------------------------------------------------------------------
(* Buckets.                                                                *)

\* Mutation: tokens accumulate without limit.
Reposto_ErroSemTeto(b, agora) == b.fichas + (agora - b.visto)

\* Mutation: a reading from before the last one refills nothing, as it should,
\* but the time of the bucket still goes back to it.
Reposto_ErroSoParaFrente(b, agora) ==
  LET f == b.fichas + (IF agora > b.visto THEN agora - b.visto ELSE 0)
  IN  IF f < Teto THEN f ELSE Teto

\* The tokens of b at time agora.
Reposto(b, agora) ==
  LET f == b.fichas + (agora - b.visto) IN IF f < Teto THEN f ELSE Teto

\* Mutation: a bucket with one token counts as full.
Cheio_ErroUmaFicha(b, agora) == b.fichas + (agora - b.visto) >= Ficha

\* What abrirEspaco forgets.
Cheio(b, agora) == b.fichas + (agora - b.visto) >= Teto

\* abrirEspaco is only called with the map at its limit.
Descartados(agora) ==
  IF Cardinality(Acompanhados) >= MaxClientes
  THEN {i \in Acompanhados : Cheio(clientes[i], agora)}
  ELSE {}

-----------------------------------------------------------------------------

Init ==
  /\ relogio   = 0
  /\ pedido    = [p \in Pedidos |-> Ocioso]
  /\ clientes  = [i \in {} |-> Ocioso]
  /\ desde     = [i \in Ips |-> 0]
  /\ consumido = [i \in Ips |-> 0]
  /\ prometido = [i \in Ips |-> Nada]

Tique ==
  /\ relogio < MaxRelogio
  /\ relogio' = relogio + 1
  /\ UNCHANGED <<pedido, clientes>>
  /\ UNCHANGED observacao

\* The request reaches permitir, which reads the clock.
Chegar(p, i) ==
  /\ pedido[p] = Ocioso
  /\ pedido' = [pedido EXCEPT ![p] = [ip |-> i, agora |-> relogio]]
  /\ UNCHANGED <<relogio, clientes>>
  /\ UNCHANGED observacao

\* The critical section of permitir is over for p.
Encerrar(p) ==
  /\ pedido' = [pedido EXCEPT ![p] = Ocioso]
  /\ UNCHANGED relogio

\* What the observer of i counts for a reading that spends a token.
Contado(i, agora) ==
  IF agora >= desde[i] THEN consumido[i] + Ficha ELSE consumido[i]

\* The address is tracked and has a token left.
Passar(p) ==
  LET i == pedido[p].ip
      a == pedido[p].agora IN
  /\ pedido[p] # Ocioso
  /\ i \in Acompanhados
  /\ Reposto(clientes[i], a) >= Ficha
  /\ clientes' = [clientes EXCEPT ![i] =
                    [fichas |-> Reposto(@, a) - Ficha, visto |-> a]]
  /\ prometido' = [prometido EXCEPT ![i] = Nada]
  /\ consumido' = [consumido EXCEPT ![i] = Contado(i, a)]
  /\ UNCHANGED desde
  /\ Encerrar(p)

\* Mutation: the time moves on and the tokens it brought are thrown away.
Recusar_ErroPerdeReposicao(p) ==
  LET i == pedido[p].ip
      a == pedido[p].agora IN
  /\ pedido[p] # Ocioso
  /\ i \in Acompanhados
  /\ Reposto(clientes[i], a) < Ficha
  /\ clientes' = [clientes EXCEPT ![i].visto = a]
  /\ prometido' = [prometido EXCEPT ![i] =
       IF @ = Nada THEN a + (Ficha - Reposto(clientes[i], a)) ELSE @]
  /\ UNCHANGED <<desde, consumido>>
  /\ Encerrar(p)

\* ... or not: 429.  The observer keeps the first Retry-After it is given.
Recusar(p) ==
  LET i == pedido[p].ip
      a == pedido[p].agora IN
  /\ pedido[p] # Ocioso
  /\ i \in Acompanhados
  /\ Reposto(clientes[i], a) < Ficha
  /\ clientes' = [clientes EXCEPT ![i] = [fichas |-> Reposto(@, a), visto |-> a]]
  /\ prometido' = [prometido EXCEPT ![i] =
       IF @ = Nada THEN a + (Ficha - Reposto(clientes[i], a)) ELSE @]
  /\ UNCHANGED <<desde, consumido>>
  /\ Encerrar(p)

\* Mutation: the space is only looked at, never made.
Admitir_ErroForaDoTeto(p) ==
  LET i == pedido[p].ip
      a == pedido[p].agora IN
  /\ pedido[p] # Ocioso
  /\ i \notin Acompanhados
  /\ clientes' = [j \in Acompanhados \union {i} |->
       IF j = i THEN [fichas |-> Teto - Ficha, visto |-> a] ELSE clientes[j]]
  /\ consumido' = [consumido EXCEPT ![i] = Contado(i, a)]
  /\ UNCHANGED <<desde, prometido>>
  /\ Encerrar(p)

\* The address is new and there is, or abrirEspaco makes, room for it.  The
\* observers of the addresses that are forgotten begin again.
Admitir(p) ==
  LET i == pedido[p].ip
      a == pedido[p].agora
      fora  == Descartados(a)
      ficam == Acompanhados \ fora IN
  /\ pedido[p] # Ocioso
  /\ i \notin Acompanhados
  /\ Cardinality(ficam) < MaxClientes
  /\ clientes' = [j \in ficam \union {i} |->
       IF j = i THEN [fichas |-> Teto - Ficha, visto |-> a] ELSE clientes[j]]
  /\ desde' = [j \in Ips |-> IF j \in fora THEN relogio ELSE desde[j]]
  /\ consumido' = [j \in Ips |-> IF j = i THEN Contado(i, a)
                                ELSE IF j \in fora THEN 0 ELSE consumido[j]]
  /\ prometido' = [j \in Ips |-> IF j \in fora THEN Nada ELSE prometido[j]]
  /\ Encerrar(p)

\* The address is new and the map stays full: let through, not tracked.
SemEspaco(p) ==
  LET i == pedido[p].ip
      a == pedido[p].agora IN
  /\ pedido[p] # Ocioso
  /\ i \notin Acompanhados
  /\ Cardinality(Acompanhados \ Descartados(a)) >= MaxClientes
  /\ Encerrar(p)
  /\ UNCHANGED clientes
  /\ UNCHANGED observacao

\* The observer begins to watch an address, at any time.
Observar(i) ==
  /\ desde'     = [desde EXCEPT ![i] = relogio]
  /\ consumido' = [consumido EXCEPT ![i] = 0]
  /\ UNCHANGED <<relogio, pedido, clientes, prometido>>

Permitir(p) == Passar(p) \/ Recusar(p) \/ Admitir(p) \/ SemEspaco(p)

Next ==
  \/ Tique
  \/ \E p \in Pedidos : Permitir(p) \/ \E i \in Ips : Chegar(p, i)
  \/ \E i \in Ips : Observar(i)

Spec == Init /\ [][Next]_vars

-----------------------------------------------------------------------------
(* Properties.                                                             *)

\* A balance is written after a token was taken from it or found missing, so a
\* full bucket is never in the map.
SaldoGuardado(b) == b.fichas <= Teto - Ficha \/ b.fichas < Ficha

TypeOK ==
  /\ relogio \in 0..MaxRelogio
  /\ pedido \in [Pedidos -> {Ocioso} \union [ip : Ips, agora : 0..relogio]]
  /\ Acompanhados \subseteq Ips
  /\ clientes \in [Acompanhados -> [fichas : Int, visto : 0..relogio]]
  /\ \A i \in Acompanhados : SaldoGuardado(clientes[i])
  /\ desde \in [Ips -> 0..relogio]
  /\ consumido \in [Ips -> Nat]
  /\ prometido \in [Ips -> Nat \union {Nada}]

\* The map is indexed by data the caller chooses: it must not outgrow its limit
\* (limite.go:24-28).
TetoDeClientes == Cardinality(Acompanhados) <= MaxClientes

\* What a limit per minute means: whatever interval one looks at, an address
\* that stays tracked spends in it at most one full bucket and what was
\* refilled meanwhile, in whatever order its requests overtake each other.
TaxaRespeitada ==
  \A i \in Acompanhados : consumido[i] <= Teto + (relogio - desde[i])

\* abrirEspaco only forgets an address that owes nothing: what it spent in any
\* interval has been refilled in it (limite.go:94-96).
EsqueceSoQuemRepos ==
  [][\A i \in Acompanhados \ Acompanhados' :
       consumido[i] <= relogio - desde[i]]_vars

\* Who was refused and comes back at the time it was given gets through,
\* however often it, or others behind its address, insisted in between
\* (limite.go:62-63).
RetryAfterBasta ==
  \A i \in Acompanhados : prometido[i] # Nada =>
    \A a \in prometido[i]..MaxRelogio : Reposto(clientes[i], a) >= Ficha

-----------------------------------------------------------------------------
(* What the repository says and the code does not do; see the README.      *)

\* limite.go:95-96: to track or to forget a full bucket gives exactly the same
\* result in the next request of that address.
EsquecerNaoMudaNada ==
  [][\A i \in Acompanhados \ Acompanhados' : \A p \in Pedidos :
       pedido'[p] # Ocioso /\ pedido'[p].ip = i
         => Reposto(clientes[i], pedido'[p].agora) = Teto]_vars

=============================================================================
