-------------------------- MODULE Processos_proofs --------------------------
(***************************************************************************)
(* Theorems about Processos, for any number of requests and workers and    *)
(* any deadlines with Atraso < Margem.                                     *)
(*                                                                         *)
(* That a process waits long enough is not inductive: it is a comparison   *)
(* between the timer of the process and those of its calls, which were     *)
(* started at other moments.  Prazos keeps that comparison at every tick.  *)
(***************************************************************************)
EXTENDS Processos, TLAPS

\* The deadlines as numbers.
LEMMA Numeros ==
  /\ Teto \in Nat /\ Margem \in Nat /\ PrazoDaSonda \in Nat /\ PrazoDaSonda > 0
  /\ Atraso \in Nat /\ Atraso < Margem
BY ProcessosAssumption DEF ProcessosAssumption

USE Numeros, ProcessosAssumption DEF ProcessosAssumption

Tipos ==
  /\ api \in {"servindo", "drenando", "fora"}
  /\ pedido \in [Pedidos -> {"novo", "fila", "chamada", "respondido", "cortado"}]
  /\ numero \in [Pedidos -> 1..3]
  /\ vaga \in [Pedidos -> Workers \union {Nenhum}]
  /\ livres \subseteq Workers
  /\ quarentena \subseteq Workers
  /\ proc \in [Workers -> {"ouvindo", "mudo", "drenando", "fora"}]
  /\ saiu \subseteq Transmissoras
  /\ tinhamVaga \subseteq Pedidos
  /\ falta \in [Relogios -> Int]

\* No timer is later than Atraso; that of a process that ends is behind those
\* of the calls it waits for by the margin.
Prazos ==
  /\ \A t \in Ligados : falta[t] >= -Atraso
  /\ \A p \in EmCurso : falta[p] <= Teto
  /\ \A p \in tinhamVaga :
       api = "drenando" /\ pedido[p] = "chamada" /\ numero[p] = 1
         => falta[p] + Margem <= falta[Api]
  /\ \A w \in Workers : \A p \in Cortados(w) :
       proc[w] = "drenando" => falta[p] + Margem <= falta[w]

\* A caller waits for a call that its worker has.  A transmission is made at
\* most once, and a second call is not one.
Pares ==
  /\ \A p \in Pedidos :
       pedido[p] = "chamada" =>
         vaga[p] \in Workers /\ <<vaga[p], p, numero[p]>> \in naLib
  /\ \A p \in Transmissoras, w \in Workers :
       <<w, p, 1>> \in naLib =>
         /\ pedido[p] \notin {"novo", "fila"} /\ numero[p] = 1
         /\ pedido[p] = "chamada" => vaga[p] = w
  /\ \A p \in Transmissoras : numero[p] # 1 => p \notin saiu

\* What became of the requests that had their slot at the signal of the API.
Esperados ==
  \A p \in tinhamVaga :
    \/ pedido[p] = "respondido"
    \/ pedido[p] = "chamada" /\ numero[p] = 1
    \/ pedido[p] \in {"fila", "chamada", "cortado"} /\ numero[p] # 1

IInv == Tipos /\ Prazos /\ Pares /\ Esperados

-----------------------------------------------------------------------------

LEMMA InitIInv == Init => IInv
  BY DEF Init, IInv, Tipos, Prazos, Pares, Esperados, Relogios, Ligados, EmCurso,
         Cortados

LEMMA TickIInv == IInv /\ Tick => IInv'
<1> SUFFICES ASSUME IInv, Tick PROVE IInv'
  OBVIOUS
<1> USE DEF IInv
<1>1. UNCHANGED <<api, pedido, numero, vaga, livres, quarentena, proc, naLib,
                  saiu, tinhamVaga, sonda>>
  BY DEF Tick, chamadas, saude
<1>2. Ligados' = Ligados /\ EmCurso' = EmCurso
  BY <1>1 DEF Ligados, EmCurso
<1>3. falta' = [t \in Relogios |-> IF t \in Ligados THEN falta[t] - 1 ELSE 0]
      /\ \A t \in Ligados : falta[t] > -Atraso
  BY DEF Tick
<1>4. Tipos'
  BY <1>1, <1>3 DEF Tipos
<1>5. Ligados \subseteq Relogios /\ EmCurso \subseteq Ligados
  BY DEF Ligados, EmCurso, Relogios
<1>6. \A t \in Ligados : falta'[t] = falta[t] - 1 /\ falta[t] \in Int
  BY <1>3, <1>5 DEF Tipos
<1>7. Prazos'
  <2>1. \A t \in Ligados' : falta'[t] >= -Atraso
    <3>1. ASSUME NEW t \in Ligados PROVE falta'[t] >= -Atraso
      <4>1. falta[t] > -Atraso
        BY <1>3
      <4>2. falta'[t] = falta[t] - 1 /\ falta[t] \in Int
        BY <1>6
      <4> QED
        BY <4>1, <4>2
    <3> QED
      BY <1>2, <3>1
  <2>2. \A p \in EmCurso' : falta'[p] <= Teto
    BY <1>2, <1>5, <1>6 DEF Prazos
  <2>3. ASSUME NEW p \in tinhamVaga, api = "drenando", pedido[p] = "chamada",
               numero[p] = 1
        PROVE  falta'[p] + Margem <= falta'[Api]
    <3>1. p \in Ligados /\ Api \in Ligados
      BY <2>3 DEF Ligados, Tipos
    <3> QED
      BY <1>6, <2>3, <3>1 DEF Prazos
  <2>4. ASSUME NEW w \in Workers, NEW p \in Cortados(w), proc[w] = "drenando"
        PROVE  falta'[p] + Margem <= falta'[w]
    <3>1. p \in Ligados /\ w \in Ligados
      BY <2>4 DEF Ligados, Cortados
    <3> QED
      BY <1>6, <2>4, <3>1 DEF Prazos
  <2>5. \A w \in Workers : Cortados(w)' = Cortados(w)
    BY <1>1 DEF Cortados
  <2> QED
    BY <1>1, <2>1, <2>2, <2>3, <2>4, <2>5 DEF Prazos
<1>8. Pares' /\ Esperados'
  BY <1>1 DEF Pares, Esperados
<1> QED
  BY <1>4, <1>7, <1>8

\* One request changes place: what a step on its behalf has to take care of.
Muda(p, lugar, n, v, prazo) ==
  /\ lugar \in {"fila", "chamada", "respondido"} /\ n \in 1..3
  /\ v \in Workers \union {Nenhum} /\ prazo \in Nat /\ prazo <= Teto
  /\ pedido' = [pedido EXCEPT ![p] = lugar]
  /\ numero' = [numero EXCEPT ![p] = n]
  /\ vaga'   = [vaga EXCEPT ![p] = v]
  /\ falta'  = [falta EXCEPT ![p] = prazo]
  /\ UNCHANGED <<api, proc, tinhamVaga, sonda, saiu>>
  /\ livres' \subseteq Workers /\ quarentena' \subseteq Workers
  /\ p \in tinhamVaga => lugar = "respondido" \/ n # 1
  /\ lugar = "chamada" =>
       v \in Workers /\ proc[v] # "drenando" /\ <<v, p, n>> \in naLib'
  /\ p \in Transmissoras =>
       /\ n # 1 => p \notin saiu
       /\ \A w \in Workers : <<w, p, 1>> \in naLib' =>
            lugar # "fila" /\ n = 1 /\ (lugar = "chamada" => v = w)
  /\ \A q \in Pedidos \ {p}, w \in Workers, m \in 1..3 :
       <<w, q, m>> \in naLib' <=> <<w, q, m>> \in naLib

LEMMA MudarPedido ==
  ASSUME IInv, NEW p \in Pedidos, NEW lugar, NEW n, NEW v, NEW prazo,
         Muda(p, lugar, n, v, prazo)
  PROVE  IInv'
<1> USE DEF IInv, Muda
<1>1. Tipos'
  <2>1. p \in Relogios /\ prazo \in Int
    BY DEF Relogios
  <2>2. falta' \in [Relogios -> Int]
    BY <2>1 DEF Tipos
  <2> QED
    BY <2>2 DEF Tipos
<1>2. \A q \in Pedidos \ {p} :
        pedido'[q] = pedido[q] /\ numero'[q] = numero[q] /\ vaga'[q] = vaga[q]
  BY DEF Tipos
<1>3. pedido'[p] = lugar /\ numero'[p] = n /\ vaga'[p] = v
  BY DEF Tipos
<1>4. \A t \in Relogios \ {p} : falta'[t] = falta[t]
  BY DEF Tipos
<1>5. falta'[p] = prazo
  BY DEF Tipos, Relogios
<1>6. Prazos'
  <2>1. ASSUME NEW t \in Ligados' PROVE falta'[t] >= -Atraso
    <3>1. CASE t = p
      BY <1>5, <3>1
    <3>2. CASE t # p
      <4>1. t \in Ligados
        BY <1>2, <3>2 DEF Ligados
      <4>2. t \in Relogios
        BY <4>1 DEF Ligados, Relogios
      <4> QED
        BY <1>4, <3>2, <4>1, <4>2 DEF Prazos
    <3> QED
      BY <3>1, <3>2
  <2>2. ASSUME NEW q \in EmCurso' PROVE falta'[q] <= Teto
    <3>1. CASE q = p
      BY <1>5, <3>1
    <3>2. CASE q # p
      <4>1. q \in EmCurso /\ q \in Relogios
        BY <1>2, <3>2 DEF EmCurso, Relogios
      <4> QED
        BY <1>4, <3>2, <4>1 DEF Prazos
    <3> QED
      BY <3>1, <3>2
  <2>3. ASSUME NEW q \in tinhamVaga', api' = "drenando", pedido'[q] = "chamada",
               numero'[q] = 1
        PROVE  falta'[q] + Margem <= falta'[Api]
    <3>1. q # p /\ q \in Pedidos
      BY <1>3, <2>3 DEF Tipos
    <3>2. q \in Relogios \ {p} /\ Api \in Relogios \ {p}
      BY <3>1 DEF Relogios
    <3> QED
      BY <1>2, <1>4, <2>3, <3>1, <3>2 DEF Prazos
  <2>4. ASSUME NEW w \in Workers, NEW q \in Cortados(w)', proc'[w] = "drenando"
        PROVE  falta'[q] + Margem <= falta'[w]
    <3>1. q # p /\ q \in Cortados(w)
      BY <1>2, <1>3, <2>4 DEF Cortados
    <3>2. q \in Relogios \ {p} /\ w \in Relogios \ {p}
      BY <3>1 DEF Relogios, Cortados
    <3> QED
      BY <1>4, <2>4, <3>1, <3>2 DEF Prazos
  <2> QED
    BY <2>1, <2>2, <2>3, <2>4 DEF Prazos
<1>7. Pares'
  <2>1. ASSUME NEW q \in Pedidos, pedido'[q] = "chamada"
        PROVE  vaga'[q] \in Workers /\ <<vaga'[q], q, numero'[q]>> \in naLib'
    <3>1. CASE q = p
      BY <1>3, <2>1, <3>1
    <3>2. CASE q # p
      BY <1>2, <2>1, <3>2 DEF Pares, Tipos
    <3> QED
      BY <3>1, <3>2
  <2>2. ASSUME NEW q \in Transmissoras, NEW w \in Workers, <<w, q, 1>> \in naLib'
        PROVE  /\ pedido'[q] \notin {"novo", "fila"} /\ numero'[q] = 1
               /\ pedido'[q] = "chamada" => vaga'[q] = w
    <3>1. CASE q = p
      BY <1>3, <2>2, <3>1
    <3>2. CASE q # p
      <4>1. q \in Pedidos \ {p} /\ 1 \in 1..3
        BY <3>2
      <4>2. <<w, q, 1>> \in naLib
        BY <2>2, <4>1
      <4> QED
        BY <1>2, <4>1, <4>2 DEF Pares
    <3> QED
      BY <3>1, <3>2
  <2>3. ASSUME NEW q \in Transmissoras, numero'[q] # 1 PROVE q \notin saiu'
    BY <1>2, <1>3, <2>3 DEF Pares
  <2> QED
    BY <2>1, <2>2, <2>3 DEF Pares
<1>8. Esperados'
  BY <1>2, <1>3 DEF Esperados, Tipos
<1> QED
  BY <1>1, <1>6, <1>7, <1>8

LEMMA ChegarIInv ==
  ASSUME NEW p \in Pedidos, IInv, Chegar(p)
  PROVE  IInv'
<1>1. pedido[p] = "novo" /\ numero' = numero /\ vaga' = vaga
      /\ pedido' = [pedido EXCEPT ![p] = "fila"] /\ Marcar(p, Teto)
      /\ UNCHANGED <<api, proc, tinhamVaga, sonda, saiu, livres, quarentena, naLib>>
  BY DEF Chegar, saude
<1>2. numero' = [numero EXCEPT ![p] = numero[p]] /\ vaga' = [vaga EXCEPT ![p] = vaga[p]]
      /\ numero[p] \in 1..3 /\ vaga[p] \in Workers \union {Nenhum}
      /\ livres \subseteq Workers /\ quarentena \subseteq Workers
  BY <1>1 DEF IInv, Tipos
<1>3. p \notin tinhamVaga
  BY <1>1 DEF IInv, Esperados
<1>4. p \in Transmissoras =>
        /\ numero[p] # 1 => p \notin saiu
        /\ \A w \in Workers : <<w, p, 1>> \notin naLib
  BY <1>1 DEF IInv, Pares
<1>5. Muda(p, "fila", numero[p], vaga[p], Teto)
  <2>1. \A q \in Pedidos \ {p}, w \in Workers, m \in 1..3 :
          <<w, q, m>> \in naLib' <=> <<w, q, m>> \in naLib
    BY <1>1
  <2>2. falta' = [falta EXCEPT ![p] = Teto] /\ Teto \in Nat /\ Teto <= Teto
    BY <1>1 DEF Marcar
  <2>3. livres' \subseteq Workers /\ quarentena' \subseteq Workers
        /\ UNCHANGED <<api, proc, tinhamVaga, sonda, saiu>>
    BY <1>1, <1>2
  <2>4. p \in Transmissoras =>
          /\ numero[p] # 1 => p \notin saiu
          /\ \A w \in Workers : <<w, p, 1>> \notin naLib'
    BY <1>1, <1>4
  <2>5. pedido' = [pedido EXCEPT ![p] = "fila"]
    BY <1>1
  <2> QED
    BY ONLY <1>2, <1>3, <2>1, <2>2, <2>3, <2>4, <2>5 DEF Muda
<1> QED
  BY <1>5, MudarPedido

\* A failure that reaches the handler, with or without a slot in its hand.
LEMMA AposFalhaIInv ==
  ASSUME NEW p \in EmCurso, NEW v, IInv, AposFalha(p),
         v = vaga[p] \/ v = Nenhum, vaga' = [vaga EXCEPT ![p] = v],
         UNCHANGED <<api, proc, tinhamVaga, sonda, saiu, naLib>>,
         livres' \subseteq Workers, quarentena' \subseteq Workers
  PROVE  IInv'
<1>1. p \in Pedidos /\ v \in Workers \union {Nenhum}
  BY DEF IInv, Tipos, EmCurso
<1>2. CASE Respondido(p)
  <2>1. pedido' = [pedido EXCEPT ![p] = "respondido"]
        /\ numero' = [numero EXCEPT ![p] = 1] /\ falta' = [falta EXCEPT ![p] = 0]
    BY <1>2 DEF Respondido, Desmarcar
  <2>3. Muda(p, "respondido", 1, v, 0)
    BY <1>1, <2>1 DEF Muda
  <2> QED
    BY <1>1, <2>3, MudarPedido
<1>3. CASE p \notin Transmissoras /\ numero[p] = 1 /\ OutraChamada(p)
  <2>1. pedido' = [pedido EXCEPT ![p] = "fila"]
        /\ numero' = [numero EXCEPT ![p] = 2] /\ falta' = [falta EXCEPT ![p] = Teto]
    BY <1>3 DEF OutraChamada, Marcar
  <2>2. Muda(p, "fila", 2, v, Teto)
    BY <1>1, <1>3, <2>1 DEF Muda
  <2> QED
    BY <1>1, <2>2, MudarPedido
<1> QED
  BY <1>2, <1>3 DEF AposFalha

LEMMA FalhasIInv ==
  ASSUME NEW p \in Pedidos, IInv,
         \/ PrazoDaFila(p) \/ PrazoDaChamada(p)
         \/ \E w \in Workers : DialFalha(p, w)
  PROVE  IInv'
<1>1. livres \subseteq Workers /\ quarentena \subseteq Workers
      /\ vaga[p] \in Workers \union {Nenhum} /\ vaga = [vaga EXCEPT ![p] = vaga[p]]
  BY DEF IInv, Tipos
<1>2. CASE PrazoDaFila(p)
  <2>1. p \in EmCurso /\ AposFalha(p) /\ vaga' = vaga
        /\ UNCHANGED <<api, proc, tinhamVaga, sonda, saiu, naLib, livres, quarentena>>
    BY <1>2 DEF PrazoDaFila, EmCurso, saude
  <2> QED
    BY <1>1, <2>1, AposFalhaIInv
<1>3. CASE PrazoDaChamada(p)
  <2>1. p \in EmCurso /\ AposFalha(p) /\ Devolver(p) /\ pedido[p] = "chamada"
        /\ UNCHANGED <<api, proc, tinhamVaga, sonda, saiu, naLib, quarentena>>
    BY <1>3 DEF PrazoDaChamada, EmCurso, saude
  <2>2. vaga[p] \in Workers
    BY <2>1 DEF IInv, Pares
  <2>3. vaga' = [vaga EXCEPT ![p] = Nenhum] /\ livres' \subseteq Workers
    BY <1>1, <2>1, <2>2 DEF Devolver
  <2> QED
    BY <1>1, <2>1, <2>3, AposFalhaIInv
<1>4. CASE \E w \in Workers : DialFalha(p, w)
  <2>1. p \in EmCurso /\ AposFalha(p) /\ vaga' = vaga
        /\ UNCHANGED <<api, proc, tinhamVaga, sonda, saiu, naLib>>
        /\ livres' \subseteq livres /\ quarentena' \subseteq quarentena \union Workers
    BY <1>4 DEF DialFalha, EmCurso, saude
  <2> QED
    BY <1>1, <2>1, AposFalhaIInv
<1> QED
  BY <1>2, <1>3, <1>4

LEMMA PegarVagaIInv ==
  ASSUME NEW p \in Pedidos, NEW w \in Workers, IInv, PegarVaga(p, w)
  PROVE  IInv'
<1>1. /\ pedido[p] = "fila" /\ proc[w] # "drenando"
      /\ livres' \subseteq livres /\ naLib' = naLib \union {<<w, p, numero[p]>>}
      /\ vaga' = [vaga EXCEPT ![p] = w] /\ pedido' = [pedido EXCEPT ![p] = "chamada"]
      /\ falta' = [falta EXCEPT ![p] = Teto] /\ numero' = numero
      /\ UNCHANGED <<api, proc, tinhamVaga, sonda, saiu, quarentena>>
  BY DEF PegarVaga, Marcar, saude
<1>2. numero' = [numero EXCEPT ![p] = numero[p]] /\ numero[p] \in 1..3
      /\ livres \subseteq Workers /\ quarentena \subseteq Workers
  BY <1>1 DEF IInv, Tipos
<1>3. p \in tinhamVaga => numero[p] # 1
  BY <1>1 DEF IInv, Esperados
<1>4. p \in Transmissoras =>
        /\ numero[p] # 1 => p \notin saiu
        /\ \A x \in Workers : <<x, p, 1>> \in naLib' => numero[p] = 1 /\ w = x
  BY <1>1 DEF IInv, Pares
<1>5. \A q \in Pedidos \ {p}, x \in Workers, m \in 1..3 :
        <<x, q, m>> \in naLib' <=> <<x, q, m>> \in naLib
  BY <1>1
<1>6. <<w, p, numero[p]>> \in naLib'
  BY <1>1
<1>7. Muda(p, "chamada", numero[p], w, Teto)
  <2>1. livres' \subseteq Workers /\ quarentena' \subseteq Workers
        /\ w \in Workers \union {Nenhum} /\ Teto \in Nat /\ Teto <= Teto
        /\ UNCHANGED <<api, proc, tinhamVaga, sonda, saiu>>
    BY <1>1, <1>2
  <2>2. /\ pedido' = [pedido EXCEPT ![p] = "chamada"]
        /\ vaga' = [vaga EXCEPT ![p] = w] /\ falta' = [falta EXCEPT ![p] = Teto]
        /\ w \in Workers /\ proc[w] # "drenando"
    BY <1>1
  <2> QED
    BY ONLY <1>2, <1>3, <1>4, <1>5, <1>6, <2>1, <2>2 DEF Muda
<1> QED
  BY <1>7, MudarPedido

\* The call of another, or one that its caller abandoned, comes back: what is
\* left in the library still has all the calls that are waited for.
Lateral(t, prazo) ==
  /\ t \in Workers \union {Api, Sonda} /\ prazo \in Int
  /\ falta' = [falta EXCEPT ![t] = prazo]
  /\ t \in Ligados' => prazo >= -Atraso
  /\ UNCHANGED <<pedido, numero, vaga>>
  /\ livres' \subseteq Workers /\ quarentena' \subseteq Workers
  /\ saiu' \subseteq Transmissoras
  /\ \A p \in saiu' \ saiu : numero[p] = 1
  /\ naLib' \subseteq naLib
  /\ \A p \in Pedidos :
       pedido[p] = "chamada" => <<vaga[p], p, numero[p]>> \in naLib'
  /\ api' \in {"servindo", "drenando", "fora"}
  /\ proc' \in [Workers -> {"ouvindo", "mudo", "drenando", "fora"}]
  /\ \/ api' = api /\ tinhamVaga' = tinhamVaga /\ t # Api
     \/ api' = "fora" /\ tinhamVaga' = tinhamVaga
     \/ /\ api' = "drenando" /\ t = Api /\ prazo = Teto + Margem
        /\ tinhamVaga' = {p \in Pedidos : pedido[p] = "chamada" /\ numero[p] = 1}
  /\ \A w \in Workers : proc'[w] = "drenando" =>
       \/ w = t /\ prazo = Teto + Margem
       \/ w # t /\ proc[w] = "drenando"
  /\ t = Sonda \/ sonda' = sonda

LEMMA PassoLateral ==
  ASSUME IInv, NEW t, NEW prazo, Lateral(t, prazo)
  PROVE  IInv'
<1> USE DEF IInv
<1>1. UNCHANGED <<pedido, numero, vaga>> /\ tinhamVaga' \subseteq Pedidos
  BY DEF Lateral, Tipos
<1>2. t \in Relogios /\ t \notin Pedidos
  BY DEF Lateral, Relogios
<1>3. \A r \in Relogios \ {t} : falta'[r] = falta[r]
  BY DEF Lateral, Tipos
<1>4. falta'[t] = prazo
  BY <1>2 DEF Lateral, Tipos
<1>5. Tipos'
  <2>1. falta' \in [Relogios -> Int]
    BY <1>2 DEF Lateral, Tipos
  <2> QED
    BY <1>1, <2>1 DEF Lateral, Tipos
<1>6. EmCurso' = EmCurso /\ \A w \in Workers : Cortados(w)' = Cortados(w)
  BY <1>1 DEF EmCurso, Cortados
<1>7. Prazos'
  <2>1. ASSUME NEW r \in Ligados' PROVE falta'[r] >= -Atraso
    <3>1. CASE r = t
      BY <1>4, <2>1, <3>1 DEF Lateral
    <3>2. CASE r # t
      <4>1. r \in Ligados /\ r \in Relogios
        BY <1>1, <2>1, <3>2 DEF Ligados, Lateral, Relogios
      <4> QED
        BY <1>3, <3>2, <4>1 DEF Prazos
    <3> QED
      BY <3>1, <3>2
  <2>2. \A p \in EmCurso' : falta'[p] <= Teto
    BY <1>2, <1>3, <1>6 DEF Prazos, EmCurso, Relogios
  <2>3. ASSUME NEW p \in tinhamVaga', api' = "drenando", pedido'[p] = "chamada",
               numero'[p] = 1
        PROVE  falta'[p] + Margem <= falta'[Api]
    <3>1. p \in Pedidos /\ p \in EmCurso /\ p \in Relogios /\ Api \in Relogios
      BY <1>1, <2>3 DEF EmCurso, Relogios
    <3>2. falta'[p] = falta[p] /\ falta[p] \in Int /\ falta[p] <= Teto
      BY <1>2, <1>3, <3>1 DEF Prazos, Tipos
    <3>3. CASE api' = api /\ tinhamVaga' = tinhamVaga /\ t # Api
      BY <1>1, <1>3, <2>3, <3>1, <3>2, <3>3 DEF Prazos
    <3>4. CASE t = Api /\ prazo = Teto + Margem
      BY <1>4, <3>2, <3>4
    <3> QED
      BY <2>3, <3>3, <3>4 DEF Lateral
  <2>4. ASSUME NEW w \in Workers, NEW p \in Cortados(w)', proc'[w] = "drenando"
        PROVE  falta'[p] + Margem <= falta'[w]
    <3>1. p \in Cortados(w) /\ p \in EmCurso /\ p \in Pedidos /\ p \in Relogios
          /\ w \in Relogios
      BY <1>6, <2>4 DEF EmCurso, Cortados, Relogios
    <3>2. falta'[p] = falta[p] /\ falta[p] \in Int /\ falta[p] <= Teto
      BY <1>2, <1>3, <3>1 DEF Prazos, Tipos
    <3>3. CASE w = t /\ prazo = Teto + Margem
      BY <1>4, <3>2, <3>3
    <3>4. CASE w # t /\ proc[w] = "drenando"
      BY <1>3, <3>1, <3>2, <3>4 DEF Prazos
    <3> QED
      BY <2>4, <3>3, <3>4 DEF Lateral
  <2> QED
    BY <2>1, <2>2, <2>3, <2>4 DEF Prazos
<1>8. Pares'
  <2>1. \A p \in Pedidos : pedido'[p] = "chamada" =>
          vaga'[p] \in Workers /\ <<vaga'[p], p, numero'[p]>> \in naLib'
    BY <1>1 DEF Pares, Lateral
  <2>2. naLib' \subseteq naLib
    BY DEF Lateral
  <2>3. \A p \in Transmissoras, w \in Workers : <<w, p, 1>> \in naLib' =>
          /\ pedido'[p] \notin {"novo", "fila"} /\ numero'[p] = 1
          /\ pedido'[p] = "chamada" => vaga'[p] = w
    BY <1>1, <2>2 DEF Pares
  <2>4. \A p \in Transmissoras : numero'[p] # 1 => p \notin saiu'
    BY <1>1 DEF Pares, Lateral
  <2> QED
    BY <2>1, <2>3, <2>4 DEF Pares
<1>9. Esperados'
  BY <1>1 DEF Esperados, Lateral
<1> QED
  BY <1>5, <1>7, <1>8, <1>9

\* A step that touches no timer is one in which that of the probe keeps its
\* value.
LEMMA PassoQuieto ==
  ASSUME IInv, UNCHANGED <<pedido, numero, vaga, falta, api, tinhamVaga>>,
         sonda' = 0 \/ sonda # 0,
         livres' \subseteq Workers, quarentena' \subseteq Workers,
         saiu' \subseteq Transmissoras, \A p \in saiu' \ saiu : numero[p] = 1,
         naLib' \subseteq naLib,
         \A p \in Pedidos :
           pedido[p] = "chamada" => <<vaga[p], p, numero[p]>> \in naLib',
         proc' \in [Workers -> {"ouvindo", "mudo", "drenando", "fora"}],
         \A w \in Workers : proc'[w] = "drenando" => proc[w] = "drenando"
  PROVE  IInv'
<1>1. Sonda \in Relogios /\ Sonda # Api /\ \A w \in Workers : w # Sonda
  BY DEF Relogios
<1>2. falta[Sonda] \in Int /\ falta' = [falta EXCEPT ![Sonda] = falta[Sonda]]
  BY <1>1 DEF IInv, Tipos
<1>3. ASSUME Sonda \in Ligados' PROVE falta[Sonda] >= -Atraso
  <2>1. sonda # 0
    BY <1>1, <1>3 DEF Ligados
  <2>2. Sonda \in Ligados
    BY <2>1 DEF Ligados
  <2> QED
    BY <2>2 DEF IInv, Prazos
<1>4. api' \in {"servindo", "drenando", "fora"}
  BY DEF IInv, Tipos
<1>5. \A w \in Workers : proc'[w] = "drenando" => w # Sonda /\ proc[w] = "drenando"
  BY <1>1
<1>6. Lateral(Sonda, falta[Sonda])
  BY <1>1, <1>2, <1>3, <1>4, <1>5 DEF Lateral
<1> QED
  BY <1>6, PassoLateral

LEMMA RetornarIInv ==
  ASSUME NEW p \in Pedidos, NEW w \in Workers, NEW n \in 1..3, IInv,
         Retornar(w, p, n)
  PROVE  IInv'
<1>1. /\ <<w, p, n>> \in naLib /\ naLib' = naLib \ {<<w, p, n>>}
      /\ UNCHANGED <<api, quarentena, proc, saiu, tinhamVaga, sonda>>
  BY DEF Retornar, saude
<1>2. livres \subseteq Workers /\ quarentena' \subseteq Workers
      /\ saiu' \subseteq Transmissoras
  BY <1>1 DEF IInv, Tipos
<1>3. CASE pedido[p] = "chamada" /\ vaga[p] = w /\ numero[p] = n
  <2>1. Devolver(p) /\ AposResposta(p)
    BY <1>3 DEF Retornar
  <2>2. vaga' = [vaga EXCEPT ![p] = Nenhum] /\ livres' \subseteq Workers
    BY <1>2, <1>3, <2>1 DEF Devolver
  <2>3. \A q \in Pedidos \ {p}, x \in Workers, m \in 1..3 :
          <<x, q, m>> \in naLib' <=> <<x, q, m>> \in naLib
    BY <1>1
  <2>4. p \in Transmissoras => \A x \in Workers : <<x, p, 1>> \notin naLib'
    <3>1. ASSUME p \in Transmissoras, NEW x \in Workers, <<x, p, 1>> \in naLib'
          PROVE  FALSE
      <4>1. <<x, p, 1>> \in naLib /\ <<x, p, 1>> # <<w, p, n>>
        BY <1>1, <3>1
      <4>2. x = w /\ n = 1
        BY <1>3, <3>1, <4>1 DEF IInv, Pares
      <4> QED
        BY <4>1, <4>2
    <3> QED
      BY <3>1
  <2>5. CASE Respondido(p)
    <3>1. /\ pedido' = [pedido EXCEPT ![p] = "respondido"]
          /\ numero' = [numero EXCEPT ![p] = 1]
          /\ falta' = [falta EXCEPT ![p] = 0]
      BY <2>5 DEF Respondido, Desmarcar
    <3>2. Muda(p, "respondido", 1, Nenhum, 0)
      BY <1>1, <1>2, <2>2, <2>3, <2>4, <3>1 DEF Muda
    <3> QED
      BY <3>2, MudarPedido
  <2>6. CASE p \notin saiu /\ OutraChamada(p)
    <3>1. /\ pedido' = [pedido EXCEPT ![p] = "fila"]
          /\ numero' = [numero EXCEPT ![p] = numero[p] + 1]
          /\ falta' = [falta EXCEPT ![p] = Teto]
      BY <2>6 DEF OutraChamada, Marcar
    <3>2. numero[p] + 1 \in 2..3
      <4>1. numero[p] \in 1..3 /\ numero[p] < Ultima(p)
        BY <2>6 DEF IInv, Tipos, OutraChamada
      <4> QED
        BY <4>1 DEF Ultima
    <3>3. Muda(p, "fila", numero[p] + 1, Nenhum, Teto)
      BY <1>1, <1>2, <2>2, <2>3, <2>4, <2>6, <3>1, <3>2 DEF Muda
    <3> QED
      BY <3>3, MudarPedido
  <2> QED
    BY <2>1, <2>5, <2>6 DEF AposResposta
<1>4. CASE ~ (pedido[p] = "chamada" /\ vaga[p] = w /\ numero[p] = n)
  <2>1. UNCHANGED <<livres, vaga, pedido, numero, falta>>
    BY <1>4 DEF Retornar
  <2>2. \A q \in Pedidos :
          pedido[q] = "chamada" => <<vaga[q], q, numero[q]>> \in naLib'
    BY <1>1, <1>4 DEF IInv, Pares
  <2>3. proc' \in [Workers -> {"ouvindo", "mudo", "drenando", "fora"}]
    BY <1>1 DEF IInv, Tipos
  <2> QED
    BY <1>1, <1>2, <2>1, <2>2, <2>3, PassoQuieto
<1> QED
  BY <1>3, <1>4

LEMMA SairIInv ==
  ASSUME NEW p \in Pedidos, NEW w \in Workers, IInv, Sair(w, p)
  PROVE  IInv'
<1>1. /\ UNCHANGED <<api, pedido, numero, vaga, livres, quarentena, proc, naLib,
                     tinhamVaga, falta, sonda>>
      /\ <<w, p, 1>> \in naLib /\ p \in Transmissoras /\ saiu' = saiu \union {p}
  BY DEF Sair, saude
<1>2. numero[p] = 1
  BY <1>1 DEF IInv, Pares
<1>3. \A q \in Pedidos :
        pedido[q] = "chamada" => <<vaga[q], q, numero[q]>> \in naLib'
  BY <1>1 DEF IInv, Pares
<1>4. /\ proc' \in [Workers -> {"ouvindo", "mudo", "drenando", "fora"}]
      /\ livres' \subseteq Workers /\ quarentena' \subseteq Workers
      /\ saiu' \subseteq Transmissoras
  BY <1>1 DEF IInv, Tipos
<1> QED
  BY <1>1, <1>2, <1>3, <1>4, PassoQuieto

\* A worker that gives up waiting has no caller left: the deadline of the call
\* came first.
LEMMA NinguemEspera ==
  ASSUME IInv, NEW w \in Workers, WorkerPrazo(w) \/ WorkerVazio(w)
  PROVE  Cortados(w) = {}
<1> SUFFICES ASSUME NEW p \in Cortados(w) PROVE FALSE
  OBVIOUS
<1>1. p \in Pedidos /\ pedido[p] = "chamada" /\ vaga[p] = w /\ p \in Ligados
  BY DEF Cortados, Ligados
<1>2. proc[w] = "drenando"
  BY DEF WorkerPrazo, WorkerVazio
<1>3. falta[p] + Margem <= falta[w] /\ falta[p] >= -Atraso
  BY <1>1, <1>2 DEF IInv, Prazos
<1>4. falta[p] \in Int /\ falta[w] \in Int
  BY <1>1 DEF IInv, Tipos, Relogios
<1>5. CASE WorkerPrazo(w)
  BY <1>3, <1>4, <1>5 DEF WorkerPrazo, Vencido
<1>6. CASE WorkerVazio(w)
  <2>1. <<w, p, numero[p]>> \in naLib
    BY <1>1 DEF IInv, Pares
  <2> QED
    BY <1>6, <2>1 DEF WorkerVazio
<1> QED
  BY <1>5, <1>6

LEMMA WorkerIInv ==
  ASSUME NEW w \in Workers, IInv,
         \/ FimDaQuarentena(w) \/ SinalNoWorker(w) \/ WorkerVazio(w)
         \/ WorkerPrazo(w) \/ Subir(w) \/ Congelar(w) \/ Descongelar(w)
  PROVE  IInv'
<1>1. /\ livres \subseteq Workers /\ quarentena \subseteq Workers
      /\ saiu \subseteq Transmissoras /\ api \in {"servindo", "drenando", "fora"}
      /\ proc \in [Workers -> {"ouvindo", "mudo", "drenando", "fora"}]
      /\ \A p \in Pedidos :
           pedido[p] = "chamada" => <<vaga[p], p, numero[p]>> \in naLib
  BY DEF IInv, Tipos, Pares
<1>2. CASE FimDaQuarentena(w) \/ Subir(w) \/ Congelar(w) \/ Descongelar(w)
  <2>1. UNCHANGED <<pedido, numero, vaga, falta, api, tinhamVaga, sonda, saiu, naLib>>
    BY <1>2 DEF FimDaQuarentena, Subir, Congelar, Descongelar, chamadas, saude
  <2>2. livres' \subseteq Workers /\ quarentena' \subseteq Workers
    BY <1>1, <1>2 DEF FimDaQuarentena, Subir, Congelar, Descongelar, chamadas
  <2>3. \E lugar \in {"ouvindo", "mudo"} :
          proc' = proc \/ proc' = [proc EXCEPT ![w] = lugar]
    BY <1>2 DEF FimDaQuarentena, Subir, Congelar, Descongelar
  <2>4. /\ proc' \in [Workers -> {"ouvindo", "mudo", "drenando", "fora"}]
        /\ \A x \in Workers : proc'[x] = "drenando" => proc[x] = "drenando"
    BY <1>1, <2>3
  <2> QED
    BY <1>1, <2>1, <2>2, <2>4, PassoQuieto
<1>3. ASSUME UNCHANGED <<pedido, numero, vaga, livres, quarentena, saiu, api, tinhamVaga,
                         sonda>>,
             naLib' \subseteq naLib,
             \A p \in Pedidos :
               pedido[p] = "chamada" => <<vaga[p], p, numero[p]>> \in naLib',
             \/ /\ falta' = [falta EXCEPT ![w] = Teto + Margem]
                /\ proc' = [proc EXCEPT ![w] = "drenando"]
             \/ /\ falta' = [falta EXCEPT ![w] = 0]
                /\ proc' = [proc EXCEPT ![w] = "fora"]
      PROVE  IInv'
  <2>1. /\ proc' \in [Workers -> {"ouvindo", "mudo", "drenando", "fora"}]
        /\ api' \in {"servindo", "drenando", "fora"}
        /\ livres' \subseteq Workers /\ quarentena' \subseteq Workers
        /\ saiu' \subseteq Transmissoras /\ w # Api
    BY <1>1, <1>3
  <2>2. CASE proc' = [proc EXCEPT ![w] = "drenando"]
             /\ falta' = [falta EXCEPT ![w] = Teto + Margem]
    <3>1. \A x \in Workers : proc'[x] = "drenando" =>
            \/ x = w /\ Teto + Margem = Teto + Margem
            \/ x # w /\ proc[x] = "drenando"
      BY <1>1, <2>2
    <3>2. Teto + Margem \in Int /\ Teto + Margem >= -Atraso
      OBVIOUS
    <3>3. Lateral(w, Teto + Margem)
      BY <1>3, <2>1, <2>2, <3>1, <3>2 DEF Lateral
    <3> QED
      BY <3>3, PassoLateral
  <2>3. CASE proc' = [proc EXCEPT ![w] = "fora"]
             /\ falta' = [falta EXCEPT ![w] = 0]
    <3>1. \A x \in Workers : proc'[x] = "drenando" => x # w /\ proc[x] = "drenando"
      BY <1>1, <2>3
    <3>2. Lateral(w, 0)
      BY <1>3, <2>1, <2>3, <3>1 DEF Lateral
    <3> QED
      BY <3>2, PassoLateral
  <2> QED
    BY <1>3, <2>2, <2>3
<1>4. CASE SinalNoWorker(w)
  <2>1. UNCHANGED <<pedido, numero, vaga, livres, quarentena, saiu, api, tinhamVaga,
                    sonda, naLib>>
    BY <1>4 DEF SinalNoWorker, chamadas
  <2>2. falta' = [falta EXCEPT ![w] = Teto + Margem]
        /\ proc' = [proc EXCEPT ![w] = "drenando"]
    BY <1>4 DEF SinalNoWorker, Marcar, PrazoDeEncerramento
  <2> QED
    BY <1>1, <1>3, <2>1, <2>2
<1>5. CASE WorkerVazio(w)
  <2>1. UNCHANGED <<pedido, numero, vaga, livres, quarentena, saiu, api, tinhamVaga,
                    sonda, naLib>>
    BY <1>5 DEF WorkerVazio, chamadas, saude
  <2>2. falta' = [falta EXCEPT ![w] = 0] /\ proc' = [proc EXCEPT ![w] = "fora"]
    BY <1>5 DEF WorkerVazio, Desmarcar
  <2> QED
    BY <1>1, <1>3, <2>1, <2>2
<1>6. CASE WorkerPrazo(w)
  <2>1. Cortados(w) = {}
    BY <1>6, NinguemEspera
  <2>2. UNCHANGED <<numero, quarentena, saiu, api, tinhamVaga, sonda>>
        /\ proc' = [proc EXCEPT ![w] = "fora"]
        /\ naLib' = {e \in naLib : e[1] # w}
    BY <1>6 DEF WorkerPrazo, saude
  <2>3. pedido' = pedido /\ vaga' = vaga /\ livres' = livres
    <3>1. /\ pedido' = [p \in Pedidos |->
                         IF p \in Cortados(w) THEN "respondido" ELSE pedido[p]]
          /\ vaga' = [p \in Pedidos |->
                       IF p \in Cortados(w) THEN Nenhum ELSE vaga[p]]
          /\ livres' = livres \union {x \in {w} : Cortados(w) # {}}
      BY <1>6 DEF WorkerPrazo
    <3> QED
      BY <2>1, <3>1 DEF IInv, Tipos
  <2>4. falta' = [falta EXCEPT ![w] = 0]
    <3>1. falta' = [t \in Relogios |->
                     IF t \in Cortados(w) \union {w} THEN 0 ELSE falta[t]]
      BY <1>6 DEF WorkerPrazo
    <3> QED
      BY <2>1, <3>1 DEF IInv, Tipos
  <2>5. \A p \in Pedidos :
          pedido[p] = "chamada" => <<vaga[p], p, numero[p]>> \in naLib'
    BY <1>1, <2>1, <2>2 DEF Cortados
  <2> QED
    BY <1>3, <2>2, <2>3, <2>4, <2>5
<1> QED
  BY <1>2, <1>4, <1>5, <1>6

LEMMA ApiIInv ==
  ASSUME IInv, SinalNaApi \/ ApiVazia
  PROVE  IInv'
<1>1. /\ UNCHANGED <<pedido, numero, vaga, livres, quarentena, saiu, naLib, proc,
                     sonda>>
      /\ \/ /\ api' = "drenando" /\ falta' = [falta EXCEPT ![Api] = Teto + Margem]
            /\ tinhamVaga' = {p \in Pedidos : pedido[p] = "chamada" /\ numero[p] = 1}
         \/ /\ api' = "fora" /\ falta' = [falta EXCEPT ![Api] = 0]
            /\ tinhamVaga' = tinhamVaga
  BY DEF SinalNaApi, ApiVazia, Marcar, Desmarcar, PrazoDeEncerramento, chamadas, saude
<1>2. /\ livres' \subseteq Workers /\ quarentena' \subseteq Workers
      /\ saiu' \subseteq Transmissoras
      /\ proc' \in [Workers -> {"ouvindo", "mudo", "drenando", "fora"}]
      /\ \A p \in Pedidos :
           pedido[p] = "chamada" => <<vaga[p], p, numero[p]>> \in naLib'
  BY <1>1 DEF IInv, Tipos, Pares
<1>3. /\ \A w \in Workers : proc'[w] = "drenando" => w # Api /\ proc[w] = "drenando"
      /\ Teto + Margem \in Int /\ Teto + Margem >= -Atraso
  BY <1>1
<1>4. CASE api' = "drenando"
  <2>1. Lateral(Api, Teto + Margem)
    BY <1>1, <1>2, <1>3, <1>4 DEF Lateral
  <2> QED
    BY <2>1, PassoLateral
<1>5. CASE api' = "fora"
  <2>1. Lateral(Api, 0)
    BY <1>1, <1>2, <1>3, <1>5 DEF Lateral
  <2> QED
    BY <2>1, PassoLateral
<1> QED
  BY <1>1, <1>4, <1>5

\* What the API cuts when it gives up is a second call or one that was queueing.
LEMMA ApiPrazoIInv == IInv /\ ApiPrazo => IInv'
<1> SUFFICES ASSUME IInv, ApiPrazo PROVE IInv'
  OBVIOUS
<1>1. /\ api = "drenando" /\ Vencido(Api) /\ api' = "fora" /\ sonda' = 0
      /\ pedido' = [p \in Pedidos |-> IF p \in EmCurso THEN "cortado" ELSE pedido[p]]
      /\ vaga' = [p \in Pedidos |-> Nenhum]
      /\ falta' = [t \in Relogios |-> IF t \in Workers THEN falta[t] ELSE 0]
      /\ UNCHANGED <<numero, livres, quarentena, proc, naLib, saiu, tinhamVaga>>
  BY DEF ApiPrazo
<1>2. Tipos'
  BY <1>1 DEF IInv, Tipos
<1>3. \A p \in Pedidos : pedido'[p] \in {"novo", "respondido", "cortado"}
  BY <1>1 DEF IInv, Tipos, EmCurso
<1>4. Prazos'
  <2>1. EmCurso' = {} /\ \A w \in Workers : Cortados(w)' = {}
    BY <1>3 DEF EmCurso, Cortados
  <2>2. \A t \in Ligados' : t \in Workers /\ t \in Ligados
    BY <1>1, <1>3 DEF Ligados
  <2>3. \A t \in Ligados' : falta'[t] >= -Atraso
    BY <1>1, <2>2 DEF IInv, Prazos, Relogios
  <2> QED
    BY <1>1, <2>1, <2>3 DEF Prazos
<1>5. Pares'
  <2>1. ASSUME NEW p \in Transmissoras, NEW w \in Workers, <<w, p, 1>> \in naLib'
        PROVE  pedido'[p] \notin {"novo", "fila"} /\ numero'[p] = 1
    BY <1>1, <2>1 DEF IInv, Pares, Tipos, EmCurso
  <2> QED
    BY <1>1, <1>3, <2>1 DEF IInv, Pares
<1>6. Esperados'
  <2>1. ASSUME NEW p \in tinhamVaga, pedido[p] = "chamada", numero[p] = 1 PROVE FALSE
    <3>1. p \in Pedidos /\ p \in Ligados /\ p \in Relogios /\ Api \in Relogios
      BY <2>1 DEF IInv, Tipos, Ligados, Relogios
    <3>2. falta[p] + Margem <= falta[Api] /\ falta[p] >= -Atraso /\ falta[Api] <= 0
      BY <1>1, <2>1, <3>1 DEF IInv, Prazos, Vencido
    <3>3. falta[p] \in Int /\ falta[Api] \in Int
      BY <3>1 DEF IInv, Tipos
    <3> QED
      BY <3>2, <3>3
  <2> QED
    BY <1>1, <2>1 DEF IInv, Esperados, Tipos, EmCurso
<1> QED
  BY <1>2, <1>4, <1>5, <1>6 DEF IInv

LEMMA SondaIInv ==
  ASSUME IInv, Sondar \/ SondaAtendida \/ SondaRecusada \/ SondaPrazo
  PROVE  IInv'
<1>1. /\ livres \subseteq Workers /\ quarentena \subseteq Workers
      /\ saiu \subseteq Transmissoras /\ api \in {"servindo", "drenando", "fora"}
      /\ proc \in [Workers -> {"ouvindo", "mudo", "drenando", "fora"}]
      /\ \A p \in Pedidos :
           pedido[p] = "chamada" => <<vaga[p], p, numero[p]>> \in naLib
  BY DEF IInv, Tipos, Pares
<1>2. UNCHANGED <<pedido, numero, vaga, livres, quarentena, saiu, naLib, proc, api,
                  tinhamVaga>>
  BY DEF Sondar, SondaAtendida, SondaRecusada, SondaPrazo, Concluir, chamadas
<1>3. \/ \E prazo \in {0, PrazoDaSonda} : falta' = [falta EXCEPT ![Sonda] = prazo]
      \/ falta' = falta /\ sonda # 0
  BY DEF Sondar, SondaAtendida, SondaRecusada, SondaPrazo, Concluir, Marcar, Desmarcar
<1>4. ASSUME NEW prazo \in {0, PrazoDaSonda}, falta' = [falta EXCEPT ![Sonda] = prazo]
      PROVE  IInv'
  <2>1. prazo \in Int /\ prazo >= -Atraso
    OBVIOUS
  <2>2. \A w \in Workers : proc'[w] = "drenando" => w # Sonda /\ proc[w] = "drenando"
    BY <1>2
  <2>3. Lateral(Sonda, prazo)
    BY <1>1, <1>2, <1>4, <2>1, <2>2 DEF Lateral
  <2> QED
    BY <2>3, PassoLateral
<1>5. CASE falta' = falta /\ sonda # 0
  BY <1>1, <1>2, <1>5, PassoQuieto
<1> QED
  BY <1>3, <1>4, <1>5

LEMMA NextIInv == IInv /\ [Next]_vars => IInv'
<1> SUFFICES ASSUME IInv, [Next]_vars PROVE IInv'
  OBVIOUS
<1>1. ASSUME NEW p \in Pedidos,
             \/ Chegar(p) \/ PrazoDaFila(p) \/ PrazoDaChamada(p)
             \/ \E w \in Workers : PegarVaga(p, w) \/ DialFalha(p, w) \/ Sair(w, p)
             \/ \E w \in Workers, n \in 1..3 : Retornar(w, p, n)
      PROVE  IInv'
  <2>1. CASE Chegar(p)
    BY <2>1, ChegarIInv
  <2>2. CASE PrazoDaFila(p) \/ PrazoDaChamada(p) \/ \E w \in Workers : DialFalha(p, w)
    BY <2>2, FalhasIInv
  <2>3. CASE \E w \in Workers : PegarVaga(p, w) \/ Sair(w, p)
    BY <2>3, PegarVagaIInv, SairIInv
  <2>4. CASE \E w \in Workers, n \in 1..3 : Retornar(w, p, n)
    BY <2>4, RetornarIInv
  <2> QED
    BY <1>1, <2>1, <2>2, <2>3, <2>4
<1>2. CASE UNCHANGED vars
  BY <1>2 DEF vars, IInv, Tipos, Prazos, Pares, Esperados, Ligados, EmCurso, Cortados
<1> QED
  BY <1>1, <1>2, TickIInv, WorkerIInv, ApiIInv, ApiPrazoIInv, SondaIInv DEF Next

LEMMA SempreIInv == Spec => []IInv
  BY InitIInv, NextIInv, PTL DEF Spec

-----------------------------------------------------------------------------

\* SemLimboDeQuemTinhaVaga: whatever the deadlines, with a margin greater than
\* the delay of a timer, the API never ends with the document of a call outside
\* and its client without an answer, if the call had its slot at the signal
\* (config.go, PrazoDeEncerramento).
THEOREM EspecSemLimbo == Spec => []SemLimboDeQuemTinhaVaga
<1>1. IInv => SemLimboDeQuemTinhaVaga
  BY DEF IInv, Tipos, Pares, Esperados, SemLimboDeQuemTinhaVaga
<1> QED
  BY <1>1, SempreIInv, PTL

\* WorkerNaoCortaQuemEspera: a worker that ends never takes a call away from a
\* caller that is still there (cmd/fiscal-worker/main.go, shutdownCtx).
THEOREM EspecWorkerNaoCorta == Spec => WorkerNaoCortaQuemEspera
<1>1. ASSUME IInv, [Next]_vars, NEW w \in Workers, proc[w] = "drenando",
             proc'[w] = "fora"
      PROVE  Cortados(w) = {}
  <2>1. WorkerPrazo(w) \/ WorkerVazio(w)
    <3>1. proc' # proc
      BY <1>1
    <3>2. \E x \in Workers :
            \/ SinalNoWorker(x) \/ WorkerVazio(x) \/ WorkerPrazo(x) \/ Subir(x)
            \/ Congelar(x) \/ Descongelar(x)
      BY <1>1, <3>1 DEF Next, vars, Tick, Chegar, PrazoDaFila, PrazoDaChamada, PegarVaga,
         DialFalha, Sair, Retornar, FimDaQuarentena, SinalNaApi, ApiVazia, ApiPrazo,
         Sondar, SondaAtendida, SondaRecusada, SondaPrazo, Concluir
    <3> QED
      BY <1>1, <3>2 DEF IInv, Tipos, SinalNoWorker, WorkerVazio, WorkerPrazo, Subir,
         Congelar, Descongelar
  <2> QED
    BY <1>1, <2>1, NinguemEspera
<1>2. IInv /\ [Next]_vars =>
        [\A w \in Workers :
           proc[w] = "drenando" /\ proc'[w] = "fora" => Cortados(w) = {}]_vars
  BY <1>1
<1> QED
  BY <1>2, SempreIInv, PTL DEF Spec, WorkerNaoCortaQuemEspera

-----------------------------------------------------------------------------

\* What the probe knows of the workers it went past.
Sondagem ==
  /\ sonda \in 0..Len(Destinos)
  /\ proc \in [Workers -> {"ouvindo", "mudo", "drenando", "fora"}]
  /\ falta \in [Relogios -> Int]
  /\ firmes \subseteq {w \in Workers : proc[w] = "ouvindo"}
  /\ firmes \intersect mudos = {}
  /\ sonda # 0 =>
       /\ pronto = "nada"
       /\ {w \in Workers : proc[w] = "mudo"} \subseteq mudos
       /\ \A i \in 1..(sonda - 1) : Destinos[i] \notin firmes
       /\ falta[Sonda] = PrazoDaSonda \/ \E j \in 1..sonda : Destinos[j] \in mudos

LEMMA EmOrdem ==
  /\ Len(Destinos) \in Nat /\ Len(Destinos) >= 1
  /\ \A i \in 1..Len(Destinos) : Destinos[i] \in Workers
  /\ Sonda \in Relogios /\ Sonda \notin Pedidos /\ Sonda \notin Workers /\ Sonda # Api
BY DEF Relogios

LEMMA SondagemInvariante == IInv /\ Sondagem /\ [Next]_vars => Sondagem'
<1> SUFFICES ASSUME IInv, Sondagem, [Next]_vars PROVE Sondagem'
  OBVIOUS
<1> USE EmOrdem
<1>1. proc' \in [Workers -> {"ouvindo", "mudo", "drenando", "fora"}]
      /\ falta' \in [Relogios -> Int]
  BY NextIInv DEF IInv, Tipos
<1>2. ASSUME UNCHANGED <<sonda, proc, firmes, mudos, pronto>>,
             sonda # 0 => falta'[Sonda] = falta[Sonda]
      PROVE  Sondagem'
  BY <1>1, <1>2 DEF Sondagem
<1>3. CASE Tick
  <2>1. UNCHANGED <<sonda, proc, firmes, mudos, pronto>>
    BY <1>3 DEF Tick, saude
  <2>2. CASE sonda = 0
    BY <1>2, <2>1, <2>2
  <2>3. CASE sonda # 0
    <3>1. sonda \in 1..sonda /\ sonda \in 1..Len(Destinos)
      BY <2>3 DEF Sondagem
    <3>2. proc[Destinos[sonda]] = "mudo"
      BY <1>3, <2>3 DEF Tick, SondaImediata
    <3>3. Destinos[sonda] \in mudos
      BY <2>3, <3>1, <3>2 DEF Sondagem
    <3>4. \E j \in 1..sonda : Destinos[j] \in mudos
      BY <3>1, <3>3
    <3> QED
      BY <1>1, <2>1, <2>3, <3>4 DEF Sondagem
  <2> QED
    BY <2>2, <2>3
<1>4. ASSUME NEW p \in Pedidos,
             \/ Chegar(p) \/ PrazoDaFila(p) \/ PrazoDaChamada(p)
             \/ \E w \in Workers : PegarVaga(p, w) \/ DialFalha(p, w) \/ Sair(w, p)
             \/ \E w \in Workers, n \in 1..3 : Retornar(w, p, n)
      PROVE  Sondagem'
  <2>1. UNCHANGED <<sonda, proc, firmes, mudos, pronto>>
    BY <1>4 DEF Chegar, PrazoDaFila, PrazoDaChamada, PegarVaga, DialFalha, Sair,
       Retornar, saude
  <2>2. falta' = falta \/ \E prazo \in {0, Teto} : falta' = [falta EXCEPT ![p] = prazo]
    BY <1>4 DEF Chegar, PrazoDaFila, PrazoDaChamada, PegarVaga, DialFalha, Sair,
       Retornar, AposFalha, AposResposta, Respondido, OutraChamada, Marcar, Desmarcar
  <2>3. falta'[Sonda] = falta[Sonda]
    BY <2>2 DEF Sondagem
  <2> QED
    BY <1>2, <2>1, <2>3
<1>5. ASSUME NEW w \in Workers,
             FimDaQuarentena(w) \/ WorkerVazio(w) \/ WorkerPrazo(w) \/ SinalNoWorker(w)
      PROVE  Sondagem'
  <2>1. UNCHANGED <<sonda, mudos, pronto>> /\ firmes' \subseteq firmes
    BY <1>5 DEF FimDaQuarentena, WorkerVazio, WorkerPrazo, SinalNoWorker, Parou, saude
  <2>2. /\ \A x \in Workers \ {w} : proc'[x] = proc[x]
        /\ proc'[w] # "mudo" \/ proc' = proc
        /\ proc[w] # "ouvindo" \/ w \notin firmes' \/ proc' = proc
    BY <1>5 DEF FimDaQuarentena, WorkerVazio, WorkerPrazo, SinalNoWorker, Parou, Sondagem
  <2>3. falta'[Sonda] = falta[Sonda]
    <3>1. CASE WorkerPrazo(w)
      BY <3>1 DEF WorkerPrazo, Cortados
    <3>2. CASE ~ WorkerPrazo(w)
      BY <1>5, <3>2 DEF FimDaQuarentena, WorkerVazio, SinalNoWorker, Marcar, Desmarcar,
         Sondagem
    <3> QED
      BY <3>1, <3>2
  <2> QED
    BY <1>1, <2>1, <2>2, <2>3 DEF Sondagem
<1>6. ASSUME NEW w \in Workers, Subir(w) \/ Congelar(w) \/ Descongelar(w)
      PROVE  Sondagem'
  <2>1. UNCHANGED <<sonda, pronto, falta>>
    BY <1>6 DEF Subir, Congelar, Descongelar, saude
  <2>2. CASE Subir(w) \/ Descongelar(w)
    BY <1>1, <2>1, <2>2 DEF Sondagem, Subir, Descongelar, saude
  <2>3. CASE Congelar(w)
    BY <1>1, <2>1, <2>3 DEF Sondagem, Congelar, Parou
  <2> QED
    BY <1>6, <2>2, <2>3
<1>7. CASE SinalNaApi \/ ApiVazia
  <2>1. UNCHANGED <<sonda, proc, firmes, mudos, pronto>>
    BY <1>7 DEF SinalNaApi, ApiVazia, saude
  <2>2. falta'[Sonda] = falta[Sonda]
    BY <1>7 DEF SinalNaApi, ApiVazia, Marcar, Desmarcar, Sondagem
  <2> QED
    BY <1>2, <2>1, <2>2
<1>8. CASE ApiPrazo
  BY <1>1, <1>8 DEF ApiPrazo, Sondagem
<1>9. CASE Sondar
  <2>1. /\ sonda' = 1 /\ pronto' = "nada" /\ proc' = proc
        /\ firmes' = {w \in Workers : proc[w] = "ouvindo"}
        /\ mudos' = {w \in Workers : proc[w] = "mudo"}
        /\ falta' = [falta EXCEPT ![Sonda] = PrazoDaSonda]
    BY <1>9 DEF Sondar, Marcar
  <2>2. falta'[Sonda] = PrazoDaSonda
    BY <2>1, EmOrdem DEF Sondagem
  <2>3. 1 \in 0..Len(Destinos)
    BY EmOrdem
  <2>4. firmes' \intersect mudos' = {}
    BY <2>1
  <2>5. \A j \in 1..(sonda' - 1) : Destinos[j] \notin firmes'
    BY <2>1
  <2> QED
    BY <1>1, <2>1, <2>2, <2>3, <2>4, <2>5 DEF Sondagem
<1>10. CASE SondaAtendida \/ SondaPrazo \/ SondaRecusada
  <2>1. CASE sonda' = 0 /\ firmes' = {} /\ mudos' = {} /\ proc' = proc
    BY <1>1, <2>1 DEF Sondagem
  <2>2. CASE SondaRecusada /\ Restam /\ sonda' = sonda + 1
    <3>1. UNCHANGED <<pronto, falta, firmes, mudos, proc>>
          /\ sonda # 0 /\ proc[Destinos[sonda]] # "ouvindo"
      BY <2>2 DEF SondaRecusada, Restam, Concluir, Atende
    <3>2. Destinos[sonda] \notin firmes /\ sonda' \in 0..Len(Destinos)
      BY <2>2, <3>1 DEF Sondagem, Restam
    <3>3. \A i \in 1..(sonda' - 1) : Destinos[i] \notin firmes
      BY <2>2, <3>1, <3>2 DEF Sondagem
    <3> QED
      BY <1>1, <2>2, <3>1, <3>2, <3>3 DEF Sondagem
  <2> QED
    BY <1>10, <2>1, <2>2 DEF SondaAtendida, SondaPrazo, SondaRecusada, Concluir
<1>11. CASE UNCHANGED vars
  BY <1>2, <1>11 DEF vars
<1> QED
  BY <1>3, <1>4, <1>5, <1>6, <1>7, <1>8, <1>9, <1>10, <1>11 DEF Next

\* IndisponivelComMotivo: for any number of workers and any load, readiness is
\* refused only when no worker listened all along, save one that comes after a
\* frozen one in ACBR_WORKERS (remoto.go, saudavel).
THEOREM EspecIndisponivelComMotivo == Spec => IndisponivelComMotivo
<1>1. Init => Sondagem
  BY DEF Init, Sondagem, Relogios
<1>2. ASSUME IInv, Sondagem, [Next]_vars, sonda # 0, sonda' = 0,
             pronto' = "indisponivel", NEW i \in 1..Len(Destinos), Destinos[i] \in firmes
      PROVE  \E j \in 1..(i - 1) : Destinos[j] \in mudos
  <2>1. pronto = "nada"
    BY <1>2 DEF Sondagem
  <2>2. SondaRecusada \/ SondaPrazo
    BY <1>2, <2>1 DEF Next, vars, Tick, Chegar, PrazoDaFila, PrazoDaChamada, PegarVaga,
       DialFalha, Sair, Retornar, FimDaQuarentena, SinalNoWorker, WorkerVazio,
       WorkerPrazo, Subir, Congelar, Descongelar, SinalNaApi, ApiVazia, ApiPrazo,
       Sondar, SondaAtendida, Concluir, saude
  <2>3. i >= sonda /\ sonda \in Nat /\ sonda > 0 /\ sonda \in 1..Len(Destinos)
    BY <1>2, EmOrdem DEF Sondagem
  <2>4. CASE SondaRecusada
    <3>1. sonda >= Len(Destinos) /\ proc[Destinos[sonda]] # "ouvindo"
      BY <1>2, <2>3, <2>4, EmOrdem DEF SondaRecusada, Restam, Atende
    <3>2. i = sonda
      BY <2>3, <3>1, EmOrdem
    <3> QED
      BY <1>2, <3>1, <3>2 DEF Sondagem
  <2>5. CASE SondaPrazo
    <3>1. falta[Sonda] <= 0
      BY <2>5 DEF SondaPrazo, Vencido
    <3>2. falta[Sonda] # PrazoDaSonda
      BY <3>1, EmOrdem DEF Sondagem
    <3>3. PICK j \in 1..sonda : Destinos[j] \in mudos
      BY <1>2, <3>2 DEF Sondagem
    <3>4. j # i
      BY <1>2, <3>3 DEF Sondagem
    <3> QED
      BY <2>3, <3>3, <3>4
  <2> QED
    BY <2>2, <2>4, <2>5
<1>3. IInv /\ Sondagem /\ [Next]_vars =>
        [(sonda # 0 /\ sonda' = 0 /\ pronto' = "indisponivel") =>
           \A i \in 1..Len(Destinos) :
             Destinos[i] \in firmes => \E j \in 1..(i - 1) : Destinos[j] \in mudos]_vars
  BY <1>2
<1> QED
  BY <1>1, <1>3, SempreIInv, SondagemInvariante, PTL DEF Spec, IndisponivelComMotivo

=============================================================================
