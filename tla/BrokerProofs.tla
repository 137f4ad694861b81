---------------------------- MODULE BrokerProofs ----------------------------
(****************************************************************************)
(* Proofs about Broker for any messages, subscribers, descriptors, size of  *)
(* the cache and algorithm of memory, however the connections and the       *)
(* handlers interleave.                                                     *)
(*                                                                          *)
(* What is confirmed has been received: an ack comes from a confirmation    *)
(* (Confirmado), a confirmation from whoever was on the other side of the   *)
(* socket (DeClientes), and a handler never looks past the subscribers it   *)
(* has counted because lists only grow (DeHilos).                           *)
(*                                                                          *)
(* What is kept once and what is listed depend on who publishes: each       *)
(* theorem names the condition it needs, and DeTurno says what it buys.     *)
(****************************************************************************)
EXTENDS Broker, Lemas, TLAPS

Lugares == {"inicio", "agregarCorrelativo", "cachear", "encolar", "contar", "enviar",
            "anotar", "fin"}

\* What a partition holds, and the ids listed in the queues.
DeMensajes ==
  /\ cache \subseteq Mensajes
  /\ enviado \in [Mensajes -> Seq(Suscriptores \cup {Nadie})]
  /\ ack \in [Mensajes -> SUBSET Suscriptores]
  /\ queue \in [Colas -> SUBSET Mensajes]
  /\ \A c \in Colas : \A m \in queue[c] : Cola(m) = c

\* Each list holds each subscriber once, and only those of its queue.
DeListas ==
  /\ suscriptores \in [Colas -> Seq([id : Suscriptores, socket : Sockets])]
  /\ \A c \in Colas : \A i, j \in DOMAIN suscriptores[c] :
       /\ Cola(suscriptores[c][i].id) = c
       /\ suscriptores[c][i].id = suscriptores[c][j].id => i = j

\* The loop over the subscribers stays within those that were counted, and these are
\* still there: a list only grows.
Antes(m) == \/ hilo[m].pc \in {"inicio", "agregarCorrelativo", "cachear", "contar"}
            \/ hilo[m].pc = "encolar" /\ Cola(m) \in Respuestas

DeHilos ==
  /\ hilo \in [Mensajes -> [pc : Lugares, sizeCola : Nat, indice : Nat,
                            socket : Sockets \cup {Nadie}]]
  /\ \A m \in Mensajes : /\ hilo[m].sizeCola <= Len(suscriptores[Cola(m)])
                         /\ hilo[m].indice >= 1
                         /\ Antes(m) => hilo[m].indice = 1
                         /\ hilo[m].pc = "enviar" => hilo[m].indice <= hilo[m].sizeCola
  /\ envios \subseteq [mensaje : Mensajes, socket : Sockets]

\* Behind an open connection there is a subscriber.
DeClientes ==
  /\ conexion \in [Sockets -> [sub : Suscriptores \cup {Nadie},
                               pc : {"cerrada", "suscribir", "ultimos", "recibir"},
                               viva : BOOLEAN]]
  /\ \A s \in Sockets : /\ conexion[s].pc # "cerrada" => conexion[s].sub \in Suscriptores
                        /\ conexion[s].viva => conexion[s].pc # "cerrada"
  /\ confirmaciones \subseteq [mensaje : Mensajes, id : Suscriptores]
  /\ recibidos \in [Suscriptores -> SUBSET Mensajes]

\* Nobody confirms what it has not received.
Confirmado == \A a \in confirmaciones : a.mensaje \in recibidos[a.id]

\* The inductive invariant.
IInv == /\ DeMensajes
        /\ DeListas
        /\ DeHilos
        /\ DeClientes
        /\ Confirmado
        /\ AckImplicaRecibido
        /\ caido \in BOOLEAN

------------------------------------------------------------------------------
\* Lemmas about the operators of the model.

LEMMA ColaEnColas == \A x \in Mensajes \cup Suscriptores : Cola(x) \in Colas
BY BrokerAssumption

LEMMA ElementoDeSeq ==
  ASSUME NEW R, NEW l \in Seq(R), NEW j \in 1..Len(l)
  PROVE  l[j] \in R
OBVIOUS

\* A turn of the loop is taken only within the count.
LEMMA VueltaDentro ==
  ASSUME NEW m \in Mensajes, NEW i \in Nat, NEW n \in Nat
  PROVE  /\ Vuelta(m, i, n) \in {"enviar", "fin", "encolar"}
         /\ Vuelta(m, i, n) = "enviar" => i <= n
         /\ Vuelta(m, i, n) = "encolar" => Cola(m) \notin Respuestas
         /\ Vuelta(m, i, n) = "fin" => Cola(m) \in Respuestas
BY DEF Vuelta

\* A subscriber is added once or has its socket changed in its place.
LEMMA SuscriptaBien ==
  ASSUME NEW lista \in Seq([id : Suscriptores, socket : Sockets]),
         NEW u \in Suscriptores, NEW s \in Sockets,
         \A i, j \in DOMAIN lista : /\ Cola(lista[i].id) = Cola(u)
                                    /\ lista[i].id = lista[j].id => i = j
  PROVE  /\ Suscripta(lista, u, s) \in Seq([id : Suscriptores, socket : Sockets])
         /\ Len(lista) <= Len(Suscripta(lista, u, s))
         /\ \A i, j \in DOMAIN Suscripta(lista, u, s) :
              /\ Cola(Suscripta(lista, u, s)[i].id) = Cola(u)
              /\ Suscripta(lista, u, s)[i].id = Suscripta(lista, u, s)[j].id => i = j
<1> DEFINE e == [id |-> u, socket |-> s]
           R == [id : Suscriptores, socket : Sockets]
<1>a. lista \in Seq(R)
  OBVIOUS
<1>0. e \in R /\ DOMAIN lista = 1..Len(lista) /\ Len(lista) \in Nat
  OBVIOUS
<1>1. CASE \E i \in DOMAIN lista : lista[i].id = u
  <2> DEFINE l == [i \in DOMAIN lista |-> IF lista[i].id = u THEN e ELSE lista[i]]
  <2>1. Suscripta(lista, u, s) = l
    BY <1>1 DEF Suscripta
  <2>2. \A i \in DOMAIN lista : l[i] \in R /\ l[i].id = lista[i].id
    <3>1. e.id = u
      OBVIOUS
    <3> HIDE DEF e, R
    <3>2. QED
      BY <1>0, <1>a, <3>1
  <2>3. l \in [1..Len(lista) -> R]
    BY <1>0, <2>2
  <2>4. l \in Seq(R) /\ Len(l) = Len(lista) /\ DOMAIN l = DOMAIN lista
    BY <1>0, <2>3
  <2> HIDE DEF l
  <2>5. QED
    BY <2>1, <2>2, <2>4
<1>2. CASE ~ \E i \in DOMAIN lista : lista[i].id = u
  <2> DEFINE l == Append(lista, e)
  <2>1. Suscripta(lista, u, s) = l
    BY <1>2 DEF Suscripta
  <2>2. /\ l \in Seq(R) /\ Len(l) = Len(lista) + 1 /\ DOMAIN l = 1 .. Len(lista) + 1
        /\ \A i \in 1..Len(lista) : l[i] = lista[i]
        /\ l[Len(lista) + 1] = e
    <3> HIDE DEF e, R
    <3>1. QED
      BY <1>0, <1>a
  <2>3. \A i \in DOMAIN l : i \in DOMAIN lista \/ i = Len(lista) + 1
    BY <1>0, <2>2
  <2>4. \A i \in DOMAIN l : Cola(l[i].id) = Cola(u)
    BY <1>0, <2>2, <2>3
  <2>5. \A i, j \in DOMAIN l : l[i].id = l[j].id => i = j
    BY <1>0, <1>2, <2>2, <2>3
  <2> HIDE DEF l
  <2>6. QED
    BY <1>0, <2>1, <2>2, <2>4, <2>5
<1>3. QED
  BY <1>1, <1>2

\* What is noted is a subscriber, or NULL.
LEMMA PorSocketTipo ==
  ASSUME IInv, NEW c \in Colas, NEW s
  PROVE  PorSocket(c, s) \in Suscriptores \cup {Nadie}
<1> DEFINE con == {i \in DOMAIN suscriptores[c] : suscriptores[c][i].socket = s}
<1>1. suscriptores[c] \in Seq([id : Suscriptores, socket : Sockets])
  BY DEF IInv, DeListas
<1>2. \A i \in DOMAIN suscriptores[c] : suscriptores[c][i].id \in Suscriptores
  <2>1. ASSUME NEW R, NEW l \in Seq(R), NEW i \in DOMAIN l
        PROVE  l[i] \in R
    OBVIOUS
  <2>2. \A i \in DOMAIN suscriptores[c] :
          suscriptores[c][i] \in [id : Suscriptores, socket : Sockets]
    BY <1>1, <2>1
  <2>3. QED
    BY <2>2
<1>3. con \subseteq Nat /\ con \subseteq DOMAIN suscriptores[c]
  BY <1>1
<1>4. CASE con # {}
  <2>1. \E i \in con : \A j \in con : i <= j
    BY <1>3, <1>4, Minimo
  <2>2. (CHOOSE i \in con : \A j \in con : i <= j) \in con
    BY <2>1
  <2>3. QED
    BY <1>2, <1>3, <1>4, <2>2 DEF PorSocket
<1>5. CASE con = {}
  BY <1>5 DEF PorSocket
<1>6. QED
  BY <1>4, <1>5

\* Delivering messages that exist keeps what clients have, and adds confirmations of what
\* has been received only.
LEMMA RecibePreserva ==
  ASSUME IInv, NEW s \in Sockets, NEW M \in SUBSET Mensajes, Recibe(s, M)
  PROVE  /\ confirmaciones' \subseteq [mensaje : Mensajes, id : Suscriptores]
         /\ recibidos' \in [Suscriptores -> SUBSET Mensajes]
         /\ Confirmado'
         /\ \A u \in Suscriptores : recibidos[u] \subseteq recibidos'[u]
<1> DEFINE u == conexion[s].sub
<1>0. /\ confirmaciones \subseteq [mensaje : Mensajes, id : Suscriptores]
      /\ recibidos \in [Suscriptores -> SUBSET Mensajes]
      /\ \A a \in confirmaciones : a.mensaje \in recibidos[a.id]
  BY DEF IInv, DeClientes, Confirmado
<1>1. CASE ~conexion[s].viva
  BY <1>0, <1>1 DEF Recibe, Confirmado
<1>2. CASE conexion[s].viva
  <2>1. u \in Suscriptores
    BY <1>2 DEF IInv, DeClientes
  <2>2. /\ recibidos' = [recibidos EXCEPT ![u] = @ \cup M]
        /\ confirmaciones' = confirmaciones \cup {[mensaje |-> m, id |-> u] : m \in M}
    BY <1>2 DEF Recibe
  <2> HIDE DEF u
  <2>3. /\ recibidos' \in [Suscriptores -> SUBSET Mensajes]
        /\ \A v \in Suscriptores : recibidos[v] \subseteq recibidos'[v]
        /\ M \subseteq recibidos'[u]
    BY <1>0, <2>1, <2>2
  <2>4. confirmaciones' \subseteq [mensaje : Mensajes, id : Suscriptores]
    BY <1>0, <2>1, <2>2
  <2>5. ASSUME NEW a \in confirmaciones'
        PROVE  a.mensaje \in recibidos'[a.id]
    <3>1. CASE a \in confirmaciones
      <4>1. a.id \in Suscriptores
        BY <1>0, <3>1
      <4>2. QED
        BY <1>0, <2>3, <3>1, <4>1
    <3>2. CASE a \notin confirmaciones
      <4>1. PICK m \in M : a = [mensaje |-> m, id |-> u]
        BY <2>2, <3>2
      <4>2. QED
        BY <2>3, <4>1
    <3>3. QED
      BY <3>1, <3>2
  <2>6. QED
    BY <2>3, <2>4, <2>5 DEF Confirmado
<1>3. QED
  BY <1>1, <1>2

LEMMA InicioIInv == Init => IInv
<1> SUFFICES ASSUME Init
             PROVE  IInv
  OBVIOUS
<1>1. DeMensajes
  BY DEF Init, DeMensajes
<1>2. DeListas
  BY DEF Init, DeListas
<1>3. DeHilos
  <2>1. \A m \in Mensajes : Cola(m) \in Colas
    BY ColaEnColas
  <2>2. \A m \in Mensajes : Len(suscriptores[Cola(m)]) = 0
    BY <2>1 DEF Init
  <2>3. hilo = [m \in Mensajes |-> [pc |-> "inicio", sizeCola |-> 0, indice |-> 1, socket |-> Nadie]]
        /\ envios = {}
    BY DEF Init
  <2>4. QED
    BY <2>2, <2>3 DEF DeHilos, Lugares, Antes
<1>4. DeClientes /\ Confirmado
  BY DEF Init, DeClientes, Cerrada, Confirmado
<1>5. AckImplicaRecibido /\ caido \in BOOLEAN
  BY DEF Init, AckImplicaRecibido
<1>6. QED
  BY <1>1, <1>2, <1>3, <1>4, <1>5 DEF IInv

------------------------------------------------------------------------------
(* The steps. *)

\* A thread of publication goes on: what the other lemmas ask of its new place.
LEMMA HiloAvanza ==
  ASSUME IInv, NEW m \in Mensajes, NEW pc \in Lugares, NEW n \in Nat, NEW i \in Nat,
         NEW k \in Sockets \cup {Nadie},
         hilo' = [hilo EXCEPT ![m] = [pc |-> pc, sizeCola |-> n, indice |-> i, socket |-> k]],
         n <= Len(suscriptores[Cola(m)]), i >= 1,
         pc \in {"inicio", "agregarCorrelativo", "cachear", "contar"} => i = 1,
         pc = "encolar" /\ Cola(m) \in Respuestas => i = 1,
         pc = "enviar" => i <= n,
         suscriptores' = suscriptores,
         envios' \subseteq [mensaje : Mensajes, socket : Sockets]
  PROVE  DeHilos'
<1>1. /\ hilo' \in [Mensajes -> [pc : Lugares, sizeCola : Nat, indice : Nat,
                                 socket : Sockets \cup {Nadie}]]
      /\ hilo'[m] = [pc |-> pc, sizeCola |-> n, indice |-> i, socket |-> k]
      /\ \A l \in Mensajes : l # m => hilo'[l] = hilo[l]
  BY DEF IInv, DeHilos
<1>2. ASSUME NEW l \in Mensajes
      PROVE  /\ hilo'[l].sizeCola <= Len(suscriptores'[Cola(l)])
             /\ hilo'[l].indice >= 1
             /\ Antes(l)' => hilo'[l].indice = 1
             /\ hilo'[l].pc = "enviar" => hilo'[l].indice <= hilo'[l].sizeCola
  <2>1. CASE l = m
    BY <1>1, <2>1 DEF Antes
  <2>2. CASE l # m
    BY <1>1, <2>2 DEF Antes, IInv, DeHilos
  <2>3. QED
    BY <2>1, <2>2
<1>3. QED
  BY <1>1, <1>2 DEF DeHilos

\* The fields of a thread.
LEMMA CamposHilo ==
  ASSUME IInv, NEW m \in Mensajes
  PROVE  /\ hilo[m].pc \in Lugares /\ hilo[m].sizeCola \in Nat /\ hilo[m].indice \in Nat
         /\ hilo[m].socket \in Sockets \cup {Nadie}
         /\ hilo[m] = [pc |-> hilo[m].pc, sizeCola |-> hilo[m].sizeCola,
                       indice |-> hilo[m].indice, socket |-> hilo[m].socket]
         /\ hilo[m].sizeCola <= Len(suscriptores[Cola(m)]) /\ hilo[m].indice >= 1
         /\ Antes(m) => hilo[m].indice = 1
         /\ hilo[m].pc = "enviar" => hilo[m].indice <= hilo[m].sizeCola
         /\ Cola(m) \in Colas
         /\ Len(suscriptores[Cola(m)]) \in Nat
<1>1. Cola(m) \in Colas
  BY ColaEnColas
<1>2. Len(suscriptores[Cola(m)]) \in Nat
  BY <1>1 DEF IInv, DeListas
<1>3. QED
  BY <1>1, <1>2 DEF IInv, DeHilos

\* Changing only the place of a thread.
LEMMA IrPreserva ==
  ASSUME IInv, NEW m \in Mensajes, NEW pc \in Lugares, Ir(m, pc),
         pc \in {"inicio", "agregarCorrelativo", "cachear", "contar"} => Antes(m),
         pc = "encolar" /\ Cola(m) \in Respuestas => Antes(m),
         pc = "enviar" => hilo[m].indice <= hilo[m].sizeCola,
         suscriptores' = suscriptores,
         envios' = envios
  PROVE  DeHilos'
<1> DEFINE n == hilo[m].sizeCola
           i == hilo[m].indice
           k == hilo[m].socket
<1>1. /\ n \in Nat /\ i \in Nat /\ k \in Sockets \cup {Nadie}
      /\ n <= Len(suscriptores[Cola(m)]) /\ i >= 1
      /\ Antes(m) => i = 1
  BY CamposHilo
<1>2. hilo' = [hilo EXCEPT ![m] = [pc |-> pc, sizeCola |-> n, indice |-> i, socket |-> k]]
  <2>1. hilo \in [Mensajes -> [pc : Lugares, sizeCola : Nat, indice : Nat,
                             socket : Sockets \cup {Nadie}]]
    BY DEF IInv, DeHilos
  <2>2. [hilo[m] EXCEPT !.pc = pc] = [pc |-> pc, sizeCola |-> n, indice |-> i, socket |-> k]
    BY <2>1
  <2>3. hilo' = [hilo EXCEPT ![m] = [hilo[m] EXCEPT !.pc = pc]]
    BY DEF Ir
  <2> HIDE DEF n, i, k
  <2>4. QED
    BY <2>2, <2>3
<1>3. envios' \subseteq [mensaje : Mensajes, socket : Sockets]
  BY DEF IInv, DeHilos
<1> HIDE DEF n, i, k
<1>4. pc = "enviar" => i <= n
  BY DEF n, i
<1>5. QED
  BY <1>1, <1>2, <1>3, <1>4, HiloAvanza

\* Steps that leave alone what the parts of the invariant speak of.
LEMMA QuietosPreservan ==
  ASSUME IInv
  PROVE  /\ UNCHANGED <<cache, enviado, ack, queue>> => DeMensajes'
         /\ UNCHANGED suscriptores => DeListas'
         /\ UNCHANGED <<suscriptores, hilo, envios>> => DeHilos'
         /\ UNCHANGED <<conexion, confirmaciones, recibidos>> => DeClientes' /\ Confirmado'
         /\ UNCHANGED <<ack, recibidos>> => AckImplicaRecibido'
<1>1. UNCHANGED <<cache, enviado, ack, queue>> => DeMensajes'
  BY DEF IInv, DeMensajes
<1>2. UNCHANGED suscriptores => DeListas'
  BY DEF IInv, DeListas
<1>3. ASSUME UNCHANGED <<suscriptores, hilo, envios>>
      PROVE  DeHilos'
  <2>1. \A m \in Mensajes : Antes(m)' <=> Antes(m)
    BY <1>3 DEF Antes
  <2>2. QED
    BY <1>3, <2>1 DEF IInv, DeHilos
<1>4. UNCHANGED <<conexion, confirmaciones, recibidos>> => DeClientes' /\ Confirmado'
  BY DEF IInv, DeClientes, Confirmado
<1>5. UNCHANGED <<ack, recibidos>> => AckImplicaRecibido'
  BY DEF IInv, AckImplicaRecibido
<1>6. QED
  BY <1>1, <1>2, <1>3, <1>4, <1>5

LEMMA RecibirPreserva ==
  ASSUME IInv, NEW m \in Mensajes, Recibir(m)
  PROVE  IInv'
<1>1. Ir(m, AlRecibir(m)) /\ hilo[m].pc = "inicio"
      /\ UNCHANGED <<cache, enviado, ack, suscriptores, queue, idsCorrelativos, conexion, envios,
                     confirmaciones, recibidos, conexiones, caido>>
  BY DEF Recibir, delMensaje, listas, delCliente
<1>2. AlRecibir(m) \in {"fin", "agregarCorrelativo", "contar", "cachear"}
  BY DEF AlRecibir
<1>3. Antes(m)
  BY <1>1 DEF Antes
<1>4. DeHilos'
  BY <1>1, <1>2, <1>3, IrPreserva DEF Lugares
<1>5. QED
  BY <1>1, <1>4, QuietosPreservan DEF IInv

LEMMA AgregarIdCorrelativoPreserva ==
  ASSUME IInv, NEW m \in Mensajes, AgregarIdCorrelativo(m)
  PROVE  IInv'
<1>1. Ir(m, "cachear") /\ hilo[m].pc = "agregarCorrelativo"
      /\ UNCHANGED <<cache, enviado, ack, suscriptores, queue, conexion, envios,
                     confirmaciones, recibidos, conexiones, caido>>
  BY DEF AgregarIdCorrelativo, delMensaje, delCliente
<1>2. Antes(m)
  BY <1>1 DEF Antes
<1>3. DeHilos'
  BY <1>1, <1>2, IrPreserva DEF Lugares
<1>4. QED
  BY <1>1, <1>3, QuietosPreservan DEF IInv

LEMMA CachearPreserva ==
  ASSUME IInv, NEW m \in Mensajes, Cachear(m)
  PROVE  IInv'
<1>1. Ir(m, TrasCachear(m)) /\ hilo[m].pc = "cachear"
      /\ UNCHANGED <<suscriptores, idsCorrelativos, conexion, envios,
                     confirmaciones, recibidos, conexiones, caido>>
  BY DEF Cachear, delCliente
<1>2. PICK V \in Victimas(m) :
        /\ cache' = (cache \ V) \cup ({m} \ Largos)
        /\ enviado' = [v \in Mensajes |-> IF v \in V THEN <<>> ELSE enviado[v]]
        /\ ack' = [v \in Mensajes |-> IF v \in V THEN {} ELSE ack[v]]
        /\ queue' = [c \in Colas |-> queue[c] \ V]
  BY DEF Cachear
<1>3. Antes(m) /\ hilo[m].indice = 1 /\ hilo[m].sizeCola \in Nat
  BY <1>1, CamposHilo DEF Antes
<1>4. /\ TrasCachear(m) \in {"encolar", "contar", "enviar", "fin"}
      /\ TrasCachear(m) = "enviar" => 1 <= hilo[m].sizeCola
  <2>1. CASE Cola(m) = "CATCH"
    BY <1>3, <2>1, VueltaDentro DEF TrasCachear, Respuestas
  <2>2. CASE Cola(m) # "CATCH"
    BY <2>2 DEF TrasCachear
  <2>3. QED
    BY <2>1, <2>2
<1>5. DeHilos'
  BY <1>1, <1>3, <1>4, IrPreserva DEF Lugares
<1>6. DeMensajes'
  <2>1. cache' \subseteq Mensajes
    BY <1>2 DEF IInv, DeMensajes
  <2>2. enviado' \in [Mensajes -> Seq(Suscriptores \cup {Nadie})]
    BY <1>2 DEF IInv, DeMensajes
  <2>3. ack' \in [Mensajes -> SUBSET Suscriptores]
    BY <1>2 DEF IInv, DeMensajes
  <2>4. queue' \in [Colas -> SUBSET Mensajes] /\ \A c \in Colas : \A q \in queue'[c] : Cola(q) = c
    BY <1>2 DEF IInv, DeMensajes
  <2>5. QED
    BY <2>1, <2>2, <2>3, <2>4 DEF DeMensajes
<1>7. AckImplicaRecibido'
  BY <1>1, <1>2 DEF AckImplicaRecibido, IInv
<1>8. QED
  BY <1>1, <1>5, <1>6, <1>7, QuietosPreservan DEF IInv

LEMMA ContarPreserva ==
  ASSUME IInv, NEW m \in Mensajes, ContarSuscriptores(m)
  PROVE  IInv'
<1> DEFINE n == Len(suscriptores[Cola(m)])
           pc == IF Cola(m) = "CATCH" THEN "cachear" ELSE Vuelta(m, 1, n)
<1>1. hilo' = [hilo EXCEPT ![m].sizeCola = n, ![m].pc = pc] /\ hilo[m].pc = "contar"
      /\ UNCHANGED <<cache, enviado, ack, suscriptores, queue, idsCorrelativos, conexion, envios,
                     confirmaciones, recibidos, conexiones, caido>>
  BY DEF ContarSuscriptores, delMensaje, listas, delCliente
<1>2. n \in Nat /\ hilo[m].indice = 1 /\ hilo[m].socket \in Sockets \cup {Nadie}
  BY <1>1, CamposHilo DEF Antes
<1>3. /\ pc \in {"cachear", "enviar", "fin", "encolar"}
      /\ pc = "enviar" => 1 <= n
      /\ pc = "encolar" => Cola(m) \notin Respuestas
  BY <1>2, VueltaDentro
<1> HIDE DEF n, pc
<1>4. hilo' = [hilo EXCEPT ![m] = [pc |-> pc, sizeCola |-> n, indice |-> 1,
                                   socket |-> hilo[m].socket]]
  <2>1. hilo \in [Mensajes -> [pc : Lugares, sizeCola : Nat, indice : Nat,
                             socket : Sockets \cup {Nadie}]]
    BY DEF IInv, DeHilos
  <2>a. hilo[m] \in [pc : Lugares, sizeCola : Nat, indice : Nat, socket : Sockets \cup {Nadie}]
    BY <2>1
  <2> DEFINE g == [hilo[m] EXCEPT !.sizeCola = n]
  <2>2. g = [pc |-> hilo[m].pc, sizeCola |-> n, indice |-> 1, socket |-> hilo[m].socket]
    BY <1>2, <2>a
  <2>3. hilo' = [hilo EXCEPT ![m] = [g EXCEPT !.pc = pc]]
    BY <1>1, <2>1
  <2> HIDE DEF g
  <2>4. [g EXCEPT !.pc = pc] = [pc |-> pc, sizeCola |-> n, indice |-> 1, socket |-> hilo[m].socket]
    BY <2>2
  <2>5. QED
    BY <2>3, <2>4
<1>5. DeHilos'
  <2>1. n <= Len(suscriptores[Cola(m)]) /\ envios' \subseteq [mensaje : Mensajes, socket : Sockets]
    BY <1>1, <1>2 DEF n, IInv, DeHilos
  <2>2. pc \in Lugares /\ suscriptores' = suscriptores
    BY <1>1, <1>3 DEF Lugares
  <2>3. QED
    BY <1>2, <1>3, <1>4, <2>1, <2>2, HiloAvanza, 1 \in Nat, 1 >= 1
<1>6. QED
  BY <1>1, <1>5, QuietosPreservan DEF IInv

LEMMA LanzarEnvioPreserva ==
  ASSUME IInv, NEW m \in Mensajes, LanzarEnvio(m)
  PROVE  IInv'
<1> DEFINE k == suscriptores[Cola(m)][hilo[m].indice].socket
           n == hilo[m].sizeCola
           i == hilo[m].indice
<1>1. /\ hilo[m].pc = "enviar" /\ envios' = envios \cup {[mensaje |-> m, socket |-> k]}
      /\ hilo' = [hilo EXCEPT ![m].socket = k, ![m].pc = "anotar"]
      /\ UNCHANGED <<cache, enviado, ack, suscriptores, queue, idsCorrelativos, conexion,
                     confirmaciones, recibidos, conexiones, caido>>
  BY DEF LanzarEnvio, delMensaje, listas, delCliente
<1>2. /\ n \in Nat /\ i \in Nat /\ i >= 1 /\ i <= n /\ n <= Len(suscriptores[Cola(m)])
      /\ Cola(m) \in Colas /\ Len(suscriptores[Cola(m)]) \in Nat
  BY <1>1, CamposHilo
<1>3. k \in Sockets
  <2>1. suscriptores[Cola(m)] \in Seq([id : Suscriptores, socket : Sockets])
    BY <1>2 DEF IInv, DeListas
  <2>2. i \in 1..Len(suscriptores[Cola(m)])
    BY <1>2
  <2>3. suscriptores[Cola(m)][i] \in [id : Suscriptores, socket : Sockets]
    BY <2>1, <2>2, ElementoDeSeq
  <2>4. QED
    BY <2>3
<1> HIDE DEF k
<1>4. hilo' = [hilo EXCEPT ![m] = [pc |-> "anotar", sizeCola |-> n, indice |-> i, socket |-> k]]
  <2>1. hilo \in [Mensajes -> [pc : Lugares, sizeCola : Nat, indice : Nat,
                             socket : Sockets \cup {Nadie}]]
    BY DEF IInv, DeHilos
  <2>a. hilo[m] \in [pc : Lugares, sizeCola : Nat, indice : Nat, socket : Sockets \cup {Nadie}]
    BY <2>1
  <2> DEFINE g == [hilo[m] EXCEPT !.socket = k]
  <2>2. g = [pc |-> hilo[m].pc, sizeCola |-> n, indice |-> i, socket |-> k]
    BY <2>a
  <2>3. hilo' = [hilo EXCEPT ![m] = [g EXCEPT !.pc = "anotar"]]
    BY <1>1, <2>1
  <2> HIDE DEF g, n, i
  <2>4. [g EXCEPT !.pc = "anotar"] = [pc |-> "anotar", sizeCola |-> n, indice |-> i, socket |-> k]
    BY <2>2
  <2>5. QED
    BY <2>3, <2>4
<1> HIDE DEF n, i
<1>5. envios' \subseteq [mensaje : Mensajes, socket : Sockets]
  BY <1>1, <1>3 DEF IInv, DeHilos
<1>6. DeHilos'
  BY <1>1, <1>2, <1>3, <1>4, <1>5, HiloAvanza DEF Lugares
<1>7. QED
  BY <1>1, <1>6, QuietosPreservan DEF IInv

LEMMA AnotarEnviadoPreserva ==
  ASSUME IInv, NEW m \in Mensajes, AnotarEnviado(m)
  PROVE  IInv'
<1> DEFINE sub == PorSocket(Cola(m), hilo[m].socket)
           n == hilo[m].sizeCola
           i == hilo[m].indice
           k == hilo[m].socket
           pc == Vuelta(m, i + 1, n)
<1>1. /\ hilo[m].pc = "anotar" /\ caido' = Revienta(m, sub)
      /\ enviado' = IF Anota(m, sub) THEN [enviado EXCEPT ![m] = Append(@, sub)] ELSE enviado
      /\ hilo' = [hilo EXCEPT ![m].indice = @ + 1, ![m].pc = pc]
      /\ UNCHANGED <<cache, ack, suscriptores, queue, idsCorrelativos, conexion, envios,
                     confirmaciones, recibidos, conexiones>>
  BY DEF AnotarEnviado, listas, delCliente
<1>2. /\ n \in Nat /\ i \in Nat /\ i >= 1 /\ n <= Len(suscriptores[Cola(m)])
      /\ k \in Sockets \cup {Nadie} /\ Cola(m) \in Colas
  BY CamposHilo
<1>3. sub \in Suscriptores \cup {Nadie}
  BY <1>2, PorSocketTipo
<1>4. caido' \in BOOLEAN
  BY <1>1 DEF Revienta
<1>5. pc \in {"enviar", "fin", "encolar"} /\ (pc = "encolar" => Cola(m) \notin Respuestas)
  BY <1>2, VueltaDentro
<1>b. pc = "enviar" => i + 1 <= n
  BY <1>2, VueltaDentro
<1> HIDE DEF sub, pc
<1>6. enviado' \in [Mensajes -> Seq(Suscriptores \cup {Nadie})]
  <2>1. enviado[m] \in Seq(Suscriptores \cup {Nadie})
    BY DEF IInv, DeMensajes
  <2>2. Append(enviado[m], sub) \in Seq(Suscriptores \cup {Nadie})
    BY <1>3, <2>1
  <2>3. QED
    BY <1>1, <2>2 DEF IInv, DeMensajes
<1>7. DeMensajes'
  BY <1>1, <1>6 DEF IInv, DeMensajes
<1>8. hilo' = [hilo EXCEPT ![m] = [pc |-> pc, sizeCola |-> n, indice |-> i + 1, socket |-> k]]
  <2>1. hilo \in [Mensajes -> [pc : Lugares, sizeCola : Nat, indice : Nat,
                             socket : Sockets \cup {Nadie}]]
    BY DEF IInv, DeHilos
  <2>a. hilo[m] \in [pc : Lugares, sizeCola : Nat, indice : Nat, socket : Sockets \cup {Nadie}]
    BY <2>1
  <2> DEFINE g == [hilo[m] EXCEPT !.indice = i + 1]
  <2>2. g = [pc |-> hilo[m].pc, sizeCola |-> n, indice |-> i + 1, socket |-> k]
    BY <2>a
  <2>3. hilo' = [hilo EXCEPT ![m] = [g EXCEPT !.pc = pc]]
    BY <1>1, <2>1
  <2> HIDE DEF g, n, i, k
  <2>4. [g EXCEPT !.pc = pc] = [pc |-> pc, sizeCola |-> n, indice |-> i + 1, socket |-> k]
    BY <2>2
  <2>5. QED
    BY <2>3, <2>4
<1> HIDE DEF n, i, k
<1>9. DeHilos'
  <2>1. envios' \subseteq [mensaje : Mensajes, socket : Sockets] /\ suscriptores' = suscriptores
    BY <1>1 DEF IInv, DeHilos
  <2>a. pc \in Lugares
    BY <1>5 DEF Lugares
  <2>b. i \in Nat
    BY <1>2
  <2>2. i + 1 \in Nat /\ i + 1 >= 1
    BY <2>b
  <2>3. QED
    BY <1>2, <1>5, <1>b, <1>8, <2>1, <2>a, <2>2, HiloAvanza
<1>10. QED
  BY <1>1, <1>4, <1>7, <1>9, QuietosPreservan DEF IInv

LEMMA EncolarPreserva ==
  ASSUME IInv, NEW m \in Mensajes, Encolar(m)
  PROVE  IInv'
<1> DEFINE pc == IF Cola(m) \in Respuestas THEN "contar" ELSE "fin"
<1>1. Ir(m, pc) /\ hilo[m].pc = "encolar"
      /\ UNCHANGED <<cache, enviado, ack, suscriptores, idsCorrelativos, conexion, envios,
                     confirmaciones, recibidos, conexiones, caido>>
  BY DEF Encolar, delMensaje, delCliente
<1>2. queue' = [queue EXCEPT ![Cola(m)] = @ \cup {m}] \/ queue' = queue
  BY DEF Encolar
<1>3. DeMensajes'
  <2>1. Cola(m) \in Colas
    BY ColaEnColas
  <2>a. queue \in [Colas -> SUBSET Mensajes] /\ \A c \in Colas : \A q \in queue[c] : Cola(q) = c
    BY DEF IInv, DeMensajes
  <2>b. ASSUME queue' = [queue EXCEPT ![Cola(m)] = @ \cup {m}]
        PROVE  queue' \in [Colas -> SUBSET Mensajes] /\ \A c \in Colas : \A q \in queue'[c] : Cola(q) = c
    <3>1. queue' \in [Colas -> SUBSET Mensajes]
      BY <2>1, <2>a, <2>b
    <3>2. ASSUME NEW c \in Colas, NEW q \in queue'[c]
          PROVE  Cola(q) = c
      <4>1. CASE c = Cola(m)
        BY <2>1, <2>a, <2>b, <4>1
      <4>2. CASE c # Cola(m)
        BY <2>1, <2>a, <2>b, <4>2
      <4>3. QED
        BY <4>1, <4>2
    <3>3. QED
      BY <3>1, <3>2
  <2>2. queue' \in [Colas -> SUBSET Mensajes] /\ \A c \in Colas : \A q \in queue'[c] : Cola(q) = c
    BY <1>2, <2>a, <2>b
  <2>3. QED
    BY <1>1, <2>2 DEF IInv, DeMensajes
<1>4. /\ pc \in {"contar", "fin"}
      /\ pc = "contar" => Antes(m)
  BY <1>1 DEF Antes
<1> HIDE DEF pc
<1>5. DeHilos'
  BY <1>1, <1>4, IrPreserva DEF Lugares
<1>6. QED
  BY <1>1, <1>3, <1>5, QuietosPreservan DEF IInv

LEMMA EnviarMensajePreserva ==
  ASSUME IInv, NEW e \in envios, EnviarMensaje(e)
  PROVE  IInv'
<1>1. /\ Recibe(e.socket, {e.mensaje}) /\ envios' = envios \ {e}
      /\ UNCHANGED <<cache, enviado, ack, suscriptores, queue, idsCorrelativos, hilo, conexion,
                     conexiones, caido>>
  BY DEF EnviarMensaje, delMensaje, listas
<1>2. e.socket \in Sockets /\ {e.mensaje} \in SUBSET Mensajes
  BY DEF IInv, DeHilos
<1>3. /\ confirmaciones' \subseteq [mensaje : Mensajes, id : Suscriptores]
      /\ recibidos' \in [Suscriptores -> SUBSET Mensajes]
      /\ Confirmado'
      /\ \A u \in Suscriptores : recibidos[u] \subseteq recibidos'[u]
  BY <1>1, <1>2, RecibePreserva
<1>4. DeClientes'
  BY <1>1, <1>3 DEF IInv, DeClientes
<1>5. DeHilos'
  <2>1. \A m \in Mensajes : Antes(m)' <=> Antes(m)
    BY <1>1 DEF Antes
  <2>2. envios' \subseteq [mensaje : Mensajes, socket : Sockets]
    BY <1>1 DEF IInv, DeHilos
  <2>3. QED
    BY <1>1, <2>1, <2>2 DEF IInv, DeHilos
<1>6. AckImplicaRecibido'
  <2>1. ack \in [Mensajes -> SUBSET Suscriptores]
    BY DEF IInv, DeMensajes
  <2>2. QED
    BY <1>1, <1>3, <2>1 DEF IInv, AckImplicaRecibido
<1>7. QED
  BY <1>1, <1>3, <1>4, <1>5, <1>6, QuietosPreservan DEF IInv

LEMMA AgregarSuscripcionPreserva ==
  ASSUME IInv, NEW s \in Sockets, AgregarSuscripcion(s)
  PROVE  IInv'
<1> DEFINE u == conexion[s].sub
           c == Cola(u)
           l == Suscripta(suscriptores[c], u, s)
<1>1. /\ conexion[s].pc = "suscribir"
      /\ suscriptores' = [suscriptores EXCEPT ![c] = l]
      /\ conexion' = [conexion EXCEPT ![s].pc = "ultimos"]
      /\ UNCHANGED <<cache, enviado, ack, queue, idsCorrelativos, hilo, envios,
                     confirmaciones, recibidos, conexiones, caido>>
  BY DEF AgregarSuscripcion, IrConexion, ColaDe, delMensaje, delCliente
<1>2. u \in Suscriptores /\ c \in Colas
  BY <1>1, ColaEnColas DEF IInv, DeClientes
<1>3. /\ suscriptores[c] \in Seq([id : Suscriptores, socket : Sockets])
      /\ \A i, j \in DOMAIN suscriptores[c] :
           /\ Cola(suscriptores[c][i].id) = c
           /\ suscriptores[c][i].id = suscriptores[c][j].id => i = j
  BY <1>2 DEF IInv, DeListas
<1>4. /\ l \in Seq([id : Suscriptores, socket : Sockets])
      /\ Len(suscriptores[c]) <= Len(l)
      /\ \A i, j \in DOMAIN l : /\ Cola(l[i].id) = c
                                /\ l[i].id = l[j].id => i = j
  <2> HIDE DEF u
  <2>1. QED
    BY <1>2, <1>3, SuscriptaBien
<1> HIDE DEF l
<1>5. /\ suscriptores'[c] = l
      /\ \A d \in Colas : d # c => suscriptores'[d] = suscriptores[d]
  BY <1>1, <1>2 DEF IInv, DeListas
<1>6. suscriptores' \in [Colas -> Seq([id : Suscriptores, socket : Sockets])]
  BY <1>1, <1>2, <1>4 DEF IInv, DeListas
<1>7. DeListas'
  <2>1. ASSUME NEW d \in Colas, NEW i \in DOMAIN suscriptores'[d],
               NEW j \in DOMAIN suscriptores'[d]
        PROVE  /\ Cola(suscriptores'[d][i].id) = d
               /\ suscriptores'[d][i].id = suscriptores'[d][j].id => i = j
    <3>1. CASE d = c
      BY <1>4, <1>5, <3>1
    <3>2. CASE d # c
      BY <1>5, <3>2 DEF IInv, DeListas
    <3>3. QED
      BY <3>1, <3>2
  <2>2. QED
    BY <1>6, <2>1 DEF DeListas
<1>8. DeHilos'
  <2>1. ASSUME NEW m \in Mensajes
        PROVE  hilo[m].sizeCola <= Len(suscriptores'[Cola(m)])
    <3>1. hilo[m].sizeCola \in Nat /\ hilo[m].sizeCola <= Len(suscriptores[Cola(m)])
          /\ Cola(m) \in Colas /\ Len(suscriptores[Cola(m)]) \in Nat
      BY CamposHilo
    <3>2. Len(l) \in Nat
      BY <1>4
    <3>3. CASE Cola(m) = c
      BY <1>4, <1>5, <3>1, <3>2, <3>3
    <3>4. CASE Cola(m) # c
      BY <1>5, <3>1, <3>4
    <3>5. QED
      BY <3>3, <3>4
  <2>2. \A m \in Mensajes : Antes(m)' <=> Antes(m)
    BY <1>1 DEF Antes
  <2>3. QED
    BY <1>1, <2>1, <2>2 DEF IInv, DeHilos
<1>9. DeClientes'
  BY <1>1, <1>2 DEF IInv, DeClientes
<1>10. Confirmado' /\ AckImplicaRecibido' /\ DeMensajes'
  BY <1>1 DEF IInv, Confirmado, AckImplicaRecibido, DeMensajes
<1>11. QED
  BY <1>1, <1>7, <1>8, <1>9, <1>10 DEF IInv

LEMMA EnviarUltimosPreserva ==
  ASSUME IInv, NEW s \in Sockets, EnviarUltimosMensajesRecibidos(s)
  PROVE  IInv'
<1> DEFINE u == conexion[s].sub
<1>1. /\ conexion[s].pc = "ultimos" /\ Recibe(s, Pendientes(u))
      /\ enviado' = [m \in Mensajes |-> IF m \in Pendientes(u) /\ u \notin Rango(enviado[m])
                                        THEN Append(enviado[m], u) ELSE enviado[m]]
      /\ caido' = \E m \in Pendientes(u) : TropiezaCon(enviado[m], u)
      /\ conexion' = [conexion EXCEPT ![s].pc = "recibir"]
      /\ UNCHANGED <<cache, ack, suscriptores, queue, idsCorrelativos, hilo, envios, conexiones>>
  BY DEF EnviarUltimosMensajesRecibidos, IrConexion, listas
<1>2. u \in Suscriptores
  BY <1>1 DEF IInv, DeClientes
<1>3. Pendientes(u) \in SUBSET Mensajes
  BY DEF Pendientes, IInv, DeMensajes
<1>4. caido' \in BOOLEAN
  BY <1>1
<1>5. /\ confirmaciones' \subseteq [mensaje : Mensajes, id : Suscriptores]
      /\ recibidos' \in [Suscriptores -> SUBSET Mensajes]
      /\ Confirmado'
      /\ \A v \in Suscriptores : recibidos[v] \subseteq recibidos'[v]
  BY <1>1, <1>3, RecibePreserva
<1>6. DeMensajes'
  <2>1. ASSUME NEW m \in Mensajes
        PROVE  /\ enviado[m] \in Seq(Suscriptores \cup {Nadie})
               /\ Append(enviado[m], u) \in Seq(Suscriptores \cup {Nadie})
    BY <1>2 DEF IInv, DeMensajes
  <2> HIDE DEF u
  <2>2. enviado' \in [Mensajes -> Seq(Suscriptores \cup {Nadie})]
    BY <1>1, <2>1
  <2>3. QED
    BY <1>1, <2>2 DEF IInv, DeMensajes
<1>7. DeClientes'
  BY <1>1, <1>2, <1>5 DEF IInv, DeClientes
<1>8. AckImplicaRecibido'
  <2>1. ack \in [Mensajes -> SUBSET Suscriptores]
    BY DEF IInv, DeMensajes
  <2>2. QED
    BY <1>1, <1>5, <2>1 DEF IInv, AckImplicaRecibido
<1>9. QED
  BY <1>1, <1>4, <1>5, <1>6, <1>7, <1>8, QuietosPreservan DEF IInv

LEMMA ConfirmacionPreserva ==
  ASSUME IInv, NEW a \in confirmaciones, Confirmacion(a)
  PROVE  IInv'
<1>1. /\ confirmaciones' = confirmaciones \ {a}
      /\ ack' = IF a.mensaje \in cache /\ a.id \in Rango(enviado[a.mensaje])
                THEN [ack EXCEPT ![a.mensaje] = @ \cup {a.id}] ELSE ack
      /\ caido' = (a.mensaje \in cache /\ TropiezaCon(enviado[a.mensaje], a.id))
      /\ UNCHANGED <<cache, enviado, suscriptores, queue, idsCorrelativos, hilo, conexion, envios,
                     recibidos, conexiones>>
  BY DEF Confirmacion, listas
<1>2. a.mensaje \in Mensajes /\ a.id \in Suscriptores /\ a.mensaje \in recibidos[a.id]
  BY DEF IInv, DeClientes, Confirmado
<1>3. caido' \in BOOLEAN
  BY <1>1
<1>4. DeMensajes'
  BY <1>1, <1>2 DEF IInv, DeMensajes
<1>5. DeClientes' /\ Confirmado'
  BY <1>1 DEF IInv, DeClientes, Confirmado
<1>6. AckImplicaRecibido'
  <2> SUFFICES ASSUME NEW m \in Mensajes, NEW u \in ack'[m]
               PROVE  m \in recibidos'[u]
    BY DEF AckImplicaRecibido
  <2>1. u \in ack[m] \/ (m = a.mensaje /\ u = a.id)
    BY <1>1, <1>2 DEF IInv, DeMensajes
  <2>2. QED
    BY <1>1, <1>2, <2>1 DEF IInv, AckImplicaRecibido
<1>7. QED
  BY <1>1, <1>3, <1>4, <1>5, <1>6, QuietosPreservan DEF IInv

LEMMA ConectarPreserva ==
  ASSUME IInv, NEW u \in Suscriptores, NEW s \in Sockets, Conectar(u, s)
  PROVE  IInv'
<1>1. /\ conexion' = [conexion EXCEPT ![s] = [sub |-> u, pc |-> "suscribir", viva |-> TRUE]]
      /\ UNCHANGED <<cache, enviado, ack, suscriptores, queue, idsCorrelativos, hilo, envios,
                     confirmaciones, recibidos, caido>>
  BY DEF Conectar, delMensaje, listas
<1>2. DeClientes' /\ Confirmado'
  BY <1>1 DEF IInv, DeClientes, Confirmado
<1>3. QED
  BY <1>1, <1>2, QuietosPreservan DEF IInv

LEMMA DesconectarPreserva ==
  ASSUME IInv, NEW s \in Sockets, Desconectar(s)
  PROVE  IInv'
<1>1. /\ conexion' = [conexion EXCEPT ![s].viva = FALSE]
      /\ confirmaciones' \subseteq confirmaciones
      /\ UNCHANGED <<cache, enviado, ack, suscriptores, queue, idsCorrelativos, hilo, envios,
                     recibidos, conexiones, caido>>
  BY DEF Desconectar, delMensaje, listas
<1>2. DeClientes' /\ Confirmado'
  BY <1>1 DEF IInv, DeClientes, Confirmado
<1>3. QED
  BY <1>1, <1>2, QuietosPreservan DEF IInv

LEMMA CerrarPreserva ==
  ASSUME IInv, NEW s \in Sockets, Cerrar(s)
  PROVE  IInv'
<1>1. /\ conexion' = [conexion EXCEPT ![s] = Cerrada]
      /\ UNCHANGED <<cache, enviado, ack, suscriptores, queue, idsCorrelativos, hilo, envios,
                     confirmaciones, recibidos, conexiones, caido>>
  BY DEF Cerrar, delMensaje, listas, delCliente
<1>2. DeClientes' /\ Confirmado'
  BY <1>1 DEF IInv, DeClientes, Confirmado, Cerrada
<1>3. QED
  BY <1>1, <1>2, QuietosPreservan DEF IInv

\* Every step of the Broker and of its clients preserves the inductive invariant.
LEMMA PasoIInv == IInv /\ [Next]_vars => IInv'
<1> SUFFICES ASSUME IInv, [Next]_vars
             PROVE  IInv'
  OBVIOUS
<1>1. ASSUME NEW m \in Mensajes, Publicacion(m)
      PROVE  IInv'
  BY <1>1, AgregarIdCorrelativoPreserva, CachearPreserva, EncolarPreserva, ContarPreserva,
     LanzarEnvioPreserva, AnotarEnviadoPreserva DEF Publicacion
<1>2. ASSUME NEW s \in Sockets, Atencion(s) \/ Desconectar(s)
      PROVE  IInv'
  BY <1>2, AgregarSuscripcionPreserva, EnviarUltimosPreserva, CerrarPreserva,
     DesconectarPreserva DEF Atencion
<1>3. CASE UNCHANGED vars
  <2>1. UNCHANGED <<cache, enviado, ack, suscriptores, queue, hilo, conexion, envios,
                    confirmaciones, recibidos, caido>>
    BY <1>3 DEF vars
  <2>2. QED
    BY <2>1, QuietosPreservan DEF IInv
<1>4. QED
  BY <1>1, <1>2, <1>3, RecibirPreserva, EnviarMensajePreserva, ConfirmacionPreserva,
     ConectarPreserva DEF Next

------------------------------------------------------------------------------
(* What a step does to the places of the publishing threads, to the cache, *)
(* the queues and the answers already seen: one of the following.          *)

Pc(m) == hilo[m].pc

\* Only the thread of m moves.
SoloUno(m) == \A n \in Mensajes : n # m => Pc(n)' = Pc(n)

Entra(m) ==
  /\ Pc(m) = "inicio" /\ Pc(m)' = AlRecibir(m)
  /\ \A n \in Mensajes : Publicador(n) = Publicador(m) => ~EnCurso(n)
  /\ UNCHANGED <<cache, queue, idsCorrelativos>>

Agrega(m) ==
  /\ Pc(m) = "agregarCorrelativo" /\ Pc(m)' = "cachear"
  /\ idsCorrelativos' = [idsCorrelativos EXCEPT ![Cola(m)] = @ \cup {Correlativo(m)}]
  /\ UNCHANGED <<cache, queue>>

Cachea(m) ==
  /\ Pc(m) = "cachear" /\ Pc(m)' \in {"encolar", "contar", "enviar"}
  /\ Cola(m) \in Respuestas => Pc(m)' = "encolar"
  /\ Pc(m)' = "contar" => Cola(m) # "CATCH"
  /\ \E V \in SUBSET Mensajes : /\ V \in Victimas(m)
                                /\ cache' = (cache \ V) \cup ({m} \ Largos)
                                /\ V \subseteq cache
                                /\ queue' = [c \in Colas |-> queue[c] \ V]
  /\ UNCHANGED idsCorrelativos

Sigue(m) ==
  /\ Pc(m) \in {"contar", "enviar", "anotar"}
  /\ Pc(m)' \in {"cachear", "enviar", "anotar", "encolar", "fin"}
  /\ Pc(m)' \in {"cachear", "encolar"} => Cola(m) \notin Respuestas
  /\ Pc(m)' = "cachear" <=> Pc(m) = "contar" /\ Cola(m) = "CATCH"
  /\ Pc(m)' = "fin" => Cola(m) \in Respuestas
  /\ UNCHANGED <<cache, queue, idsCorrelativos>>

Encola(m) ==
  /\ Pc(m) = "encolar" /\ Pc(m)' = IF Cola(m) \in Respuestas THEN "contar" ELSE "fin"
  /\ \/ queue' = [queue EXCEPT ![Cola(m)] = @ \cup {m}]
     \/ SinExclusion(m) /\ UNCHANGED queue
  /\ UNCHANGED <<cache, idsCorrelativos>>

Mueve(m) == SoloUno(m) /\ (Entra(m) \/ Agrega(m) \/ Cachea(m) \/ Sigue(m) \/ Encola(m))

\* Steps of the connections touch none of it.
Ajeno == /\ \A n \in Mensajes : Pc(n)' = Pc(n)
         /\ UNCHANGED <<cache, queue, idsCorrelativos>>

LEMMA LugarDelHilo ==
  ASSUME IInv, NEW m \in Mensajes, NEW pc
  PROVE  /\ Ir(m, pc) => SoloUno(m) /\ Pc(m)' = pc
         /\ \A x : hilo' = [hilo EXCEPT ![m].sizeCola = x, ![m].pc = pc]
                     => SoloUno(m) /\ Pc(m)' = pc
         /\ \A x : hilo' = [hilo EXCEPT ![m].socket = x, ![m].pc = pc]
                     => SoloUno(m) /\ Pc(m)' = pc
         /\ \A x : hilo' = [hilo EXCEPT ![m].indice = x, ![m].pc = pc]
                     => SoloUno(m) /\ Pc(m)' = pc
<1>1. hilo \in [Mensajes -> [pc : Lugares, sizeCola : Nat, indice : Nat,
                             socket : Sockets \cup {Nadie}]]
  BY DEF IInv, DeHilos
<1>2. Ir(m, pc) => SoloUno(m) /\ Pc(m)' = pc
  BY <1>1 DEF Ir, SoloUno, Pc
<1>3. ASSUME NEW x, hilo' = [hilo EXCEPT ![m].sizeCola = x, ![m].pc = pc]
      PROVE  SoloUno(m) /\ Pc(m)' = pc
  BY <1>1, <1>3 DEF SoloUno, Pc
<1>4. ASSUME NEW x, hilo' = [hilo EXCEPT ![m].socket = x, ![m].pc = pc]
      PROVE  SoloUno(m) /\ Pc(m)' = pc
  BY <1>1, <1>4 DEF SoloUno, Pc
<1>5. ASSUME NEW x, hilo' = [hilo EXCEPT ![m].indice = x, ![m].pc = pc]
      PROVE  SoloUno(m) /\ Pc(m)' = pc
  BY <1>1, <1>5 DEF SoloUno, Pc
<1>6. QED
  BY <1>2, <1>3, <1>4, <1>5

\* Every step is one of those.
LEMMA PasosDePublicacion ==
  ASSUME IInv, [Next]_vars
  PROVE  Ajeno \/ \E m \in Mensajes : Mueve(m)
<1>1. ASSUME NEW m \in Mensajes, Recibir(m)
      PROVE  Mueve(m)
  <2>1. Ir(m, AlRecibir(m))
    BY <1>1 DEF Recibir
  <2>2. SoloUno(m) /\ Pc(m)' = AlRecibir(m)
    BY <2>1, LugarDelHilo
  <2>3. QED
    BY <1>1, <2>2 DEF Recibir, Mueve, Entra, Pc, listas
<1>2. ASSUME NEW m \in Mensajes, AgregarIdCorrelativo(m)
      PROVE  Mueve(m)
  <2>1. Ir(m, "cachear")
    BY <1>2 DEF AgregarIdCorrelativo
  <2>2. SoloUno(m) /\ Pc(m)' = "cachear"
    BY <2>1, LugarDelHilo
  <2>3. QED
    BY <1>2, <2>2 DEF AgregarIdCorrelativo, Mueve, Agrega, Pc
<1>3. ASSUME NEW m \in Mensajes, Cachear(m)
      PROVE  Mueve(m)
  <2>1. Ir(m, TrasCachear(m)) /\ hilo[m].pc = "cachear" /\ idsCorrelativos' = idsCorrelativos
    BY <1>3 DEF Cachear
  <2>2. SoloUno(m) /\ Pc(m)' = TrasCachear(m)
    BY <2>1, LugarDelHilo
  <2>3. /\ TrasCachear(m) \in {"encolar", "contar", "enviar"}
        /\ Cola(m) \in Respuestas => TrasCachear(m) = "encolar"
        /\ TrasCachear(m) = "contar" => Cola(m) # "CATCH"
    <3>1. hilo[m].sizeCola \in Nat
      BY CamposHilo
    <3>2. CASE Cola(m) = "CATCH"
      <4>1. Cola(m) \notin Respuestas
        BY <3>2 DEF Respuestas
      <4>2. TrasCachear(m) = Vuelta(m, 1, hilo[m].sizeCola)
        BY <3>2, <4>1 DEF TrasCachear
      <4>3. QED
        BY <3>1, <4>1, <4>2, VueltaDentro
    <3>3. CASE Cola(m) # "CATCH"
      BY <3>3 DEF TrasCachear
    <3>4. QED
      BY <3>2, <3>3
  <2>4. PICK V \in Victimas(m) : /\ cache' = (cache \ V) \cup ({m} \ Largos)
                                 /\ queue' = [c \in Colas |-> queue[c] \ V]
    BY <1>3 DEF Cachear
  <2>5. V \subseteq cache /\ V \in SUBSET Mensajes
    BY DEF Victimas, IInv, DeMensajes
  <2>6. Cachea(m)
    BY <2>1, <2>2, <2>3, <2>4, <2>5 DEF Cachea, Pc
  <2>7. QED
    BY <2>2, <2>6 DEF Mueve
<1>4. ASSUME NEW m \in Mensajes, ContarSuscriptores(m)
      PROVE  Mueve(m)
  <2> DEFINE n == Len(suscriptores[Cola(m)])
             pc == IF Cola(m) = "CATCH" THEN "cachear" ELSE Vuelta(m, 1, n)
  <2>1. /\ hilo' = [hilo EXCEPT ![m].sizeCola = n, ![m].pc = pc] /\ hilo[m].pc = "contar"
        /\ UNCHANGED <<cache, queue, idsCorrelativos>>
    BY <1>4 DEF ContarSuscriptores, listas
  <2>2. /\ pc \in {"cachear", "enviar", "fin", "encolar"}
        /\ pc \in {"cachear", "encolar"} => Cola(m) \notin Respuestas
        /\ pc = "fin" => Cola(m) \in Respuestas
        /\ pc = "cachear" <=> Cola(m) = "CATCH"
    <3>1. n \in Nat
      BY CamposHilo
    <3> HIDE DEF n
    <3>2. QED
      BY <3>1, VueltaDentro DEF Respuestas
  <2> HIDE DEF n, pc
  <2>3. SoloUno(m) /\ Pc(m)' = pc
    BY <2>1, LugarDelHilo
  <2>4. Sigue(m)
    BY <2>1, <2>2, <2>3 DEF Sigue, Pc
  <2>5. QED
    BY <2>3, <2>4 DEF Mueve
<1>5. ASSUME NEW m \in Mensajes, LanzarEnvio(m)
      PROVE  Mueve(m)
  <2> DEFINE k == suscriptores[Cola(m)][hilo[m].indice].socket
  <2>1. /\ hilo' = [hilo EXCEPT ![m].socket = k, ![m].pc = "anotar"] /\ hilo[m].pc = "enviar"
        /\ UNCHANGED <<cache, queue, idsCorrelativos>>
    BY <1>5 DEF LanzarEnvio, listas
  <2> HIDE DEF k
  <2>2. SoloUno(m) /\ Pc(m)' = "anotar"
    BY <2>1, LugarDelHilo
  <2>3. Sigue(m)
    BY <2>1, <2>2 DEF Sigue, Pc
  <2>4. QED
    BY <2>2, <2>3 DEF Mueve
<1>6. ASSUME NEW m \in Mensajes, AnotarEnviado(m)
      PROVE  Mueve(m)
  <2> DEFINE i == hilo[m].indice + 1
             n == hilo[m].sizeCola
             pc == Vuelta(m, i, n)
  <2>1. /\ hilo' = [hilo EXCEPT ![m].indice = i, ![m].pc = pc] /\ hilo[m].pc = "anotar"
        /\ UNCHANGED <<cache, queue, idsCorrelativos>>
    BY <1>6 DEF AnotarEnviado, listas
  <2>2. i \in Nat /\ n \in Nat
    <3>1. hilo[m].indice \in Nat /\ hilo[m].sizeCola \in Nat
      BY CamposHilo
    <3>2. QED
      BY <3>1
  <2> HIDE DEF i, n
  <2>3. /\ pc \in {"enviar", "fin", "encolar"}
        /\ pc = "encolar" => Cola(m) \notin Respuestas
        /\ pc = "fin" => Cola(m) \in Respuestas
    BY <2>2, VueltaDentro
  <2> HIDE DEF pc
  <2>4. SoloUno(m) /\ Pc(m)' = pc
    BY <2>1, LugarDelHilo
  <2>5. Sigue(m)
    BY <2>1, <2>3, <2>4 DEF Sigue, Pc
  <2>6. QED
    BY <2>4, <2>5 DEF Mueve
<1>7. ASSUME NEW m \in Mensajes, Encolar(m)
      PROVE  Mueve(m)
  <2>1. Ir(m, IF Cola(m) \in Respuestas THEN "contar" ELSE "fin") /\ hilo[m].pc = "encolar"
    BY <1>7 DEF Encolar
  <2>2. SoloUno(m) /\ Pc(m)' = IF Cola(m) \in Respuestas THEN "contar" ELSE "fin"
    BY <2>1, LugarDelHilo
  <2>3. Encola(m)
    BY <1>7, <2>1, <2>2 DEF Encolar, Encola, Pc
  <2>4. QED
    BY <2>2, <2>3 DEF Mueve
<1>8. ASSUME NEW e \in envios, EnviarMensaje(e)
      PROVE  Ajeno
  BY <1>8 DEF EnviarMensaje, Ajeno, Pc, listas
<1>9. ASSUME NEW s \in Sockets, Atencion(s) \/ Desconectar(s)
      PROVE  Ajeno
  BY <1>9 DEF Atencion, AgregarSuscripcion, EnviarUltimosMensajesRecibidos, Cerrar, Desconectar,
              Ajeno, Pc, listas
<1>10. ASSUME NEW a \in confirmaciones, Confirmacion(a)
       PROVE  Ajeno
  BY <1>10 DEF Confirmacion, Ajeno, Pc, listas
<1>11. ASSUME NEW u \in Suscriptores, NEW s \in Sockets, Conectar(u, s)
       PROVE  Ajeno
  BY <1>11 DEF Conectar, Ajeno, Pc, listas
<1>12. CASE UNCHANGED vars
  BY <1>12 DEF vars, Ajeno, Pc
<1>13. ASSUME NEW m \in Mensajes, Publicacion(m)
       PROVE  Mueve(m)
  BY <1>2, <1>3, <1>4, <1>5, <1>6, <1>7, <1>13 DEF Publicacion
<1>14. QED
  BY <1>1, <1>8, <1>9, <1>10, <1>11, <1>12, <1>13 DEF Next

------------------------------------------------------------------------------
(* The turns of the publishers.                                             *)

\* A publisher has one message under way at a time.
DeTurno == \A m, n \in Mensajes :
             Publicador(m) = Publicador(n) /\ EnCurso(m) /\ EnCurso(n) => m = n

\* A message enters the cache at its own cachearMensaje and not before.
NoAntes == \A m \in Mensajes : Pc(m) \in {"inicio", "agregarCorrelativo"} => m \notin cache

Turnos == DeTurno /\ NoAntes

LEMMA InicioTurnos == Init => Turnos
BY DEF Init, Turnos, DeTurno, NoAntes, EnCurso, Pc

LEMMA PasoTurnos ==
  ASSUME IInv, Turnos, [Next]_vars
  PROVE  Turnos'
<1>1. CASE Ajeno
  BY <1>1 DEF Ajeno, Turnos, DeTurno, NoAntes, EnCurso, Pc
<1>2. ASSUME NEW p \in Mensajes, Mueve(p)
      PROVE  Turnos'
  <2>1. \A n \in Mensajes : n # p => (EnCurso(n)' <=> EnCurso(n))
    BY <1>2 DEF Mueve, SoloUno, EnCurso, Pc
  <2>2. CASE Entra(p)
    <3>1. DeTurno'
      BY <2>1, <2>2 DEF Entra, Turnos, DeTurno
    <3>2. NoAntes'
      BY <1>2, <2>2 DEF Mueve, SoloUno, Entra, Turnos, NoAntes
    <3>3. QED
      BY <3>1, <3>2 DEF Turnos
  <2>3. CASE ~Entra(p)
    <3>1. EnCurso(p)
      BY <1>2, <2>3 DEF Mueve, Agrega, Cachea, Sigue, Encola, EnCurso, Pc
    <3>2. DeTurno'
      BY <2>1, <3>1 DEF Turnos, DeTurno
    <3>3. Pc(p)' \notin {"inicio", "agregarCorrelativo"}
      BY <1>2, <2>3 DEF Mueve, Agrega, Cachea, Sigue, Encola
    <3>4. \A n \in Mensajes : n # p /\ n \in cache' => n \in cache
      BY <1>2, <2>3 DEF Mueve, Agrega, Cachea, Sigue, Encola
    <3>5. NoAntes'
      BY <1>2, <3>3, <3>4 DEF Mueve, SoloUno, Turnos, NoAntes
    <3>6. QED
      BY <3>2, <3>5 DEF Turnos
  <2>4. QED
    BY <2>2, <2>3
<1>3. QED
  BY <1>1, <1>2, PasosDePublicacion

(* What is confirmed is listed.                                             *)

\* The list_add of m meets no other change of its queue: that of a request is made under
\* the mutex of the queue, and nobody else publishes at the same time as a lone publisher.
SinRivales(m) == \/ Cola(m) \in Pedidos
                 \/ \A n \in Mensajes : Publicador(n) = Publicador(m)

\* From its list_add on, m is in its queue as long as it is cached.
YaListado(m) == \/ Pc(m) = "fin"
                \/ Pc(m) \in {"contar", "enviar", "anotar"} /\ Cola(m) \in Respuestas

Listados == \A m \in Mensajes :
              SinRivales(m) /\ YaListado(m) /\ m \in cache => m \in queue[Cola(m)]

LEMMA InicioListados == Init => Listados
BY DEF Init, Listados

\* The list_add is not lost.
LEMMA SinRivalesEncola ==
  ASSUME IInv, Turnos, NEW m \in Mensajes, SinRivales(m), Pc(m) = "encolar"
  PROVE  ~SinExclusion(m)
<1>1. CASE Cola(m) \in Pedidos
  BY <1>1 DEF Pedidos, Respuestas, SinExclusion
<1>2. CASE \A n \in Mensajes : Publicador(n) = Publicador(m)
  <2>1. EnCurso(m)
    BY DEF EnCurso, Pc
  <2>2. \A n \in Mensajes \ {m} : ~EnCurso(n)
    BY <1>2, <2>1 DEF Turnos, DeTurno
  <2>3. QED
    BY <2>2 DEF SinExclusion, EnCurso
<1>3. QED
  BY <1>1, <1>2 DEF SinRivales

LEMMA PasoListados ==
  ASSUME IInv, Turnos, Listados, [Next]_vars
  PROVE  Listados'
<1>0. queue \in [Colas -> SUBSET Mensajes] /\ \A m \in Mensajes : Cola(m) \in Colas
  BY ColaEnColas DEF IInv, DeMensajes
<1>1. CASE Ajeno
  BY <1>1 DEF Ajeno, Listados, YaListado
<1>2. ASSUME NEW p \in Mensajes, Mueve(p)
      PROVE  Listados'
  <2> SUFFICES ASSUME NEW m \in Mensajes, SinRivales(m), YaListado(m)', m \in cache'
               PROVE  m \in queue'[Cola(m)]
    BY DEF Listados
  <2>1. CASE m # p
    <3>1. YaListado(m)
      BY <1>2, <2>1 DEF Mueve, SoloUno, YaListado
    <3>2. m \in cache => m \in queue[Cola(m)]
      BY <3>1 DEF Listados
    <3>3. CASE Cachea(p)
      <4>1. PICK V \in SUBSET Mensajes : /\ cache' = (cache \ V) \cup ({p} \ Largos)
                                         /\ queue' = [c \in Colas |-> queue[c] \ V]
        BY <3>3 DEF Cachea
      <4>2. m \in cache /\ m \notin V
        BY <2>1, <4>1
      <4>3. QED
        BY <1>0, <3>2, <4>1, <4>2
    <3>4. CASE Encola(p)
      BY <1>0, <3>2, <3>4 DEF Encola
    <3>5. CASE Entra(p) \/ Agrega(p) \/ Sigue(p)
      BY <3>2, <3>5 DEF Entra, Agrega, Sigue
    <3>6. QED
      BY <1>2, <3>3, <3>4, <3>5 DEF Mueve
  <2>2. CASE m = p
    <3>1. CASE Entra(p)
      <4>1. m \notin cache
        BY <2>2, <3>1 DEF Entra, Turnos, NoAntes
      <4>2. QED
        BY <3>1, <4>1 DEF Entra
    <3>2. CASE Agrega(p)
      BY <2>2, <3>2 DEF Agrega, YaListado
    <3>3. CASE Cachea(p)
      BY <2>2, <3>3 DEF Cachea, YaListado
    <3>4. CASE Sigue(p)
      <4>1. Cola(m) \in Respuestas
        BY <2>2, <3>4 DEF Sigue, YaListado
      <4>2. YaListado(m) /\ m \in cache
        BY <2>2, <3>4, <4>1 DEF Sigue, YaListado
      <4>3. QED
        BY <3>4, <4>2 DEF Sigue, Listados
    <3>5. CASE Encola(p)
      <4>1. queue' = [queue EXCEPT ![Cola(m)] = @ \cup {m}]
        BY <2>2, <3>5, SinRivalesEncola DEF Encola
      <4>2. QED
        BY <1>0, <4>1
    <3>6. QED
      BY <1>2, <2>2, <3>1, <3>2, <3>3, <3>4, <3>5 DEF Mueve
  <2>3. QED
    BY <2>1, <2>2
<1>3. QED
  BY <1>1, <1>2, PasosDePublicacion

(* A message is answered once.                                              *)

\* Who answers a message does not depend on the answer.
UnSoloPublicador ==
  \A m, n \in Mensajes :
    Cola(m) = Cola(n) /\ Cola(m) \in Respuestas /\ Correlativo(m) = Correlativo(n)
      => Publicador(m) = Publicador(n)

\* A response on its way to the cache, or in it; and one that has passed
\* buscarIdCorrelativo but whose idCorrelativo is not noted yet.
Aceptada(m) == \/ Pc(m) \in {"cachear", "encolar", "contar", "enviar", "anotar"}
               \/ m \in cache
EnJuego(m) == Aceptada(m) \/ Pc(m) = "agregarCorrelativo"

\* What is answered is noted.
Contestadas == \A m \in Mensajes :
                 Cola(m) \in Respuestas /\ Aceptada(m)
                   => Correlativo(m) \in idsCorrelativos[Cola(m)]

\* Of the answers to a message, one at most has got past buscarIdCorrelativo.
UnaEnJuego == \A m, n \in Mensajes :
                /\ Cola(m) = Cola(n) /\ Cola(m) \in Respuestas
                /\ Correlativo(m) = Correlativo(n)
                /\ EnJuego(m) /\ EnJuego(n)
                => m = n

Unicas == /\ idsCorrelativos \in [Colas -> SUBSET {Correlativo(m) : m \in Mensajes}]
          /\ Contestadas
          /\ UnaEnJuego

LEMMA InicioUnicas == Init => Unicas
BY DEF Init, Unicas, Contestadas, UnaEnJuego, EnJuego, Aceptada, Pc

\* A step gets no message but its own past a place.
LEMMA AceptadaDespues ==
  ASSUME IInv, NEW p \in Mensajes, Mueve(p), NEW m \in Mensajes
  PROVE  /\ m # p /\ Aceptada(m)' => Aceptada(m)
         /\ m # p /\ EnJuego(m)' => EnJuego(m)
         /\ ~Entra(p) /\ EnJuego(m)' => EnJuego(m)
         /\ ~Entra(p) /\ ~Agrega(p) /\ Aceptada(m)' => Aceptada(m)
<1>1. \A n \in Mensajes : n # p => Pc(n)' = Pc(n)
  BY DEF Mueve, SoloUno
<1>2. CASE Entra(p)
  BY <1>1, <1>2 DEF Entra, Aceptada, EnJuego
<1>3. CASE Agrega(p)
  BY <1>1, <1>3 DEF Agrega, Aceptada, EnJuego
<1>4. CASE Cachea(p)
  <2>1. Aceptada(p)
    BY <1>4 DEF Cachea, Aceptada
  <2>2. m # p /\ m \in cache' => m \in cache
    BY <1>4 DEF Cachea
  <2>3. QED
    BY <1>1, <2>1, <2>2 DEF Aceptada, EnJuego
<1>5. CASE Sigue(p)
  BY <1>1, <1>5 DEF Sigue, Aceptada, EnJuego
<1>6. CASE Encola(p)
  BY <1>1, <1>6 DEF Encola, Aceptada, EnJuego
<1>7. QED
  BY <1>2, <1>3, <1>4, <1>5, <1>6 DEF Mueve

LEMMA PasoUnicas ==
  ASSUME UnSoloPublicador, IInv, Turnos, Unicas, [Next]_vars
  PROVE  Unicas'
<1>0. \A m \in Mensajes : Cola(m) \in Colas
  BY ColaEnColas
<1>1. CASE Ajeno
  <2>1. \A m \in Mensajes : (Aceptada(m)' <=> Aceptada(m)) /\ (EnJuego(m)' <=> EnJuego(m))
    BY <1>1 DEF Ajeno, Aceptada, EnJuego
  <2>2. QED
    BY <1>1, <2>1 DEF Ajeno, Unicas, Contestadas, UnaEnJuego
<1>2. ASSUME NEW p \in Mensajes, Mueve(p)
      PROVE  Unicas'
  <2>1. CASE Entra(p)
    <3>1. UNCHANGED idsCorrelativos
      BY <2>1 DEF Entra
    <3>2. Pc(p)' = AlRecibir(p) /\ p \notin cache /\ cache' = cache
      BY <2>1 DEF Entra, Turnos, NoAntes
    <3>3. Cola(p) \in Respuestas => ~Aceptada(p)'
      <4>1. Cola(p) \in Respuestas => AlRecibir(p) \in {"fin", "agregarCorrelativo"}
        <5>1. CASE Cola(p) \in Respuestas
          <6>1. Cola(p) # "CATCH"
            BY <5>1 DEF Respuestas
          <6>2. AlRecibir(p) = IF Correlativo(p) \in idsCorrelativos[Cola(p)]
                               THEN "fin" ELSE "agregarCorrelativo"
            BY <5>1, <6>1 DEF AlRecibir
          <6>3. QED
            BY <6>2
        <5>2. QED
          BY <5>1
      <4>2. QED
        BY <3>2, <4>1 DEF Aceptada
    <3>4. Contestadas'
      BY <1>2, <3>1, <3>3, AceptadaDespues DEF Unicas, Contestadas
    <3>5. ASSUME NEW n \in Mensajes, n # p, Cola(n) = Cola(p), Cola(p) \in Respuestas,
                 Correlativo(n) = Correlativo(p), EnJuego(n), EnJuego(p)'
          PROVE  FALSE
      <4>1. Correlativo(p) \notin idsCorrelativos[Cola(p)]
        BY <3>2, <3>3, <3>5 DEF EnJuego, AlRecibir
      <4>2. Pc(n) = "agregarCorrelativo"
        BY <3>5, <4>1 DEF EnJuego, Unicas, Contestadas
      <4>3. EnCurso(n)
        BY <4>2 DEF EnCurso, Pc
      <4>4. Publicador(n) = Publicador(p)
        BY <3>5 DEF UnSoloPublicador
      <4>5. QED
        BY <2>1, <4>3, <4>4 DEF Entra
    <3>6. \A n \in Mensajes : n # p /\ EnJuego(n)' => EnJuego(n)
      BY <1>2, AceptadaDespues
    <3>7. UnaEnJuego'
      BY <3>5, <3>6 DEF Unicas, UnaEnJuego
    <3>8. QED
      BY <3>1, <3>4, <3>7 DEF Unicas
  <2>2. CASE Agrega(p)
    <3>1. /\ idsCorrelativos' = [idsCorrelativos EXCEPT ![Cola(p)] = @ \cup {Correlativo(p)}]
          /\ ~Entra(p)
      BY <2>2 DEF Agrega, Entra
    <3>2. idsCorrelativos \in [Colas -> SUBSET {Correlativo(m) : m \in Mensajes}]
      BY DEF Unicas
    <3>3. /\ idsCorrelativos' \in [Colas -> SUBSET {Correlativo(m) : m \in Mensajes}]
          /\ \A c \in Colas : idsCorrelativos[c] \subseteq idsCorrelativos'[c]
          /\ Correlativo(p) \in idsCorrelativos'[Cola(p)]
      BY <1>0, <3>1, <3>2
    <3>4. Contestadas'
      BY <1>0, <1>2, <3>3, AceptadaDespues DEF Unicas, Contestadas
    <3>5. UnaEnJuego'
      BY <1>2, <3>1, AceptadaDespues DEF Unicas, UnaEnJuego
    <3>6. QED
      BY <3>3, <3>4, <3>5 DEF Unicas
  <2>3. CASE ~Entra(p) /\ ~Agrega(p)
    <3>1. UNCHANGED idsCorrelativos
      BY <1>2, <2>3 DEF Mueve, Cachea, Sigue, Encola
    <3>2. Contestadas'
      BY <1>2, <2>3, <3>1, AceptadaDespues DEF Unicas, Contestadas
    <3>3. UnaEnJuego'
      BY <1>2, <2>3, AceptadaDespues DEF Unicas, UnaEnJuego
    <3>4. QED
      BY <3>1, <3>2, <3>3 DEF Unicas
  <2>4. QED
    BY <2>1, <2>2, <2>3
<1>3. QED
  BY <1>1, <1>2, PasosDePublicacion

(* Nobody dereferences NULL.                                                *)

\* The case in which no handler meets a NULL.  No message is too long; none is a NEW, nor
\* a CATCH with the buddy system, whose handlers note a NULL when the subscriber has
\* reconnected; and no message under way is evicted, because a lone publisher waits for
\* each confirmation or because there is room for all.
TodosCaben == IsFiniteSet(Mensajes) /\ Cardinality(Mensajes) <= CapacidadCache
Resguardo ==
  /\ Largos = {}
  /\ \A m \in Mensajes : /\ Cola(m) # "NEW"
                         /\ Cola(m) = "CATCH" => ALGORITMO_MEMORIA # "BS"
  /\ (\A m, n \in Mensajes : Publicador(m) = Publicador(n)) \/ TodosCaben

\* A message is in the cache from its cachearMensaje to the end of its handler.
SinCachear(m) == \/ Pc(m) \in {"inicio", "agregarCorrelativo", "cachear"}
                 \/ Pc(m) = "contar" /\ Cola(m) = "CATCH"
Cacheado(m) == ~SinCachear(m) /\ Pc(m) # "fin"
EnCache == \A m \in Mensajes : /\ SinCachear(m) => m \notin cache
                               /\ Cacheado(m) => m \in cache

\* No partition has noted a NULL as a subscriber.
SinNulos == \A m \in Mensajes : Nadie \notin Rango(enviado[m])

LEMMA InicioSinCaida == Init => EnCache /\ SinNulos /\ NoCae
BY DEF Init, EnCache, SinCachear, Cacheado, Pc, SinNulos, Rango, NoCae

\* With room for all nobody is a victim.
LEMMA SinVictimas ==
  ASSUME TodosCaben, IInv, NEW m \in Mensajes, m \notin cache, NEW V \in Victimas(m)
  PROVE  V = {}
<1>1. cache \subseteq Mensajes \ {m}
  BY DEF IInv, DeMensajes
<1>2. /\ IsFiniteSet(Mensajes \ {m})
      /\ Cardinality(Mensajes \ {m}) = Cardinality(Mensajes) - 1
      /\ Cardinality(Mensajes) \in Nat
  BY FS_RemoveElement, FS_CardinalityType DEF TodosCaben
<1>3. Cardinality(cache) \in Nat /\ Cardinality(cache) <= Cardinality(Mensajes \ {m})
  <2>1. IsFiniteSet(cache) /\ Cardinality(cache) <= Cardinality(Mensajes \ {m})
    BY <1>1, <1>2, FS_Subset
  <2>2. QED
    BY <2>1, FS_CardinalityType
<1>4. Cardinality(cache) < CapacidadCache
  BY <1>2, <1>3, BrokerAssumption DEF TodosCaben
<1>5. QED
  BY <1>4 DEF Victimas

\* No eviction takes a message whose handler has not ended.
LEMMA PasoEnCache ==
  ASSUME Resguardo, IInv, Turnos, EnCache, [Next]_vars
  PROVE  EnCache'
<1>1. CASE Ajeno
  BY <1>1 DEF Ajeno, EnCache, SinCachear, Cacheado
<1>2. ASSUME NEW p \in Mensajes, Mueve(p)
      PROVE  EnCache'
  <2>0. \A m \in Mensajes : m # p => Pc(m)' = Pc(m)
    BY <1>2 DEF Mueve, SoloUno
  <2>1. CASE Entra(p)
    <3>1. Pc(p)' = AlRecibir(p) /\ SinCachear(p) /\ cache' = cache
      BY <2>1 DEF Entra, SinCachear
    <3>2. AlRecibir(p) \in {"fin", "agregarCorrelativo", "contar", "cachear"}
          /\ (AlRecibir(p) = "contar" => Cola(p) = "CATCH")
      BY DEF AlRecibir
    <3>3. QED
      BY <2>0, <3>1, <3>2 DEF EnCache, SinCachear, Cacheado
  <2>2. CASE Agrega(p)
    BY <2>0, <2>2 DEF Agrega, EnCache, SinCachear, Cacheado
  <2>3. CASE Cachea(p)
    <3>1. Pc(p) = "cachear" /\ Cacheado(p)'
      BY <2>3 DEF Cachea, SinCachear, Cacheado
    <3>2. PICK V \in SUBSET Mensajes : V \in Victimas(p) /\ cache' = (cache \ V) \cup {p}
      BY <2>3 DEF Cachea, Resguardo
    <3>3. p \notin cache
      <4>1. SinCachear(p)
        BY <3>1 DEF SinCachear
      <4>2. QED
        BY <4>1 DEF EnCache
    <3>4. ASSUME NEW m \in Mensajes, m # p, Cacheado(m)
          PROVE  m \notin V
      <4>1. CASE TodosCaben
        BY <3>2, <3>3, <4>1, SinVictimas
      <4>2. CASE \A k, n \in Mensajes : Publicador(k) = Publicador(n)
        <5>1. EnCurso(m) /\ EnCurso(p)
          BY <3>1, <3>4 DEF EnCurso, Cacheado, SinCachear, Pc
        <5>2. QED
          BY <3>4, <4>2, <5>1 DEF Turnos, DeTurno
      <4>3. QED
        BY <4>1, <4>2 DEF Resguardo
    <3>5. \A m \in Mensajes : m # p => (SinCachear(m)' <=> SinCachear(m))
                                     /\ (Cacheado(m)' <=> Cacheado(m))
      BY <2>0 DEF SinCachear, Cacheado
    <3>6. ASSUME NEW m \in Mensajes
          PROVE  (SinCachear(m)' => m \notin cache') /\ (Cacheado(m)' => m \in cache')
      <4>1. CASE m = p
        BY <3>1, <3>2, <4>1 DEF Cacheado
      <4>2. CASE m # p
        <5>1. SinCachear(m) => m \notin cache'
          BY <3>2, <4>2 DEF EnCache
        <5>2. Cacheado(m) => m \in cache'
          BY <3>2, <3>4, <4>2 DEF EnCache
        <5>3. QED
          BY <3>5, <4>2, <5>1, <5>2
      <4>3. QED
        BY <4>1, <4>2
    <3>7. QED
      BY <3>6 DEF EnCache
  <2>4. CASE Sigue(p)
    <3>1. cache' = cache /\ (SinCachear(p)' <=> SinCachear(p))
          /\ (Cacheado(p)' => Cacheado(p))
      BY <2>4 DEF Sigue, SinCachear, Cacheado
    <3>2. QED
      BY <2>0, <3>1 DEF EnCache, SinCachear, Cacheado
  <2>5. CASE Encola(p)
    <3>1. cache' = cache /\ Cacheado(p) /\ ~SinCachear(p)'
      BY <2>5 DEF Encola, SinCachear, Cacheado, Respuestas
    <3>2. QED
      BY <2>0, <3>1 DEF EnCache, SinCachear, Cacheado
  <2>6. QED
    BY <1>2, <2>1, <2>2, <2>3, <2>4, <2>5 DEF Mueve
<1>3. QED
  BY <1>1, <1>2, PasosDePublicacion

\* What a list holds after an Append.
LEMMA RangoDeAppend ==
  ASSUME NEW R, NEW l \in Seq(R), NEW x
  PROVE  Rango(Append(l, x)) \subseteq Rango(l) \cup {x}
<1>1. DOMAIN l = 1..Len(l) /\ Len(l) \in Nat
  OBVIOUS
<1>2. /\ DOMAIN Append(l, x) = 1 .. Len(l) + 1
      /\ Append(l, x)[Len(l) + 1] = x
      /\ \A i \in 1..Len(l) : Append(l, x)[i] = l[i]
  OBVIOUS
<1>3. \A i \in 1 .. Len(l) + 1 : i \in 1..Len(l) \/ i = Len(l) + 1
  BY <1>1
<1>4. QED
  BY <1>1, <1>2, <1>3 DEF Rango

\* A NULL is met only where one has been noted.
LEMMA SinTropiezo ==
  ASSUME SinNulos, NEW m \in Mensajes, NEW u
  PROVE  ~TropiezaCon(enviado[m], u)
BY DEF SinNulos, TropiezaCon, Lista, Rango

LEMMA PasoSinNulos ==
  ASSUME Resguardo, IInv, SinNulos, [Next]_vars
  PROVE  SinNulos'
<1>0. \A m \in Mensajes : enviado[m] \in Seq(Suscriptores \cup {Nadie})
  BY DEF IInv, DeMensajes
<1>1. CASE UNCHANGED enviado
  BY <1>1 DEF SinNulos, Rango
<1>2. ASSUME NEW p \in Mensajes, Cachear(p)
      PROVE  SinNulos'
  <2>1. \A m \in Mensajes : enviado'[m] \in {<<>>, enviado[m]}
    BY <1>2 DEF Cachear
  <2>2. Rango(<<>>) = {}
    BY DEF Rango
  <2>3. ASSUME NEW m \in Mensajes
        PROVE  Nadie \notin Rango(enviado'[m])
    BY <2>1, <2>2 DEF SinNulos
  <2>4. QED
    BY <2>3 DEF SinNulos
<1>3. ASSUME NEW p \in Mensajes, AnotarEnviado(p)
      PROVE  SinNulos'
  <2> DEFINE sub == PorSocket(Cola(p), hilo[p].socket)
  <2>1. enviado' = IF Anota(p, sub) THEN [enviado EXCEPT ![p] = Append(@, sub)] ELSE enviado
    BY <1>3 DEF AnotarEnviado
  <2> HIDE DEF sub
  <2>2. Anota(p, sub) => sub # Nadie
    <3>1. Cola(p) # "NEW" /\ (Cola(p) = "CATCH" => ALGORITMO_MEMORIA # "BS")
      BY DEF Resguardo
    <3>2. QED
      BY <3>1 DEF Anota
  <2>3. ASSUME NEW m \in Mensajes
        PROVE  Nadie \notin Rango(enviado'[m])
    <3>1. CASE Anota(p, sub) /\ m = p
      <4>1. enviado'[m] = Append(enviado[m], sub)
        BY <2>1, <3>1 DEF IInv, DeMensajes
      <4>2. Rango(Append(enviado[m], sub)) \subseteq Rango(enviado[m]) \cup {sub}
        BY <1>0, RangoDeAppend
      <4>3. QED
        BY <2>2, <3>1, <4>1, <4>2 DEF SinNulos
    <3>2. CASE ~(Anota(p, sub) /\ m = p)
      <4>1. enviado'[m] = enviado[m]
        BY <2>1, <3>2 DEF IInv, DeMensajes
      <4>2. QED
        BY <4>1 DEF SinNulos
    <3>3. QED
      BY <3>1, <3>2
  <2>4. QED
    BY <2>3 DEF SinNulos
<1>4. ASSUME NEW s \in Sockets, EnviarUltimosMensajesRecibidos(s)
      PROVE  SinNulos'
  <2> DEFINE u == conexion[s].sub
  <2>1. /\ conexion[s].pc = "ultimos"
        /\ enviado' = [m \in Mensajes |-> IF m \in Pendientes(u) /\ u \notin Rango(enviado[m])
                                          THEN Append(enviado[m], u) ELSE enviado[m]]
    BY <1>4 DEF EnviarUltimosMensajesRecibidos
  <2>2. u # Nadie
    BY <2>1, BrokerAssumption DEF IInv, DeClientes
  <2> HIDE DEF u
  <2>3. ASSUME NEW m \in Mensajes
        PROVE  Nadie \notin Rango(enviado'[m])
    <3>1. Rango(Append(enviado[m], u)) \subseteq Rango(enviado[m]) \cup {u}
      BY <1>0, RangoDeAppend
    <3>2. Nadie \notin Rango(enviado[m])
      BY DEF SinNulos
    <3>3. enviado'[m] = Append(enviado[m], u) \/ enviado'[m] = enviado[m]
      BY <2>1
    <3>4. QED
      BY <2>2, <3>1, <3>2, <3>3
  <2>4. QED
    BY <2>3 DEF SinNulos
<1>5. ASSUME NEW m \in Mensajes, Recibir(m) \/ Publicacion(m)
      PROVE  SinNulos'
  <2>1. Cachear(m) \/ AnotarEnviado(m) \/ UNCHANGED enviado
    BY <1>5 DEF Publicacion, Recibir, AgregarIdCorrelativo, Encolar, ContarSuscriptores,
                LanzarEnvio, delMensaje
  <2>2. QED
    BY <1>1, <1>2, <1>3, <2>1
<1>6. ASSUME NEW s \in Sockets, Atencion(s) \/ Desconectar(s)
      PROVE  SinNulos'
  <2>1. EnviarUltimosMensajesRecibidos(s) \/ UNCHANGED enviado
    BY <1>6 DEF Atencion, AgregarSuscripcion, Cerrar, Desconectar, delMensaje
  <2>2. QED
    BY <1>1, <1>4, <2>1
<1>7. ASSUME \/ \E e \in envios : EnviarMensaje(e)
             \/ \E a \in confirmaciones : Confirmacion(a)
             \/ \E u \in Suscriptores, s \in Sockets : Conectar(u, s)
             \/ UNCHANGED vars
      PROVE  UNCHANGED enviado
  BY <1>7 DEF EnviarMensaje, Confirmacion, Conectar, delMensaje, vars
<1>8. QED
  BY <1>1, <1>5, <1>6, <1>7 DEF Next

LEMMA PasoNoCae ==
  ASSUME Resguardo, IInv, EnCache, SinNulos, NoCae, [Next]_vars
  PROVE  NoCae'
<1>1. ASSUME NEW m \in Mensajes, AnotarEnviado(m)
      PROVE  ~caido'
  <2> DEFINE sub == PorSocket(Cola(m), hilo[m].socket)
  <2>1. caido' = Revienta(m, sub) /\ Pc(m) = "anotar"
    BY <1>1 DEF AnotarEnviado, Pc
  <2>2. m \in cache
    BY <2>1 DEF EnCache, Cacheado, SinCachear
  <2> HIDE DEF sub
  <2>3. Cola(m) # "NEW"
    BY DEF Resguardo
  <2>4. QED
    BY <2>1, <2>2, <2>3 DEF Revienta
<1>2. ASSUME NEW s \in Sockets, EnviarUltimosMensajesRecibidos(s)
      PROVE  ~caido'
  <2>1. caido' = \E m \in Pendientes(conexion[s].sub) : TropiezaCon(enviado[m], conexion[s].sub)
    BY <1>2 DEF EnviarUltimosMensajesRecibidos
  <2>2. Pendientes(conexion[s].sub) \subseteq Mensajes
    BY DEF Pendientes, IInv, DeMensajes
  <2>3. QED
    BY <2>1, <2>2, SinTropiezo
<1>3. ASSUME NEW a \in confirmaciones, Confirmacion(a)
      PROVE  ~caido'
  <2>1. caido' = (a.mensaje \in cache /\ TropiezaCon(enviado[a.mensaje], a.id))
    BY <1>3 DEF Confirmacion
  <2>2. a.mensaje \in Mensajes
    BY DEF IInv, DeClientes
  <2>3. QED
    BY <2>1, <2>2, SinTropiezo
<1>4. ASSUME NEW m \in Mensajes, Recibir(m) \/ Publicacion(m)
      PROVE  AnotarEnviado(m) \/ UNCHANGED caido
  BY <1>4 DEF Publicacion, Recibir, AgregarIdCorrelativo, Cachear, Encolar, ContarSuscriptores,
              LanzarEnvio
<1>5. ASSUME NEW s \in Sockets, Atencion(s) \/ Desconectar(s)
      PROVE  EnviarUltimosMensajesRecibidos(s) \/ UNCHANGED caido
  BY <1>5 DEF Atencion, AgregarSuscripcion, Cerrar, Desconectar
<1>6. ASSUME \/ \E e \in envios : EnviarMensaje(e)
             \/ \E u \in Suscriptores, s \in Sockets : Conectar(u, s)
             \/ UNCHANGED vars
      PROVE  UNCHANGED caido
  BY <1>6 DEF EnviarMensaje, Conectar, vars
<1>7. QED
  BY <1>1, <1>2, <1>3, <1>4, <1>5, <1>6 DEF Next, NoCae

------------------------------------------------------------------------------
LEMMA Tipos == IInv => TypeOK
<1> SUFFICES ASSUME IInv PROVE TypeOK
  OBVIOUS
<1>1. \A m \in Mensajes : Rango(enviado[m]) \subseteq Suscriptores \cup {Nadie}
  <2> SUFFICES ASSUME NEW m \in Mensajes, NEW i \in DOMAIN enviado[m]
               PROVE  enviado[m][i] \in Suscriptores \cup {Nadie}
    BY DEF Rango
  <2>1. enviado[m] \in Seq(Suscriptores \cup {Nadie})
    BY DEF IInv, DeMensajes
  <2>2. DOMAIN enviado[m] = 1..Len(enviado[m])
    BY <2>1
  <2>3. QED
    BY <2>1, <2>2, ElementoDeSeq
<1>2. \A c \in Colas : \A i \in DOMAIN suscriptores[c] : suscriptores[c][i].socket \in Sockets
  <2> SUFFICES ASSUME NEW c \in Colas, NEW i \in DOMAIN suscriptores[c]
               PROVE  suscriptores[c][i].socket \in Sockets
    OBVIOUS
  <2>1. suscriptores[c] \in Seq([id : Suscriptores, socket : Sockets])
    BY DEF IInv, DeListas
  <2>2. DOMAIN suscriptores[c] = 1..Len(suscriptores[c])
    BY <2>1
  <2>3. suscriptores[c][i] \in [id : Suscriptores, socket : Sockets]
    BY <2>1, <2>2, ElementoDeSeq
  <2>4. QED
    BY <2>3
<1>3. \A m \in Mensajes : ack[m] \subseteq Suscriptores
  BY DEF IInv, DeMensajes
<1>4. \A c \in Colas : queue[c] \subseteq {m \in Mensajes : Cola(m) = c}
  BY DEF IInv, DeMensajes
<1>5. QED
  BY <1>1, <1>2, <1>3, <1>4 DEF TypeOK, IInv, DeMensajes, DeListas

(* The theorems.                                                            *)

\* The inductive invariant holds: lists only grow, handlers stay within what they have
\* counted and nobody confirms what it has not received.
THEOREM Invariante == Spec => []IInv
<1>1. QED
  BY InicioIInv, PasoIInv, PTL DEF Spec

\* Each list of subscribers holds each one once, and each queue only its own messages,
\* however often subscribers reconnect (l.850-943 of broker.c).
THEOREM TiposCorrectos == Spec => []TypeOK
<1>1. QED
  BY Invariante, Tipos, PTL

\* A subscriber in suscriptoresACK has received the message: what is never sent again has
\* arrived, for any interleaving of sends, evictions and reconnections (l.981, l.1039).
THEOREM ConfirmadoEsRecibido == Spec => []AckImplicaRecibido
<1>1. IInv => AckImplicaRecibido
  BY DEF IInv
<1>2. QED
  BY Invariante, <1>1, PTL

\* A publisher has one message under way, and no message is cached before its turn.
THEOREM UnoPorPublicador == Spec => []Turnos
<1>1. IInv /\ Turnos /\ [Next]_vars => Turnos'
  BY PasoTurnos
<1>2. QED
  BY Invariante, InicioTurnos, <1>1, PTL DEF Spec

\* A request that has been confirmed and is still cached is in its queue, and so is a
\* response when there is a lone publisher: with two, the list_add of a response, made
\* without the mutex of its queue, may be lost (l.224 of broker.c).
THEOREM ConfirmadosListados ==
  ASSUME \A m \in Mensajes : SinRivales(m)
  PROVE  Spec => []ConfirmadoListado
<1>1. IInv /\ Turnos /\ Listados /\ [Next]_vars => Listados'
  BY PasoListados
<1>2. Listados => ConfirmadoListado
  BY DEF Listados, ConfirmadoListado, YaListado, Pc
<1>3. QED
  BY Invariante, UnoPorPublicador, InicioListados, <1>1, <1>2, PTL DEF Spec

\* Two answers to one message are never both cached when the same client publishes them:
\* buscarIdCorrelativo and agregarIdCorrelativo are two critical sections, and only the
\* turns of the publisher keep them together (l.198, l.207 of broker.c).
THEOREM UnaSolaRespuesta ==
  ASSUME UnSoloPublicador
  PROVE  Spec => []RespuestaUnica
<1>1. IInv /\ Turnos /\ Unicas /\ [Next]_vars => Unicas'
  BY PasoUnicas
<1>2. IInv /\ Unicas => RespuestaUnica
  BY DEF IInv, DeMensajes, Unicas, UnaEnJuego, EnJuego, Aceptada, RespuestaUnica
<1>3. QED
  BY Invariante, UnoPorPublicador, InicioUnicas, <1>1, <1>2, PTL DEF Spec

\* No lookup by id or by socket yields a NULL that is then used, however subscribers come,
\* go and come back during the sends and their confirmations, for messages that fit, of
\* the kinds whose handlers check the subscriber, none of them evicted under way
\* (l.133-137, l.760, l.1008 of broker.c).
THEOREM NuncaCae ==
  ASSUME Resguardo
  PROVE  Spec => []NoCae
<1>1. IInv /\ Turnos /\ EnCache /\ [Next]_vars => EnCache'
  BY PasoEnCache
<1>2. Spec => []EnCache
  BY Invariante, UnoPorPublicador, InicioSinCaida, <1>1, PTL DEF Spec
<1>3. IInv /\ SinNulos /\ [Next]_vars => SinNulos'
  BY PasoSinNulos
<1>4. Spec => []SinNulos
  BY Invariante, InicioSinCaida, <1>3, PTL DEF Spec
<1>5. IInv /\ EnCache /\ SinNulos /\ NoCae /\ [Next]_vars => NoCae'
  BY PasoNoCae
<1>6. QED
  BY Invariante, InicioSinCaida, <1>2, <1>4, <1>5, PTL DEF Spec
==============================================================================
