-------------------------------- MODULE Broker --------------------------------
(****************************************************************************)
(* Publication, delivery and subscription in the Broker                     *)
(* (Broker/src/broker.c, with the queues of colasDeMensajes.c).             *)
(*                                                                          *)
(* Every connection has a thread of its own (handler_clients) and every     *)
(* send to a subscriber another one (handler_envio_mensajes).  An action is *)
(* what one of them does from one critical section to the next, the nested  *)
(* ones included: mutexMemoria, then mutexSuscriptores, then mutexQueue are *)
(* held together or one by one, and who may wait for whom is the business   *)
(* of Mutexes.                                                              *)
(*                                                                          *)
(* The message cache is CacheMensajes at the grain of whole messages: room  *)
(* for CapacidadCache of them, a long one is never cached, and any cached   *)
(* message may be the next victim (its order is the business of Particiones *)
(* and Buddy).  A NULL dereference ends the Broker: caido.                  *)
(* Mal... are plausible mistakes in the definition below them.              *)
(****************************************************************************)
EXTENDS Integers, Sequences, FiniteSets

CONSTANTS Mensajes,        \* the messages published, named by their id_mensaje
          Cola(_),         \* NEW, APPEARED, ...: the queue a message or subscriber is for
          Correlativo(_),  \* idCorrelativo of a response
          Publicador(_),   \* the thread of a client that publishes a message
          Largos,          \* messages longer than TAMANO_MEMORIA
          CapacidadCache,
          ALGORITMO_MEMORIA,  \* "PARTICIONES" or "BS"
          Suscriptores,    \* a process and the queue it subscribes to
          Sockets,         \* descriptors the Broker accepts subscribers on
          MaxConexiones,   \* bound: connections made by all the subscribers
          Nadie

Pedidos    == {"NEW", "GET", "CATCH"}
Respuestas == {"APPEARED", "LOCALIZED", "CAUGHT"}
Colas      == Pedidos \cup Respuestas

ASSUME BrokerAssumption ==
  /\ \A x \in Mensajes \cup Suscriptores : Cola(x) \in Colas
  /\ Largos \subseteq Mensajes
  /\ CapacidadCache \in Nat \ {0}
  /\ ALGORITMO_MEMORIA \in {"PARTICIONES", "BS"}
  /\ MaxConexiones \in Nat
  /\ Nadie \notin Mensajes \cup Suscriptores \cup Sockets

VARIABLES
  cache,          \* messages with an occupied partition
  enviado,        \* suscriptoresMensajeEnviado of each message's partition
  ack,            \* suscriptoresACK of each message's partition
  suscriptores,   \* <cola>_admin->suscriptores
  queue,          \* <cola>_admin->queue
  idsCorrelativos,
  hilo,           \* the thread that handles the publication of each message
  conexion,       \* the thread that serves each subscriber's socket
  envios,         \* handler_envio_mensajes threads that have not sent yet
  confirmaciones, \* CONFIRMACION messages on their way to the Broker
  recibidos,      \* messages each subscriber has received
  conexiones,     \* connections the subscribers have made
  caido

delMensaje == <<enviado, ack>>
delCliente == <<confirmaciones, recibidos, conexiones>>
listas     == <<suscriptores, queue, idsCorrelativos>>
vars == <<cache, enviado, ack, suscriptores, queue, idsCorrelativos, hilo, conexion, envios,
          confirmaciones, recibidos, conexiones, caido>>

Rango(s) == {s[i] : i \in DOMAIN s}

Cerrada == [sub |-> Nadie, pc |-> "cerrada", viva |-> FALSE]

Init ==
  /\ cache = {}
  /\ enviado = [m \in Mensajes |-> <<>>]
  /\ ack = [m \in Mensajes |-> {}]
  /\ suscriptores = [c \in Colas |-> <<>>]
  /\ queue = [c \in Colas |-> {}]
  /\ idsCorrelativos = [c \in Colas |-> {}]
  /\ hilo = [m \in Mensajes |-> [pc |-> "inicio", sizeCola |-> 0, indice |-> 1, socket |-> Nadie]]
  /\ conexion = [s \in Sockets |-> Cerrada]
  /\ envios = {}
  /\ confirmaciones = {}
  /\ recibidos = [u \in Suscriptores |-> {}]
  /\ conexiones = 0
  /\ caido = FALSE

Ir(m, pc) == hilo' = [hilo EXCEPT ![m].pc = pc]

\* A publishing thread of a client sends a message once its previous one has been confirmed.
EnCurso(m) == hilo[m].pc \notin {"inicio", "fin"}

(****************************************************************************)
(* handler_clients: the cases of the six kinds of message.                  *)
(****************************************************************************)
\* buscarIdCorrelativo: a response to something already answered is only confirmed.
\* CATCH counts its subscribers before it caches, the others after.
AlRecibir(m) ==
  CASE Cola(m) \in Respuestas -> IF Correlativo(m) \in idsCorrelativos[Cola(m)]
                                 THEN "fin" ELSE "agregarCorrelativo"
    [] Cola(m) = "CATCH"      -> "contar"
    [] OTHER                  -> "cachear"

Recibir(m) ==
  /\ ~caido
  /\ hilo[m].pc = "inicio"
  /\ \A n \in Mensajes : Publicador(n) = Publicador(m) => ~EnCurso(n)
  /\ Ir(m, AlRecibir(m))
  /\ UNCHANGED <<cache, delMensaje, listas, conexion, envios, delCliente, caido>>

MalAgregarIdCorrelativo(m) ==
  /\ ~caido
  /\ hilo[m].pc = "agregarCorrelativo"
  /\ Ir(m, "cachear")
  /\ UNCHANGED <<cache, delMensaje, listas, conexion, envios, delCliente, caido>>
AgregarIdCorrelativo(m) ==
  /\ ~caido
  /\ hilo[m].pc = "agregarCorrelativo"
  /\ idsCorrelativos' = [idsCorrelativos EXCEPT ![Cola(m)] = @ \cup {Correlativo(m)}]
  /\ Ir(m, "cachear")
  /\ UNCHANGED <<cache, delMensaje, suscriptores, queue, conexion, envios, delCliente, caido>>

\* The turns of the loop that remain, from indice i of n subscribers, and what follows it:
\* a response was listed in its queue before the loop, a request is after it.
MalVuelta(m, i, n) == CASE i < n                -> "enviar"
                        [] Cola(m) \in Respuestas -> "fin"
                        [] OTHER                  -> "encolar"
Vuelta(m, i, n) == CASE i <= n               -> "enviar"
                     [] Cola(m) \in Respuestas -> "fin"
                     [] OTHER                  -> "encolar"

MalTrasCachear(m) == IF Cola(m) = "CATCH" THEN Vuelta(m, 1, hilo[m].sizeCola) ELSE "contar"
TrasCachear(m) == CASE Cola(m) \in Respuestas -> "encolar"
                    [] Cola(m) = "CATCH"      -> Vuelta(m, 1, hilo[m].sizeCola)
                    [] OTHER                  -> "contar"

\* cachearMensaje, under mutexMemoria: nothing for a message that is too long.  A victim's
\* partition is emptied and its id leaves its queue (eliminarIdCola).
Victimas(m) == IF m \in Largos \/ Cardinality(cache) < CapacidadCache THEN {{}}
               ELSE {{v} : v \in cache}

Cachear(m) ==
  /\ ~caido
  /\ hilo[m].pc = "cachear"
  /\ \E V \in Victimas(m) :
       /\ cache' = (cache \ V) \cup ({m} \ Largos)
       /\ enviado' = [v \in Mensajes |-> IF v \in V THEN <<>> ELSE enviado[v]]
       /\ ack' = [v \in Mensajes |-> IF v \in V THEN {} ELSE ack[v]]
       /\ queue' = [c \in Colas |-> queue[c] \ V]
  /\ Ir(m, TrasCachear(m))
  /\ UNCHANGED <<suscriptores, idsCorrelativos, conexion, envios, delCliente, caido>>

\* list_size of the subscribers.
ContarSuscriptores(m) ==
  /\ ~caido
  /\ hilo[m].pc = "contar"
  /\ LET n == Len(suscriptores[Cola(m)])
     IN  hilo' = [hilo EXCEPT ![m].sizeCola = n,
                              ![m].pc = IF Cola(m) = "CATCH" THEN "cachear" ELSE Vuelta(m, 1, n)]
  /\ UNCHANGED <<cache, delMensaje, listas, conexion, envios, delCliente, caido>>

\* One turn of the loop: read the subscriber at indice and start a thread to send to it.
LanzarEnvio(m) ==
  /\ ~caido
  /\ hilo[m].pc = "enviar"
  /\ LET socket == suscriptores[Cola(m)][hilo[m].indice].socket
     IN  /\ envios' = envios \cup {[mensaje |-> m, socket |-> socket]}
         /\ hilo' = [hilo EXCEPT ![m].socket = socket, ![m].pc = "anotar"]
  /\ UNCHANGED <<cache, delMensaje, listas, conexion, delCliente, caido>>

\* list_find by socket: the first subscriber with it, NULL (Nadie) if it has changed.
PorSocket(c, s) ==
  LET con == {i \in DOMAIN suscriptores[c] : suscriptores[c][i].socket = s}
  IN  IF con = {} THEN Nadie
      ELSE suscriptores[c][CHOOSE i \in con : \A j \in con : i <= j].id

\* What the code does with the partition and the subscriber it has just looked up.  Only
\* CATCH with the buddy system checks the partition; NEW never checks the subscriber, and
\* with the buddy system it copies it.
Revienta(m, sub) ==
  CASE Cola(m) = "NEW" -> m \notin cache \/ (ALGORITMO_MEMORIA = "BS" /\ sub = Nadie)
    [] Cola(m) = "CATCH" /\ ALGORITMO_MEMORIA = "BS" -> FALSE
    [] OTHER -> m \notin cache /\ sub # Nadie

MalAnota(m, sub) == m \in cache
Anota(m, sub) ==
  /\ m \in cache
  /\ \/ sub # Nadie
     \/ Cola(m) = "NEW"
     \/ Cola(m) = "CATCH" /\ ALGORITMO_MEMORIA = "BS"

MalAnotarEnviado(m) ==
  /\ ~caido
  /\ hilo[m].pc = "anotar"
  /\ LET sub == PorSocket(Cola(m), hilo[m].socket)
     IN  /\ caido' = Revienta(m, sub)
         /\ enviado' = IF Anota(m, sub) THEN [enviado EXCEPT ![m] = Append(@, sub)] ELSE enviado
  /\ Ir(m, Vuelta(m, hilo[m].indice, hilo[m].sizeCola))
  /\ UNCHANGED <<cache, ack, listas, conexion, envios, delCliente>>
\* ... then note in the partition that it was sent to whoever has that socket by now.
AnotarEnviado(m) ==
  /\ ~caido
  /\ hilo[m].pc = "anotar"
  /\ LET sub == PorSocket(Cola(m), hilo[m].socket)
     IN  /\ caido' = Revienta(m, sub)
         /\ enviado' = IF Anota(m, sub) THEN [enviado EXCEPT ![m] = Append(@, sub)] ELSE enviado
  /\ hilo' = [hilo EXCEPT ![m].indice = @ + 1,
                          ![m].pc = Vuelta(m, hilo[m].indice + 1, hilo[m].sizeCola)]
  /\ UNCHANGED <<cache, ack, listas, conexion, envios, delCliente>>

\* The queues of responses are changed without their mutex: the list_add of m may be
\* lost to another one of the same queue, or to the list_remove of an eviction from it.
SinExclusion(m) ==
  /\ Cola(m) \in Respuestas
  /\ \E n \in Mensajes \ {m} :
       \/ hilo[n].pc = "encolar" /\ Cola(n) = Cola(m)
       \/ hilo[n].pc = "cachear" /\ \E V \in Victimas(n) : V \cap queue[Cola(m)] # {}

MalEncolar(m) ==
  /\ ~caido
  /\ hilo[m].pc = "encolar"
  /\ Ir(m, IF Cola(m) \in Respuestas THEN "contar" ELSE "fin")
  /\ UNCHANGED <<cache, delMensaje, listas, conexion, envios, delCliente, caido>>
\* The id is listed for later subscribers; requests are confirmed right after.
Encolar(m) ==
  /\ ~caido
  /\ hilo[m].pc = "encolar"
  /\ \/ queue' = [queue EXCEPT ![Cola(m)] = @ \cup {m}]
     \/ SinExclusion(m) /\ UNCHANGED queue
  /\ Ir(m, IF Cola(m) \in Respuestas THEN "contar" ELSE "fin")
  /\ UNCHANGED <<cache, delMensaje, suscriptores, idsCorrelativos, conexion, envios,
                 delCliente, caido>>

(****************************************************************************)
(* handler_envio_mensajes: the message reaches whoever has the socket now.  *)
(****************************************************************************)
\* The subscriber on the other side of socket s receives the messages M and confirms them.
Recibe(s, M) ==
  LET u == conexion[s].sub
  IN  IF conexion[s].viva
      THEN /\ recibidos' = [recibidos EXCEPT ![u] = @ \cup M]
           /\ confirmaciones' = confirmaciones \cup {[mensaje |-> m, id |-> u] : m \in M}
      ELSE UNCHANGED <<recibidos, confirmaciones>>

EnviarMensaje(e) ==
  /\ ~caido
  /\ envios' = envios \ {e}
  /\ Recibe(e.socket, {e.mensaje})
  /\ UNCHANGED <<cache, delMensaje, listas, hilo, conexion, conexiones, caido>>

(****************************************************************************)
(* SUSCRIPCION: agregarSuscripcion, then enviarUltimosMensajesRecibidos.    *)
(****************************************************************************)
IrConexion(s, pc) == conexion' = [conexion EXCEPT ![s].pc = pc]
ColaDe(s) == Cola(conexion[s].sub)

\* buscarSuscriptor by id: a known subscriber gets its new socket, a new one is added.
MalSuscripta(lista, u, s) == Append(lista, [id |-> u, socket |-> s])
Suscripta(lista, u, s) ==
  IF \E i \in DOMAIN lista : lista[i].id = u
  THEN [i \in DOMAIN lista |-> IF lista[i].id = u THEN [id |-> u, socket |-> s] ELSE lista[i]]
  ELSE Append(lista, [id |-> u, socket |-> s])

AgregarSuscripcion(s) ==
  /\ ~caido
  /\ conexion[s].pc = "suscribir"
  /\ suscriptores' = [suscriptores EXCEPT ![ColaDe(s)] = Suscripta(@, conexion[s].sub, s)]
  /\ IrConexion(s, "ultimos")
  /\ UNCHANGED <<cache, delMensaje, queue, idsCorrelativos, hilo, envios, delCliente, caido>>

\* list_find by id in a list that may hold NULL: it is dereferenced if met first.
Lista(l) == {i \in DOMAIN l : l[i] = Nadie}
TropiezaCon(l, u) == \E i \in Lista(l) : \A j \in 1..i : l[j] # u

\* The messages that are listed, still cached and not confirmed by u.
Pendientes(u) == {m \in queue[Cola(u)] \cap cache : u \notin ack[m]}

EnviarUltimosMensajesRecibidos(s) ==
  LET u == conexion[s].sub
  IN  /\ ~caido
      /\ conexion[s].pc = "ultimos"
      /\ Recibe(s, Pendientes(u))
      /\ enviado' = [m \in Mensajes |-> IF m \in Pendientes(u) /\ u \notin Rango(enviado[m])
                                        THEN Append(enviado[m], u) ELSE enviado[m]]
      /\ caido' = \E m \in Pendientes(u) : TropiezaCon(enviado[m], u)
      /\ IrConexion(s, "recibir")
      /\ UNCHANGED <<cache, ack, listas, hilo, envios, conexiones>>

(****************************************************************************)
(* CONFIRMACION, from whatever connection it comes.                         *)
(****************************************************************************)
MalConfirmacion(a) ==
  /\ ~caido
  /\ confirmaciones' = confirmaciones \ {a}
  /\ ack' = IF a.mensaje \in cache THEN [ack EXCEPT ![a.mensaje] = Rango(enviado[a.mensaje])]
            ELSE ack
  /\ UNCHANGED <<cache, enviado, listas, hilo, conexion, envios, recibidos, conexiones,
                 caido>>
Confirmacion(a) ==
  /\ ~caido
  /\ confirmaciones' = confirmaciones \ {a}
  /\ ack' = IF a.mensaje \in cache /\ a.id \in Rango(enviado[a.mensaje])
            THEN [ack EXCEPT ![a.mensaje] = @ \cup {a.id}] ELSE ack
  /\ caido' = (a.mensaje \in cache /\ TropiezaCon(enviado[a.mensaje], a.id))
  /\ UNCHANGED <<cache, enviado, listas, hilo, conexion, envios, recibidos, conexiones>>

(****************************************************************************)
(* The subscribers' side: they connect, and reconnect when they lose the    *)
(* connection.  recv_message closes the socket of a client that has gone,   *)
(* and accept may give its number to the next one.                          *)
(****************************************************************************)
Conectada(u) == \E s \in Sockets : conexion[s].sub = u /\ conexion[s].viva

Conectar(u, s) ==
  /\ ~caido
  /\ ~Conectada(u)
  /\ conexiones < MaxConexiones
  /\ conexion[s].pc = "cerrada"
  /\ conexion' = [conexion EXCEPT ![s] = [sub |-> u, pc |-> "suscribir", viva |-> TRUE]]
  /\ conexiones' = conexiones + 1
  /\ UNCHANGED <<cache, delMensaje, listas, hilo, envios, confirmaciones, recibidos, caido>>

\* Confirmations it had sent may be lost.  A client does not come back before the Broker
\* has processed its previous SUSCRIPCION: it sleeps TIEMPO_RECONEXION seconds.
Desconectar(s) ==
  /\ ~caido
  /\ conexion[s].viva
  /\ conexion[s].pc # "suscribir"
  /\ conexion' = [conexion EXCEPT ![s].viva = FALSE]
  /\ confirmaciones' \in {confirmaciones, {a \in confirmaciones : a.id # conexion[s].sub}}
  /\ UNCHANGED <<cache, delMensaje, listas, hilo, envios, recibidos, conexiones, caido>>

\* NO_CONNECTION: the thread ends; the subscriber stays in the list with this socket.
Cerrar(s) ==
  /\ ~caido
  /\ conexion[s].pc = "recibir"
  /\ ~conexion[s].viva
  /\ conexion' = [conexion EXCEPT ![s] = Cerrada]
  /\ UNCHANGED <<cache, delMensaje, listas, hilo, envios, delCliente, caido>>
------------------------------------------------------------------------------
\* The steps of the thread that publishes m, and of the one that serves socket s.
Publicacion(m) ==
  \/ AgregarIdCorrelativo(m) \/ Cachear(m) \/ Encolar(m)
  \/ ContarSuscriptores(m) \/ LanzarEnvio(m) \/ AnotarEnviado(m)

Atencion(s) == AgregarSuscripcion(s) \/ EnviarUltimosMensajesRecibidos(s) \/ Cerrar(s)

Next ==
  \/ \E m \in Mensajes : Recibir(m) \/ Publicacion(m)
  \/ \E e \in envios : EnviarMensaje(e)
  \/ \E s \in Sockets : Atencion(s) \/ Desconectar(s)
  \/ \E a \in confirmaciones : Confirmacion(a)
  \/ \E u \in Suscriptores, s \in Sockets : Conectar(u, s)

Spec == Init /\ [][Next]_vars

\* Threads that can run do; clients connect, publish and disconnect as they please.
FairSpec ==
  /\ Spec
  /\ \A m \in Mensajes : WF_vars(Publicacion(m))
  /\ \A s \in Sockets : WF_vars(Atencion(s))
  /\ WF_vars(\E e \in envios : EnviarMensaje(e))
  /\ WF_vars(\E a \in confirmaciones : Confirmacion(a))
------------------------------------------------------------------------------
(****************************************************************************)
(* Properties.                                                              *)
(****************************************************************************)
\* Each list holds each subscriber once, and only what its queue is for.
TypeOK ==
  /\ cache \subseteq Mensajes
  /\ \A m \in Mensajes : Rango(enviado[m]) \subseteq Suscriptores \cup {Nadie}
  /\ \A m \in Mensajes : ack[m] \subseteq Suscriptores
  /\ \A c \in Colas : \A i, j \in DOMAIN suscriptores[c] :
       /\ Cola(suscriptores[c][i].id) = c
       /\ suscriptores[c][i].socket \in Sockets
       /\ suscriptores[c][i].id = suscriptores[c][j].id => i = j
  /\ \A c \in Colas : queue[c] \subseteq {m \in Mensajes : Cola(m) = c}
  /\ caido \in BOOLEAN

\* No lookup by id or by socket yields a NULL that is then used, however subscribers come
\* and go while a message is being sent to them (l.133-137, l.760, l.1008).
NoCae == ~caido

\* The Broker never takes a message as confirmed by a subscriber that has not received it:
\* such a message would never be sent to it again (l.981, l.1039).
AckImplicaRecibido == \A m \in Mensajes : \A u \in ack[m] : m \in recibidos[u]

\* A message whose publisher has been answered and that is still cached is listed, so that
\* a subscriber that arrives now gets it (l.163, l.224).
ConfirmadoListado ==
  \A m \in Mensajes : hilo[m].pc = "fin" /\ m \in cache => m \in queue[Cola(m)]

\* Two answers to the same message are not both kept when one comes after the other.
RespuestaUnica ==
  \A m, n \in cache :
    Cola(m) = Cola(n) /\ Cola(m) \in Respuestas /\ Correlativo(m) = Correlativo(n) => m = n

\* Every message published is dealt with and confirmed to its publisher, however many
\* subscribers come, go and come back meanwhile.
SeConfirma ==
  \A m \in Mensajes : EnCurso(m) ~> (hilo[m].pc = "fin" \/ caido)

\* Every subscriber that stays connected to a queue of responses ends up receiving every
\* one that is cached, whether it subscribed before, during or after its publication.
RespuestaLlega ==
  \A u \in Suscriptores, m \in Mensajes :
    Cola(u) = Cola(m) /\ Cola(m) \in Respuestas =>
      ((m \in cache /\ Conectada(u)) ~>
         (m \in recibidos[u] \/ m \notin cache \/ ~Conectada(u) \/ caido))

\* A message reaches the subscribers that were there when it was published and did not
\* reconnect meanwhile, even if its listing for later ones is lost (l.103-159, l.228-281).
Atendida(u, s) ==
  /\ conexion[s].sub = u /\ conexion[s].viva
  /\ \E i \in DOMAIN suscriptores[Cola(u)] : suscriptores[Cola(u)][i] = [id |-> u, socket |-> s]

RecienRecibido(m) == /\ hilo[m].pc = AlRecibir(m)
                     /\ hilo[m].pc # "fin"
                     /\ hilo[m].indice = 1

LlegaASuscriptos ==
  \A u \in Suscriptores, m \in Mensajes, s \in Sockets :
    Cola(u) = Cola(m) =>
      ((RecienRecibido(m) /\ Atendida(u, s)) ~>
         (m \in recibidos[u] \/ ~Atendida(u, s) \/ caido))

\* "MENSAJE NO CACHEADO DEBIDO A QUE LA LONGITUD SUPERA EL TAMANO DE LA MEMORIA"
\* (ParticionesDinamicas.c:539, commented out): a message that is too long is not cached,
\* and that is all.
LargoNoCae == \A m \in Largos : hilo[m].pc # "inicio" => ~caido
==============================================================================
