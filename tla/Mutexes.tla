-------------------------------- MODULE Mutexes --------------------------------
(****************************************************************************)
(* Who waits for which mutex in the Broker (Broker/src/broker.c): the lock  *)
(* and unlock calls that handler_clients makes for each message, with those *)
(* of agregarSuscripcion, enviarUltimosMensajesRecibidos and the            *)
(* eliminarIdCola that cachearMensaje calls for every message it evicts.    *)
(* What is done between the calls is in Broker.                             *)
(*                                                                          *)
(* A thread is somewhere in the handler of one message; from there it may   *)
(* take a mutex, release one, or go on without either.                      *)
(* Mal... is a plausible mistake in the definition below it.                *)
(****************************************************************************)
EXTENDS Integers

CONSTANTS Hilos,    \* the handler_clients threads, one for each connection
          Pedidos,  \* queues whose list has a mutex in use: NEW, GET, CATCH
          Respuestas,  \* APPEARED, LOCALIZED, CAUGHT
          CuentaAntes, \* requests that count their subscribers before caching: CATCH
          Nadie

Colas == Pedidos \cup Respuestas

ASSUME MutexesAssumption ==
  /\ Pedidos \cap Respuestas = {}
  /\ CuentaAntes \subseteq Pedidos
  /\ Nadie \notin Hilos

Memoria         == <<"memoria", Nadie>>
Id              == <<"id", Nadie>>
Suscriptores(c) == <<"suscriptores", c>>
Queue(c)        == <<"queue", c>>
IDsCorrelativos(c) == <<"idsCorrelativos", c>>

Mutex == {Memoria, Id} \cup ({"suscriptores", "queue", "idsCorrelativos"} \X Colas)

VARIABLES lugar,   \* where in the handler each thread is
          cola,    \* the queue of the message it handles
          duenio   \* the thread that holds each mutex
vars == <<lugar, cola, duenio>>

Init == /\ lugar = [h \in Hilos |-> "recv_message"]
        /\ cola \in [Hilos -> Colas]
        /\ duenio = [x \in Mutex |-> Nadie]

\* The calls a thread at l, with a message of queue c, may make: what it takes or
\* releases, and where that leaves it.
Llamada(op, x, l) == [op |-> op, mutex |-> x, a |-> l]
Lock(x, l)   == Llamada("lock", x, l)
Unlock(x, l) == Llamada("unlock", x, l)
Sigue(l)     == Llamada("sigue", Memoria, l)

\* NEW, APPEARED, GET, LOCALIZED, CATCH, CAUGHT: l.60-727.
LlamadasPublicar(l, c) ==
  CASE l = "id"        -> {Lock(Id, "conId")}
    [] l = "conId"     -> {Unlock(Id, IF c \in Respuestas THEN "buscar"
                                      ELSE IF c \in CuentaAntes THEN "contar" ELSE "cachear")}
    [] l = "buscar"    -> {Lock(IDsCorrelativos(c), "buscado")}
    [] l = "buscado"   -> {Unlock(IDsCorrelativos(c), s) : s \in {"agregar", "recv_message"}}
    [] l = "agregar"   -> {Lock(IDsCorrelativos(c), "agregado")}
    [] l = "agregado"  -> {Unlock(IDsCorrelativos(c), "cachear")}
    [] l = "cachear"   -> {Lock(Memoria, "enMemoria")}
    \* eliminarIdCola locks the queues of requests only
    [] l = "enMemoria" -> {Lock(Queue(v), "desalojando") : v \in Pedidos} \cup
                          {Unlock(Memoria, IF c \in CuentaAntes THEN "enviar" ELSE "contar")}
    [] l = "desalojando" -> {Unlock(Queue(v), "enMemoria") : v \in Pedidos}
    [] l = "contar"    -> {Lock(Suscriptores(c), "contado")}
    [] l = "contado"   -> {Unlock(Suscriptores(c), IF c \in CuentaAntes THEN "cachear" ELSE "enviar")}
    [] l = "enviar"    -> {Lock(Suscriptores(c), "leido"),
                           Sigue(IF c \in Pedidos THEN "encolar" ELSE "recv_message")}
    [] l = "leido"     -> {Unlock(Suscriptores(c), "registrar")}
    [] l = "registrar" -> {Lock(Memoria, "conMemoria")}
    [] l = "conMemoria" -> {Lock(Suscriptores(c), "anotado")}
    [] l = "anotado"   -> {Unlock(Memoria, "sinMemoria")}
    [] l = "sinMemoria" -> {Unlock(Suscriptores(c), "enviar")}
    [] l = "encolar"   -> {Lock(Queue(c), "encolado")}
    [] l = "encolado"  -> {Unlock(Queue(c), "recv_message")}
    [] OTHER -> {}

\* SUSCRIPCION: l.728-742, with l.845-955 and l.957-1690.
MalLlamadasSuscripcion(l, c) ==
  CASE l = "suscribir"    -> {Lock(Suscriptores(c), "suscripto")}
    [] l = "suscripto"    -> {Lock(Memoria, "conSuscriptores")}
    [] l = "conSuscriptores" -> {Lock(Queue(c), "conQueue")}
    [] l = "conQueue"     -> {Unlock(Suscriptores(c), "sinSuscriptores")}
    [] l = "sinSuscriptores" -> {Unlock(Queue(c), "sinQueue")}
    [] l = "sinQueue"     -> {Unlock(Memoria, "recv_message")}
    [] OTHER -> {}
LlamadasSuscripcion(l, c) ==
  CASE l = "suscribir"    -> {Lock(Suscriptores(c), "suscripto")}
    [] l = "suscripto"    -> {Unlock(Suscriptores(c), "ultimos")}
    [] l = "ultimos"      -> {Lock(Memoria, "enUltimos")}
    [] l = "enUltimos"    -> {Lock(Suscriptores(c), "conSuscriptores")}
    [] l = "conSuscriptores" -> {Lock(Queue(c), "conQueue")}
    [] l = "conQueue"     -> {Unlock(Suscriptores(c), "sinSuscriptores")}
    [] l = "sinSuscriptores" -> {Unlock(Queue(c), "sinQueue")}
    [] l = "sinQueue"     -> {Unlock(Memoria, "recv_message")}
    [] OTHER -> {}

\* CONFIRMACION: l.744-783.
MalLlamadasConfirmacion(l) ==
  CASE l = "confirmar"  -> {Lock(Memoria, "confirmado")}
    [] l = "confirmado" -> {Unlock(Memoria, "recv_message"), Sigue("recv_message")}
    [] OTHER -> {}
LlamadasConfirmacion(l) ==
  CASE l = "confirmar"  -> {Lock(Memoria, "confirmado")}
    [] l = "confirmado" -> {Unlock(Memoria, "recv_message")}
    [] OTHER -> {}

Llamadas(l, c) ==
  LlamadasPublicar(l, c) \cup LlamadasSuscripcion(l, c) \cup LlamadasConfirmacion(l)
------------------------------------------------------------------------------
RecvMessage(h) ==
  /\ lugar[h] = "recv_message"
  /\ \E c \in Colas : cola' = [cola EXCEPT ![h] = c]
  /\ \E l \in {"id", "suscribir", "confirmar"} : lugar' = [lugar EXCEPT ![h] = l]
  /\ UNCHANGED duenio

Puede(h, ll) == CASE ll.op = "lock"   -> duenio[ll.mutex] = Nadie
                  [] ll.op = "unlock" -> duenio[ll.mutex] = h
                  [] OTHER -> TRUE

Hacer(h, ll) ==
  /\ Puede(h, ll)
  /\ lugar' = [lugar EXCEPT ![h] = ll.a]
  /\ duenio' = CASE ll.op = "lock"   -> [duenio EXCEPT ![ll.mutex] = h]
                 [] ll.op = "unlock" -> [duenio EXCEPT ![ll.mutex] = Nadie]
                 [] OTHER -> duenio
  /\ UNCHANGED cola

Next == \E h \in Hilos : RecvMessage(h) \/ \E ll \in Llamadas(lugar[h], cola[h]) : Hacer(h, ll)

Spec == Init /\ [][Next]_vars
------------------------------------------------------------------------------
(****************************************************************************)
(* Properties.                                                              *)
(****************************************************************************)
\* Places and owners.
Lugares == {"recv_message", "id", "conId", "buscar", "buscado", "agregar", "agregado", "cachear",
            "enMemoria", "desalojando", "contar", "contado", "enviar", "leido", "registrar",
            "conMemoria", "anotado", "sinMemoria", "encolar", "encolado", "suscribir",
            "suscripto", "ultimos", "enUltimos", "conSuscriptores", "conQueue",
            "sinSuscriptores", "sinQueue", "confirmar", "confirmado"}
TypeOK == /\ lugar \in [Hilos -> Lugares]
          /\ cola \in [Hilos -> Colas]
          /\ duenio \in [Mutex -> Hilos \cup {Nadie}]

Tiene(h) == {x \in Mutex : duenio[x] = h}

\* A thread that waits for its next message holds no mutex: no path through a handler
\* forgets to release one (l.54-804).
NadaRetenido == \A h \in Hilos : lugar[h] = "recv_message" => Tiene(h) = {}

\* Whatever handlers are under way, in whatever place, one of them can go on: there are no
\* threads that wait for each other for ever (the nested sections of l.133-139, l.737-739
\* and eliminarIdCola).
Ocupado(h) == lugar[h] # "recv_message"
AlguienAvanza ==
  (\E h \in Hilos : Ocupado(h)) =>
    \E h \in Hilos : Ocupado(h) /\ \E ll \in Llamadas(lugar[h], cola[h]) : Puede(h, ll)
==============================================================================
