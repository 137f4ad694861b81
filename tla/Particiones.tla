----------------------------- MODULE Particiones -----------------------------
(****************************************************************************)
(* The dynamic-partition memory of the Broker                               *)
(* (Broker/src/ParticionesDinamicas.c).                                     *)
(*                                                                          *)
(* Every operation here runs with mutexMemoria held, so at most one message *)
(* is being cached at a time; pc says where in cachearMensaje its handler   *)
(* is.  One action is one iteration of one loop of the code, because the    *)
(* questions asked are about how the loops work together: what search,      *)
(* eviction, consolidation and compaction leave behind for the next one.    *)
(*                                                                          *)
(* particionesEnMemoria is a set of records: every function whose result    *)
(* depends on the order of the list sorts it by position first, and the     *)
(* only other order (ties of list_sort in buscarMejorParticionLibre) is a   *)
(* free choice.  A list index is the position of the partition it denotes.  *)
(*                                                                          *)
(* Definitions whose name starts with Mal are plausible mistakes in the     *)
(* definition that follows them; no specification uses them.                *)
(* A NULL dereference (eviction with nothing to evict, a second store that  *)
(* finds no room) is a state without a successor.                           *)
(****************************************************************************)
EXTENDS Integers, Sequences

CONSTANTS TAMANO_MEMORIA,            \* bytes of the cache
          TAMANO_MINIMO_PARTICION,   \* smallest partition handed out
          Configuraciones,           \* the rest of the configuration file
          TamanosMensaje,            \* sizes obtenerTamanioMensaje may return
          MaxMensajes,               \* bound: messages received
          MaxEnvios                  \* bound: re-sends that refresh the LRU mark

ASSUME ConfigAssumption ==
  /\ TAMANO_MEMORIA \in Nat \ {0}
  /\ TAMANO_MINIMO_PARTICION \in 1..TAMANO_MEMORIA
  /\ Configuraciones \subseteq [ALGORITMO_PARTICION_LIBRE : {"FF", "BF"},
                                ALGORITMO_REEMPLAZO : {"FIFO", "LRU"},
                                FRECUENCIA_COMPACTACION : Nat \cup {-1}]
  /\ TamanosMensaje \subseteq Nat \ {0}
  /\ MaxMensajes \in Nat
  /\ MaxEnvios \in Nat

VARIABLES config,              \* what cargarConfiguracion has read
          particiones,         \* particionesEnMemoria
          memoria,             \* the bytes at principioMemoria
          colaMensajesMemoria, \* FIFO order of the cached messages
          CONTADORLRU,
          queue,               \* ids listed in the <cola>_admin->queue lists
          porEncolar,          \* ids cached whose handler has not listed them yet
          ID_INICIAL,
          mensaje,             \* the message being cached
          busquedasFallidas,
          index,               \* cursor of consolidarMemoria
          indexCompactar,      \* cursor of compactarMemoria
          retorno,             \* who called consolidarMemoria
          pc

vars == <<config, particiones, memoria, colaMensajesMemoria, CONTADORLRU, queue, porEncolar,
          ID_INICIAL, mensaje, busquedasFallidas, index, indexCompactar, retorno, pc>>

ALGORITMO_PARTICION_LIBRE == config.ALGORITMO_PARTICION_LIBRE
ALGORITMO_REEMPLAZO       == config.ALGORITMO_REEMPLAZO
FRECUENCIA_COMPACTACION   == config.FRECUENCIA_COMPACTACION

Bytes == 0 .. TAMANO_MEMORIA - 1
NoId  == -1
Basura == <<NoId, 0>>                    \* a byte no message was written to
NoMensaje == [id |-> NoId, tam |-> 0]

Particion == [pos : Bytes, tam : 1..TAMANO_MEMORIA, libre : BOOLEAN,
              id : Nat \cup {NoId}, tamMsg : Nat \cup {-1}, lru : Nat \cup {-1}]

Ocupadas == {p \in particiones : ~p.libre}

\* The size almacenarMensaje reserves for a message of t bytes.
Reserva(t) == IF t < TAMANO_MINIMO_PARTICION THEN TAMANO_MINIMO_PARTICION ELSE t

\* buscarParticionLibre: the free partitions that can hold t bytes.
Candidatas(t) == {p \in particiones : p.libre /\ Reserva(t) <= p.tam}

PrimeraLibre(t) == {p \in Candidatas(t) : \A q \in Candidatas(t) : p.pos <= q.pos}
MejorLibre(t)   == {p \in Candidatas(t) : \A q \in Candidatas(t) : p.tam <= q.tam}
Elegibles(t) == IF ALGORITMO_PARTICION_LIBRE = "FF" THEN PrimeraLibre(t) ELSE MejorLibre(t)

\* The partition after position x in the sorted list (at most one).
Siguiente(x) == {q \in particiones : /\ q.pos > x
                                     /\ \A r \in particiones : r.pos > x => q.pos <= r.pos}

Init ==
  /\ config \in Configuraciones
  /\ particiones = {[pos |-> 0, tam |-> TAMANO_MEMORIA, libre |-> TRUE,
                     id |-> NoId, tamMsg |-> -1, lru |-> -1]}
  /\ memoria = [b \in Bytes |-> Basura]
  /\ colaMensajesMemoria = <<>>
  /\ CONTADORLRU = 0
  /\ queue = {}
  /\ porEncolar = {}
  /\ ID_INICIAL = 0
  /\ mensaje = NoMensaje
  /\ busquedasFallidas = 0
  /\ index = 0
  /\ indexCompactar = 0
  /\ retorno = "ciclo"
  /\ pc = "libre"

(****************************************************************************)
(* cachearMensaje: a handler takes mutexMemoria with a message of t bytes.  *)
(* Identifiers are only compared for equality, so they are numbered in the  *)
(* order in which the handlers get the mutex.                               *)
(****************************************************************************)
CachearMensaje(t) ==
  /\ pc = "libre"
  /\ ID_INICIAL < MaxMensajes
  /\ t <= TAMANO_MEMORIA
  /\ mensaje' = [id |-> ID_INICIAL, tam |-> t]
  /\ ID_INICIAL' = ID_INICIAL + 1
  /\ busquedasFallidas' = 0
  /\ pc' = "buscar"
  /\ UNCHANGED <<config, particiones, memoria, colaMensajesMemoria, CONTADORLRU, queue,
                 porEncolar, index, indexCompactar, retorno>>

\* A message longer than the memory is not cached; its handler goes on and lists it.
NoCachear(t) ==
  /\ pc = "libre"
  /\ ID_INICIAL < MaxMensajes
  /\ t > TAMANO_MEMORIA
  /\ porEncolar' = porEncolar \cup {ID_INICIAL}
  /\ ID_INICIAL' = ID_INICIAL + 1
  /\ UNCHANGED <<config, particiones, memoria, colaMensajesMemoria, CONTADORLRU, queue,
                 mensaje, busquedasFallidas, index, indexCompactar, retorno, pc>>

(****************************************************************************)
(* almacenarMensaje into the free partition p: cargarDatosParticion,        *)
(* agregarParticionContigua, the FIFO queue and the copy of the bytes.      *)
(****************************************************************************)
Cargada(p) == [pos |-> p.pos, tam |-> Reserva(mensaje.tam), libre |-> FALSE,
               id |-> mensaje.id, tamMsg |-> mensaje.tam, lru |-> CONTADORLRU + 1]

MalResto(p) == [pos |-> p.pos + mensaje.tam, tam |-> p.tam - mensaje.tam,
                libre |-> TRUE, id |-> NoId, tamMsg |-> 0, lru |-> -1]

Resto(p) == [pos |-> p.pos + Reserva(mensaje.tam), tam |-> p.tam - Reserva(mensaje.tam),
             libre |-> TRUE, id |-> NoId, tamMsg |-> 0, lru |-> -1]

MalContigua(p) == {Resto(p)}

\* agregarParticionContigua, when the partition is larger than needed.
Contigua(p) == IF Reserva(mensaje.tam) < p.tam THEN {Resto(p)} ELSE {}

\* The memcpy of the message's bytes to position x.
Copiar(x) == [b \in Bytes |-> IF x <= b /\ b < x + mensaje.tam
                              THEN <<mensaje.id, b - x>> ELSE memoria[b]]

Almacenar(p) ==
  /\ particiones' = ((particiones \ {p}) \cup {Cargada(p)}) \cup Contigua(p)
  /\ memoria' = Copiar(p.pos)
  /\ colaMensajesMemoria' = IF ALGORITMO_REEMPLAZO = "FIFO"
                            THEN Append(colaMensajesMemoria, mensaje.id)
                            ELSE colaMensajesMemoria
  /\ CONTADORLRU' = CONTADORLRU + 1

MalSoltar ==
  /\ pc' = "libre"
  /\ mensaje' = NoMensaje
  /\ UNCHANGED porEncolar

\* The handler releases mutexMemoria; listing the id comes later.
Soltar ==
  /\ pc' = "libre"
  /\ mensaje' = NoMensaje
  /\ porEncolar' = porEncolar \cup {mensaje.id}

\* The loop of ejecutarCicloAlternativo is only entered while something is cached.
EnCiclo == /\ pc = "buscar"
           /\ FRECUENCIA_COMPACTACION = -1 => Ocupadas # {}

\* A search that succeeds in ejecutarCicloNormal: store and leave.
AlmacenarNormal ==
  /\ EnCiclo
  /\ FRECUENCIA_COMPACTACION # -1
  /\ \E p \in Elegibles(mensaje.tam) : Almacenar(p)
  /\ Soltar
  /\ UNCHANGED <<config, queue, ID_INICIAL, busquedasFallidas, index, indexCompactar, retorno>>

\* The same in ejecutarCicloAlternativo: its break leads to compactarMemoria.
AlmacenarAlternativo ==
  /\ EnCiclo
  /\ FRECUENCIA_COMPACTACION = -1
  /\ \E p \in Elegibles(mensaje.tam) : Almacenar(p)
  /\ pc' = "compactar"
  /\ indexCompactar' = 0
  /\ UNCHANGED <<config, queue, porEncolar, ID_INICIAL, mensaje, busquedasFallidas, index, retorno>>

\* The almacenarMensaje after the compaction of ejecutarCicloAlternativo.
AlmacenarFinal ==
  /\ pc = "almacenar"
  /\ \E p \in Elegibles(mensaje.tam) : Almacenar(p)
  /\ Soltar
  /\ UNCHANGED <<config, queue, ID_INICIAL, busquedasFallidas, index, indexCompactar, retorno>>

(****************************************************************************)
(* eliminarParticion: the victim's partition becomes free but keeps its     *)
(* other fields, and its id leaves the queue of its type (eliminarIdCola).  *)
(****************************************************************************)
MalMenosUsadas == {p \in Ocupadas : \A q \in Ocupadas : p.lru >= q.lru}
MenosUsadas == {p \in Ocupadas : \A q \in Ocupadas : p.lru <= q.lru}

CambiarALibre(p, id) == IF p.id = id THEN [p EXCEPT !.libre = TRUE] ELSE p

MalVictima(id) ==
  \/ /\ ALGORITMO_REEMPLAZO = "FIFO"
     /\ colaMensajesMemoria # <<>>
     /\ id = Head(colaMensajesMemoria)
     /\ UNCHANGED colaMensajesMemoria
  \/ /\ ALGORITMO_REEMPLAZO = "LRU"
     /\ \E p \in MenosUsadas : id = p.id
     /\ UNCHANGED colaMensajesMemoria

Victima(id) ==
  \/ /\ ALGORITMO_REEMPLAZO = "FIFO"
     /\ colaMensajesMemoria # <<>>
     /\ id = Head(colaMensajesMemoria)
     /\ colaMensajesMemoria' = Tail(colaMensajesMemoria)
  \/ /\ ALGORITMO_REEMPLAZO = "LRU"
     /\ \E p \in MenosUsadas : id = p.id
     /\ UNCHANGED colaMensajesMemoria

Eliminar(id) ==
  /\ Victima(id)
  /\ particiones' = {CambiarALibre(p, id) : p \in particiones}
  /\ queue' = IF \E p \in particiones : p.id = id THEN queue \ {id} ELSE queue

\* A failed search that still may evict: eliminarParticion, then consolidarMemoria.
EliminarParticion ==
  /\ EnCiclo
  /\ Candidatas(mensaje.tam) = {}
  /\ FRECUENCIA_COMPACTACION = -1 \/ busquedasFallidas < FRECUENCIA_COMPACTACION
  /\ \E id \in 0 .. MaxMensajes - 1 : Eliminar(id)
  /\ busquedasFallidas' = IF FRECUENCIA_COMPACTACION = -1
                          THEN busquedasFallidas ELSE busquedasFallidas + 1
  /\ pc' = "consolidar"
  /\ index' = 0
  /\ retorno' = "ciclo"
  /\ UNCHANGED <<config, memoria, CONTADORLRU, porEncolar, ID_INICIAL, mensaje, indexCompactar>>

(****************************************************************************)
(* consolidarMemoria: one pass over the sorted list; a merged partition is  *)
(* looked at again with its new neighbour.                                  *)
(****************************************************************************)
SeUnen(p, q) == p.libre /\ q.libre

Unida(p, q) == [pos |-> p.pos, tam |-> p.tam + q.tam, libre |-> TRUE,
                id |-> NoId, tamMsg |-> -1, lru |-> -1]

Consolidar ==
  /\ pc = "consolidar"
  /\ \E p \in particiones : \E q \in Siguiente(index) :
       /\ p.pos = index
       /\ SeUnen(p, q)
       /\ particiones' = (particiones \ {p, q}) \cup {Unida(p, q)}
  /\ UNCHANGED <<config, memoria, colaMensajesMemoria, CONTADORLRU, queue, porEncolar, ID_INICIAL,
                 mensaje, busquedasFallidas, index, indexCompactar, retorno, pc>>

AvanzarConsolidacion ==
  /\ pc = "consolidar"
  /\ \E p \in particiones : \E q \in Siguiente(index) :
       /\ p.pos = index
       /\ ~SeUnen(p, q)
       /\ index' = q.pos
  /\ UNCHANGED <<config, particiones, memoria, colaMensajesMemoria, CONTADORLRU, queue, porEncolar,
                 ID_INICIAL, mensaje, busquedasFallidas, indexCompactar, retorno, pc>>

MalTerminarConsolidacion ==
  /\ pc = "consolidar"
  /\ pc' = IF retorno = "ciclo" THEN "buscar" ELSE "compactar"
  /\ UNCHANGED <<config, particiones, memoria, colaMensajesMemoria, CONTADORLRU, queue, porEncolar,
                 ID_INICIAL, mensaje, busquedasFallidas, index, indexCompactar, retorno>>

\* End of the pass; inside compactarMemoria its own index++ follows.
TerminarConsolidacion ==
  /\ pc = "consolidar"
  /\ Siguiente(index) = {}
  /\ \/ /\ retorno = "ciclo"
        /\ pc' = "buscar"
        /\ UNCHANGED indexCompactar
     \/ /\ retorno = "compactar"
        /\ pc' = "compactar"
        /\ \E q \in Siguiente(indexCompactar) : indexCompactar' = q.pos
  /\ UNCHANGED <<config, particiones, memoria, colaMensajesMemoria, CONTADORLRU, queue, porEncolar,
                 ID_INICIAL, mensaje, busquedasFallidas, index, retorno>>

(****************************************************************************)
(* compactarMemoria: a free partition changes places with the one after it, *)
(* and consolidarMemoria runs after each move.                              *)
(****************************************************************************)
\* ejecutarCicloNormal compacts after FRECUENCIA_COMPACTACION evictions in vain;
\* ejecutarCicloAlternativo when its loop ends because nothing is cached.
CompactarMemoria ==
  /\ pc = "buscar"
  /\ \/ /\ FRECUENCIA_COMPACTACION # -1
        /\ Candidatas(mensaje.tam) = {}
        /\ busquedasFallidas >= FRECUENCIA_COMPACTACION
        /\ busquedasFallidas' = 0
     \/ /\ FRECUENCIA_COMPACTACION = -1
        /\ Ocupadas = {}
        /\ UNCHANGED busquedasFallidas
  /\ pc' = "compactar"
  /\ indexCompactar' = 0
  /\ UNCHANGED <<config, particiones, memoria, colaMensajesMemoria, CONTADORLRU, queue, porEncolar,
                 ID_INICIAL, mensaje, index, retorno>>

MalMover(x, y, n) == [b \in Bytes |-> IF x <= b /\ b < x + n - 1
                                      THEN memoria[y + (b - x)] ELSE memoria[b]]

\* The two memcpy calls that move the n bytes of a message from y down to x.
Mover(x, y, n) == [b \in Bytes |-> IF x <= b /\ b < x + n
                                   THEN memoria[y + (b - x)] ELSE memoria[b]]

MoverParticion ==
  /\ pc = "compactar"
  /\ \E p \in particiones : \E q \in Siguiente(indexCompactar) :
       /\ p.pos = indexCompactar
       /\ p.libre
       /\ particiones' = (particiones \ {p, q})
                           \cup {[q EXCEPT !.pos = p.pos], [p EXCEPT !.pos = p.pos + q.tam]}
       /\ memoria' = Mover(p.pos, q.pos, q.tamMsg)
  /\ pc' = "consolidar"
  /\ index' = 0
  /\ retorno' = "compactar"
  /\ UNCHANGED <<config, colaMensajesMemoria, CONTADORLRU, queue, porEncolar, ID_INICIAL, mensaje,
                 busquedasFallidas, indexCompactar>>

AvanzarCompactacion ==
  /\ pc = "compactar"
  /\ \E p \in particiones : \E q \in Siguiente(indexCompactar) :
       /\ p.pos = indexCompactar
       /\ ~p.libre
       /\ indexCompactar' = q.pos
  /\ UNCHANGED <<config, particiones, memoria, colaMensajesMemoria, CONTADORLRU, queue, porEncolar,
                 ID_INICIAL, mensaje, busquedasFallidas, index, retorno, pc>>

\* The loop of compactarMemoria with its bound off by one.
MalTerminarCompactacion ==
  /\ pc = "compactar"
  /\ \A q \in Siguiente(indexCompactar) : Siguiente(q.pos) = {}
  /\ pc' = IF FRECUENCIA_COMPACTACION = -1 THEN "almacenar" ELSE "buscar"
  /\ UNCHANGED <<config, particiones, memoria, colaMensajesMemoria, CONTADORLRU, queue, porEncolar,
                 ID_INICIAL, mensaje, busquedasFallidas, index, indexCompactar, retorno>>
TerminarCompactacion ==
  /\ pc = "compactar"
  /\ Siguiente(indexCompactar) = {}
  /\ pc' = IF FRECUENCIA_COMPACTACION = -1 THEN "almacenar" ELSE "buscar"
  /\ UNCHANGED <<config, particiones, memoria, colaMensajesMemoria, CONTADORLRU, queue, porEncolar,
                 ID_INICIAL, mensaje, busquedasFallidas, index, indexCompactar, retorno>>

(****************************************************************************)
(* The rest of the Broker, as far as it touches this state.                 *)
(****************************************************************************)
\* enviarUltimosMensajesRecibidos re-sends a listed message and refreshes its mark.
EnviarUltimo ==
  /\ pc = "libre"
  /\ CONTADORLRU < MaxMensajes + MaxEnvios
  /\ \E p \in Ocupadas :
       /\ p.id \in queue
       /\ particiones' = (particiones \ {p}) \cup {[p EXCEPT !.lru = CONTADORLRU + 1]}
  /\ CONTADORLRU' = CONTADORLRU + 1
  /\ UNCHANGED <<config, memoria, colaMensajesMemoria, queue, porEncolar, ID_INICIAL, mensaje,
                 busquedasFallidas, index, indexCompactar, retorno, pc>>

\* The handler that cached message id adds it to the queue, without mutexMemoria.
AgregarIdCola(id) ==
  /\ id \in porEncolar
  /\ porEncolar' = porEncolar \ {id}
  /\ queue' = queue \cup {id}
  /\ UNCHANGED <<config, particiones, memoria, colaMensajesMemoria, CONTADORLRU, ID_INICIAL,
                 mensaje, busquedasFallidas, index, indexCompactar, retorno, pc>>

\* Publishers may stop: the end of a bounded run.
SinMasMensajes ==
  /\ pc = "libre"
  /\ ID_INICIAL = MaxMensajes
  /\ UNCHANGED vars

\* The steps a handler takes with mutexMemoria held.
Ciclo ==
  \/ AlmacenarNormal \/ AlmacenarAlternativo \/ AlmacenarFinal
  \/ EliminarParticion
  \/ Consolidar \/ AvanzarConsolidacion \/ TerminarConsolidacion
  \/ CompactarMemoria
  \/ MoverParticion \/ AvanzarCompactacion \/ TerminarCompactacion

Next ==
  \/ \E t \in TamanosMensaje : CachearMensaje(t) \/ NoCachear(t)
  \/ Ciclo
  \/ EnviarUltimo
  \/ \E id \in porEncolar : AgregarIdCola(id)
  \/ SinMasMensajes

Spec == Init /\ [][Next]_vars

\* The thread that holds mutexMemoria waits for nobody, so it keeps running.
FairSpec == Spec /\ WF_vars(Ciclo)
------------------------------------------------------------------------------
(****************************************************************************)
(* Properties.                                                              *)
(****************************************************************************)
\* Every partition lies in the memory and is not empty, and both cursors stay inside it.
TypeOK ==
  /\ config \in Configuraciones
  /\ particiones \subseteq Particion
  /\ memoria \in [Bytes -> (Nat \cup {NoId}) \X Nat]
  /\ colaMensajesMemoria \in Seq(Nat)
  /\ CONTADORLRU \in Nat
  /\ queue \subseteq Nat
  /\ porEncolar \subseteq Nat
  /\ ID_INICIAL \in 0..MaxMensajes
  /\ mensaje \in [id : Nat \cup {NoId}, tam : 0..TAMANO_MEMORIA]
  /\ busquedasFallidas \in Nat
  /\ index \in Bytes
  /\ indexCompactar \in Bytes
  /\ retorno \in {"ciclo", "compactar"}
  /\ pc \in {"libre", "buscar", "consolidar", "compactar", "almacenar"}

\* P tiles the memory: inside it, no two overlapping, no byte without a partition.
Tila(P) ==
  /\ \A p \in P : p.pos + p.tam <= TAMANO_MEMORIA
  /\ \A p, q \in P : p # q => p.pos + p.tam <= q.pos \/ q.pos + q.tam <= p.pos
  /\ \A b \in Bytes : \E p \in P : p.pos <= b /\ b < p.pos + p.tam

\* The partitions tile the memory: none overlaps another and no byte is lost, whatever
\* splits, merges and moves have happened (ParticionesDinamicas.c:673-957).
Particionado == Tila(particiones)

\* A cached message can be read back byte by byte from its partition: nothing was
\* stored over it and compaction moved all of it (the two memcpy of l.790 and l.796).
ContenidoIntegro ==
  \A p \in Ocupadas :
    /\ p.tamMsg \in 1..p.tam
    /\ \A k \in 0 .. p.tamMsg - 1 : memoria[p.pos + k] = <<p.id, k>>

\* Between two searches no two free partitions touch: consolidarMemoria finishes the
\* job whatever the eviction or the store left (l.827-870).
SinLibresContiguas ==
  pc \in {"libre", "buscar"} =>
    \A p \in particiones : p.libre => \A q \in Siguiente(p.pos) : ~q.libre

\* eliminarParticion is only called when there is something to evict (the queue_pop of
\* l.727 and the list_get of l.757 are dereferenced unchecked).  The id it pops occupies
\* memory, except in ejecutarCicloAlternativo, which queues an id twice (l.579, l.589).
HayVictima ==
  /\ EnCiclo
  /\ Candidatas(mensaje.tam) = {}
  /\ FRECUENCIA_COMPACTACION = -1 \/ busquedasFallidas < FRECUENCIA_COMPACTACION
  => /\ MenosUsadas # {}
     /\ ALGORITMO_REEMPLAZO = "FIFO" =>
          /\ colaMensajesMemoria # <<>>
          /\ FRECUENCIA_COMPACTACION # -1 =>
               \E p \in Ocupadas : p.id = Head(colaMensajesMemoria)

\* compactarMemoria always moves an occupied partition: the length of its second memcpy
\* is the tamanioMensaje of the right-hand one, -1 or stale if that one is free (l.796).
MueveOcupadas ==
  pc = "compactar" =>
    \A p \in particiones : p.pos = indexCompactar /\ p.libre =>
       \A q \in Siguiente(p.pos) : ~q.libre

\* A cached message is listed in its queue or its handler is about to list it, so that a
\* later subscriber can receive it.
AlcanzablePorSuscriptores ==
  \A p \in Ocupadas : p.id \in queue \cup porEncolar \cup {mensaje.id}

\* Compaction does what l.26-28 say: afterwards every cached message lies before the
\* only free partition.
CompactacionCompleta ==
  [][pc = "compactar" /\ pc' \in {"buscar", "almacenar"} =>
       /\ \A p, q \in particiones : ~p.libre /\ q.libre => p.pos < q.pos
       /\ \A p, q \in particiones : p.libre /\ q.libre => p = q]_vars
==============================================================================
