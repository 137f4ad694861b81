-------------------------------- MODULE Buddy --------------------------------
(****************************************************************************)
(* The buddy-system memory of the Broker (Broker/src/BuddySystem.c), the    *)
(* alternative to Particiones.  Same conventions: mutexMemoria is held from *)
(* cachearMensajeBuddy to its return, pc says where the handler is, one     *)
(* action is one iteration of a loop, particionesEnMemoriaBuddy is a set    *)
(* and a list index is a position.  The partition that almacenarMensajeBuddy *)
(* takes out of the list to split it stays in the set, at position index;   *)
(* nobody looks at the list meanwhile.                                      *)
(*                                                                          *)
(* Evicting when nothing is cached dereferences NULL: such a state has no   *)
(* successor.  Mal... are plausible mistakes in the definition below them.  *)
(****************************************************************************)
EXTENDS Integers, Sequences

CONSTANTS TAMANO_MEMORIA, TAMANO_MINIMO_PARTICION,
          Configuraciones,            \* the rest of the configuration file
          Potencias,                  \* the powers of two up to TAMANO_MEMORIA
          TamanosMensaje,             \* sizes obtenerTamanioMensaje may return
          MaxMensajes,                \* bound: messages received
          MaxEnvios                   \* bound: re-sends that refresh the LRU mark

\* The code halves sizes with an integer division, so it is only meant for sizes that
\* are powers of two (64 and 4 in the configuration the repository holds).
ASSUME BuddyAssumption ==
  /\ Potencias \subseteq 1..TAMANO_MEMORIA
  /\ \A n \in Potencias : n > 1 => n % 2 = 0 /\ n \div 2 \in Potencias
  /\ \A n \in Potencias : 2 * n <= TAMANO_MEMORIA => 2 * n \in Potencias
  /\ TAMANO_MEMORIA \in Nat
  /\ TAMANO_MEMORIA \in Potencias
  /\ TAMANO_MINIMO_PARTICION \in Potencias
  /\ Configuraciones \subseteq [ALGORITMO_PARTICION_LIBRE : {"FF", "BF"},
                                ALGORITMO_REEMPLAZO : {"FIFO", "LRU"}]
  /\ TamanosMensaje \subseteq Nat \ {0}
  /\ MaxMensajes \in Nat
  /\ MaxEnvios \in Nat

VARIABLES config,          \* what cargarConfiguracion has read
          particiones,     \* particionesEnMemoriaBuddy
          memoria,         \* the bytes at principioMemoriaBuddy
          colaMensajes,    \* colaMensajesMemoriaBuddy
          CONTADORLRUBUDDY,
          queue,           \* ids listed in the <cola>_admin->queue lists
          porEncolar,      \* ids cached whose handler has not listed them yet
          ID_INICIAL,
          mensaje,         \* the message being cached
          index,           \* the partition being split, or the cursor of the merge
          pc

vars == <<config, particiones, memoria, colaMensajes, CONTADORLRUBUDDY, queue, porEncolar,
          ID_INICIAL, mensaje, index, pc>>

ALGORITMO_PARTICION_LIBRE == config.ALGORITMO_PARTICION_LIBRE
ALGORITMO_REEMPLAZO       == config.ALGORITMO_REEMPLAZO

Bytes == 0 .. TAMANO_MEMORIA - 1
NoId  == -1
Basura == <<NoId, 0>>
NoMensaje == [id |-> NoId, tam |-> 0]

Particion == [pos : Bytes, tam : Potencias, libre : BOOLEAN,
              id : Nat \cup {NoId}, tamMsg : Nat \cup {-1}, lru : Nat \cup {-1}]

Ocupadas == {p \in particiones : ~p.libre}

Candidatas(t) == {p \in particiones : /\ p.libre
                                      /\ t <= p.tam
                                      /\ TAMANO_MINIMO_PARTICION <= p.tam}
PrimeraLibre(t) == {p \in Candidatas(t) : \A q \in Candidatas(t) : p.pos <= q.pos}
MejorLibre(t)   == {p \in Candidatas(t) : \A q \in Candidatas(t) : p.tam <= q.tam}
Elegibles(t) == IF ALGORITMO_PARTICION_LIBRE = "FF" THEN PrimeraLibre(t) ELSE MejorLibre(t)

Siguiente(x) == {q \in particiones : /\ q.pos > x
                                     /\ \A r \in particiones : r.pos > x => q.pos <= r.pos}

\* index++ at the last partition leaves the list.
Posterior(x) == IF Siguiente(x) = {} THEN {TAMANO_MEMORIA} ELSE {q.pos : q \in Siguiente(x)}

Init ==
  /\ config \in Configuraciones
  /\ particiones = {[pos |-> 0, tam |-> TAMANO_MEMORIA, libre |-> TRUE,
                     id |-> NoId, tamMsg |-> -1, lru |-> -1]}
  /\ memoria = [b \in Bytes |-> Basura]
  /\ colaMensajes = <<>>
  /\ CONTADORLRUBUDDY = 0
  /\ queue = {}
  /\ porEncolar = {}
  /\ ID_INICIAL = 0
  /\ mensaje = NoMensaje
  /\ index = 0
  /\ pc = "libre"

(****************************************************************************)
(* cachearMensajeBuddy.                                                     *)
(****************************************************************************)
CachearMensajeBuddy(t) ==
  /\ pc = "libre"
  /\ ID_INICIAL < MaxMensajes
  /\ t <= TAMANO_MEMORIA
  /\ mensaje' = [id |-> ID_INICIAL, tam |-> t]
  /\ ID_INICIAL' = ID_INICIAL + 1
  /\ pc' = "buscar"
  /\ UNCHANGED <<config, particiones, memoria, colaMensajes, CONTADORLRUBUDDY, queue, porEncolar,
                 index>>

\* A message longer than the memory is not cached; its handler goes on and lists it.
NoCachear(t) ==
  /\ pc = "libre"
  /\ ID_INICIAL < MaxMensajes
  /\ t > TAMANO_MEMORIA
  /\ porEncolar' = porEncolar \cup {ID_INICIAL}
  /\ ID_INICIAL' = ID_INICIAL + 1
  /\ UNCHANGED <<config, particiones, memoria, colaMensajes, CONTADORLRUBUDDY, queue, mensaje,
                 index, pc>>

(****************************************************************************)
(* almacenarMensajeBuddy: find a free partition, halve it, fill it.         *)
(****************************************************************************)
Buscar ==
  /\ pc = "buscar"
  /\ \E p \in Elegibles(mensaje.tam) : index' = p.pos
  /\ pc' = "partir"
  /\ UNCHANGED <<config, particiones, memoria, colaMensajes, CONTADORLRUBUDDY, queue, porEncolar,
                 ID_INICIAL, mensaje>>

\* The condition of the splitting loop.  For a power of two, being larger than the
\* nearest power of two above the message is having a half that still holds it.
MalPartible(p) == mensaje.tam < p.tam \div 2 /\ p.tam > TAMANO_MINIMO_PARTICION
Partible(p) == mensaje.tam <= p.tam \div 2 /\ p.tam > TAMANO_MINIMO_PARTICION

Mitad(p) == [p EXCEPT !.tam = p.tam \div 2]

\* agregarBuddy: the right half (the fields it leaves uninitialised are never read
\* while the partition is free).
MalBuddyDe(p) == [pos |-> p.pos + p.tam \div 2, tam |-> p.tam, libre |-> TRUE,
                  id |-> NoId, tamMsg |-> -1, lru |-> -1]
BuddyDe(p) == [pos |-> p.pos + p.tam \div 2, tam |-> p.tam \div 2, libre |-> TRUE,
               id |-> NoId, tamMsg |-> -1, lru |-> -1]

Partir ==
  /\ pc = "partir"
  /\ \E p \in particiones :
       /\ p.pos = index
       /\ Partible(p)
       /\ particiones' = (particiones \ {p}) \cup {Mitad(p), BuddyDe(p)}
  /\ UNCHANGED <<config, memoria, colaMensajes, CONTADORLRUBUDDY, queue, porEncolar, ID_INICIAL,
                 mensaje, index, pc>>

\* cargarDatosParticionBuddy; the size it assigns is the one the loop arrived at.
Cargada(p) == [pos |-> p.pos, tam |-> p.tam, libre |-> FALSE, id |-> mensaje.id,
               tamMsg |-> mensaje.tam, lru |-> CONTADORLRUBUDDY + 1]

MalCopiar(x) == [b \in Bytes |-> IF x <= b /\ b < x + mensaje.tam + 1
                                 THEN <<mensaje.id, b - x>> ELSE memoria[b]]
Copiar(x) == [b \in Bytes |-> IF x <= b /\ b < x + mensaje.tam
                              THEN <<mensaje.id, b - x>> ELSE memoria[b]]

Almacenar ==
  /\ pc = "partir"
  /\ \E p \in particiones :
       /\ p.pos = index
       /\ ~Partible(p)
       /\ particiones' = (particiones \ {p}) \cup {Cargada(p)}
       /\ memoria' = Copiar(p.pos)
  /\ colaMensajes' = IF ALGORITMO_REEMPLAZO = "FIFO"
                     THEN Append(colaMensajes, mensaje.id) ELSE colaMensajes
  /\ CONTADORLRUBUDDY' = CONTADORLRUBUDDY + 1
  /\ porEncolar' = porEncolar \cup {mensaje.id}
  /\ mensaje' = NoMensaje
  /\ pc' = "libre"
  /\ UNCHANGED <<config, queue, ID_INICIAL, index>>

(****************************************************************************)
(* eliminarParticionBuddy.                                                  *)
(****************************************************************************)
MenosUsadas == {p \in Ocupadas : \A q \in Ocupadas : p.lru <= q.lru}

CambiarALibre(p, id) == IF p.id = id THEN [p EXCEPT !.libre = TRUE] ELSE p

Victima(id) ==
  \/ /\ ALGORITMO_REEMPLAZO = "FIFO"
     /\ colaMensajes # <<>>
     /\ id = Head(colaMensajes)
     /\ colaMensajes' = Tail(colaMensajes)
  \/ /\ ALGORITMO_REEMPLAZO = "LRU"
     /\ \E p \in MenosUsadas : id = p.id
     /\ UNCHANGED colaMensajes

EliminarParticionBuddy ==
  /\ pc = "buscar"
  /\ Candidatas(mensaje.tam) = {}
  /\ \E id \in 0 .. MaxMensajes - 1 :
       /\ Victima(id)
       /\ particiones' = {CambiarALibre(p, id) : p \in particiones}
       /\ queue' = IF \E p \in particiones : p.id = id THEN queue \ {id} ELSE queue
  /\ pc' = "consolidar"
  /\ index' = 0
  /\ UNCHANGED <<config, memoria, CONTADORLRUBUDDY, porEncolar, ID_INICIAL, mensaje>>

(****************************************************************************)
(* consolidarMemoriaBuddy: one pass from left to right.  Two equal free     *)
(* neighbours become one, and the result is compared with its new           *)
(* neighbour; two equal neighbours that cannot merge are both left behind.  *)
(****************************************************************************)
MalUnibles(p, q) == p.libre /\ p.tam = q.tam
Unibles(p, q) == p.libre /\ q.libre /\ p.tam = q.tam

Unir ==
  /\ pc = "consolidar"
  /\ \E p \in particiones : \E q \in Siguiente(index) :
       /\ p.pos = index
       /\ Unibles(p, q)
       /\ particiones' = (particiones \ {p, q}) \cup {[p EXCEPT !.tam = p.tam + q.tam]}
  /\ UNCHANGED <<config, memoria, colaMensajes, CONTADORLRUBUDDY, queue, porEncolar, ID_INICIAL,
                 mensaje, index, pc>>

Avanzar ==
  /\ pc = "consolidar"
  /\ \E p \in particiones : \E q \in Siguiente(index) :
       /\ p.pos = index
       /\ ~Unibles(p, q)
       /\ index' \in IF p.tam = q.tam THEN Posterior(q.pos) ELSE {q.pos}
  /\ UNCHANGED <<config, particiones, memoria, colaMensajes, CONTADORLRUBUDDY, queue, porEncolar,
                 ID_INICIAL, mensaje, pc>>

TerminarConsolidacion ==
  /\ pc = "consolidar"
  /\ Siguiente(index) = {}
  /\ pc' = "buscar"
  /\ index' = 0
  /\ UNCHANGED <<config, particiones, memoria, colaMensajes, CONTADORLRUBUDDY, queue, porEncolar,
                 ID_INICIAL, mensaje>>

(****************************************************************************)
(* The rest of the Broker, as far as it touches this state.                 *)
(****************************************************************************)
EnviarUltimo ==
  /\ pc = "libre"
  /\ CONTADORLRUBUDDY < MaxMensajes + MaxEnvios
  /\ \E p \in Ocupadas :
       /\ p.id \in queue
       /\ particiones' = (particiones \ {p}) \cup {[p EXCEPT !.lru = CONTADORLRUBUDDY + 1]}
  /\ CONTADORLRUBUDDY' = CONTADORLRUBUDDY + 1
  /\ UNCHANGED <<config, memoria, colaMensajes, queue, porEncolar, ID_INICIAL, mensaje, index, pc>>

AgregarIdCola(id) ==
  /\ id \in porEncolar
  /\ porEncolar' = porEncolar \ {id}
  /\ queue' = queue \cup {id}
  /\ UNCHANGED <<config, particiones, memoria, colaMensajes, CONTADORLRUBUDDY, ID_INICIAL, mensaje,
                 index, pc>>

SinMasMensajes ==
  /\ pc = "libre"
  /\ ID_INICIAL = MaxMensajes
  /\ UNCHANGED vars

\* The steps a handler takes with mutexMemoria held.
Ciclo ==
  \/ Buscar \/ Partir \/ Almacenar
  \/ EliminarParticionBuddy
  \/ Unir \/ Avanzar \/ TerminarConsolidacion

Next ==
  \/ \E t \in TamanosMensaje : CachearMensajeBuddy(t) \/ NoCachear(t)
  \/ Ciclo
  \/ EnviarUltimo
  \/ \E id \in porEncolar : AgregarIdCola(id)
  \/ SinMasMensajes

Spec == Init /\ [][Next]_vars
------------------------------------------------------------------------------
(****************************************************************************)
(* Properties.                                                              *)
(****************************************************************************)
\* Partitions have power-of-two sizes and start inside the memory; index may be one past
\* the last partition.
TypeOK ==
  /\ config \in Configuraciones
  /\ particiones \subseteq Particion
  /\ memoria \in [Bytes -> (Nat \cup {NoId}) \X Nat]
  /\ colaMensajes \in Seq(Nat)
  /\ CONTADORLRUBUDDY \in Nat
  /\ queue \subseteq Nat
  /\ porEncolar \subseteq Nat
  /\ ID_INICIAL \in 0..MaxMensajes
  /\ mensaje \in [id : Nat \cup {NoId}, tam : 0..TAMANO_MEMORIA]
  /\ index \in 0..TAMANO_MEMORIA
  /\ pc \in {"libre", "buscar", "partir", "consolidar"}

\* The partitions tile the memory whatever splits and merges have happened (l.113-157,
\* l.431-464), merges of partitions that are not buddies included.
Particionado ==
  /\ \A p \in particiones : p.pos + p.tam <= TAMANO_MEMORIA
  /\ \A p, q \in particiones : p # q => p.pos + p.tam <= q.pos \/ q.pos + q.tam <= p.pos
  /\ \A b \in Bytes : \E p \in particiones : p.pos <= b /\ b < p.pos + p.tam

\* A cached message can be read back byte by byte from its partition.
ContenidoIntegro ==
  \A p \in Ocupadas :
    /\ p.tamMsg \in 1..p.tam
    /\ \A k \in 0 .. p.tamMsg - 1 : memoria[p.pos + k] = <<p.id, k>>

\* An occupied partition is the smallest the buddy system can give: the minimum, or less
\* than twice the message (the size cargarDatosParticionBuddy assigns, l.266-269).
TamanoJusto ==
  \A p \in Ocupadas : \/ p.tam = TAMANO_MINIMO_PARTICION
                      \/ p.tam > TAMANO_MINIMO_PARTICION /\ p.tam \div 2 < p.tamMsg

\* A message that fits in the memory is cached, evicting others: the only reason the code
\* gives for not caching one is its length (l.42).  So when the search fails there is a
\* message to evict; the queue_pop of l.386 and the list_get of l.413 rely on it.
HayVictima == pc = "buscar" /\ Candidatas(mensaje.tam) = {} => Ocupadas # {}
==============================================================================
