---------------------------- MODULE CacheMensajes ----------------------------
(****************************************************************************)
(* What the Broker's message cache promises, with no partitions in sight:   *)
(* a bounded set of messages, each with the bytes it was published with;    *)
(* room is made by giving up cached messages one at a time, oldest or least *)
(* recently used first, and only while another message is waiting.          *)
(****************************************************************************)
EXTENDS Integers, FiniteSets, Functions

CONSTANTS Capacidad, Tamanos, MaxMensajes

VARIABLES reemplazo, \* "FIFO" or "LRU", for good
          cache,     \* the cached messages
          pedido,    \* the message being cached
          reloj,     \* grows with every use of a message
          siguiente  \* the next identifier

varsCache == <<reemplazo, cache, pedido, reloj, siguiente>>

Ninguno == [id |-> -1, tam |-> 0]

Contenido(id, t) == [k \in 0 .. t - 1 |-> <<id, k>>]

\* How many bytes are cached.
Ocupado == Cardinality(UNION {Range(m.bytes) : m \in cache})

\* The message to give up: the first one cached, or the one used longest ago.
EsVictima(v) ==
  \A w \in cache : IF reemplazo = "FIFO" THEN v.id <= w.id ELSE v.marca <= w.marca

InitCache == /\ reemplazo \in {"FIFO", "LRU"}
             /\ cache = {}
             /\ pedido = Ninguno
             /\ reloj = 0
             /\ siguiente = 0

Pedir(t) ==
  /\ pedido = Ninguno
  /\ t <= Capacidad
  /\ siguiente < MaxMensajes
  /\ pedido' = [id |-> siguiente, tam |-> t]
  /\ siguiente' = siguiente + 1
  /\ UNCHANGED <<cache, reloj>>

Rechazar(t) ==
  /\ t > Capacidad
  /\ siguiente < MaxMensajes
  /\ siguiente' = siguiente + 1
  /\ UNCHANGED <<cache, pedido, reloj>>

Desalojar ==
  /\ pedido # Ninguno
  /\ \E v \in cache : EsVictima(v) /\ cache' = cache \ {v}
  /\ UNCHANGED <<pedido, reloj, siguiente>>

Guardar ==
  /\ pedido # Ninguno
  /\ Ocupado + pedido.tam <= Capacidad
  /\ reloj' = reloj + 1
  /\ cache' = cache \cup {[id |-> pedido.id, tam |-> pedido.tam, marca |-> reloj',
                           bytes |-> Contenido(pedido.id, pedido.tam)]}
  /\ pedido' = Ninguno
  /\ UNCHANGED siguiente

Usar ==
  /\ pedido = Ninguno
  /\ \E m \in cache :
       /\ reloj' = reloj + 1
       /\ cache' = (cache \ {m}) \cup {[m EXCEPT !.marca = reloj']}
  /\ UNCHANGED <<pedido, siguiente>>

NextCache ==
  /\ \/ \E t \in Tamanos : Pedir(t) \/ Rechazar(t)
     \/ Desalojar
     \/ Guardar
     \/ Usar
  /\ UNCHANGED reemplazo

\* Caching a message finishes: it does not evict or reorganise for ever.
SpecCache == InitCache /\ [][NextCache]_varsCache /\ WF_varsCache(NextCache /\ (Desalojar \/ Guardar))
==============================================================================
