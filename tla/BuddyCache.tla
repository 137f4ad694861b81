------------------------------ MODULE BuddyCache ------------------------------
(* The buddy system against the abstract message cache. *)
EXTENDS Buddy

MensajesEnMemoria ==
  {[id |-> p.id, tam |-> p.tamMsg, marca |-> p.lru,
    bytes |-> [k \in 0 .. p.tamMsg - 1 |-> memoria[p.pos + k]]] : p \in Ocupadas}

Abs == INSTANCE CacheMensajes WITH
         Capacidad <- TAMANO_MEMORIA,
         Tamanos   <- TamanosMensaje,
         reemplazo <- ALGORITMO_REEMPLAZO,
         cache     <- MensajesEnMemoria,
         pedido    <- mensaje,
         reloj     <- CONTADORLRUBUDDY,
         siguiente <- ID_INICIAL

\* Whatever the buddy system does is what a cache may do: it gives up messages one at a
\* time, in the order of the configured algorithm, and only while one is waiting
\* (l.28-44, l.382-429).
ImplementaCacheSegura == Abs!InitCache /\ [][Abs!NextCache]_(Abs!varsCache)
==============================================================================
