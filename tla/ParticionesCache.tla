--------------------------- MODULE ParticionesCache ---------------------------
(****************************************************************************)
(* The dynamic partitions implement the abstract message cache: a cached    *)
(* message is an occupied partition, its bytes are read from principioMemoria *)
(* at the partition's position, and splitting, merging and compacting are   *)
(* invisible.                                                               *)
(****************************************************************************)
EXTENDS Particiones

MensajesEnMemoria ==
  {[id |-> p.id, tam |-> p.tamMsg, marca |-> p.lru,
    bytes |-> [k \in 0 .. p.tamMsg - 1 |-> memoria[p.pos + k]]] : p \in Ocupadas}

Abs == INSTANCE CacheMensajes WITH
         Capacidad <- TAMANO_MEMORIA,
         Tamanos   <- TamanosMensaje,
         reemplazo <- ALGORITMO_REEMPLAZO,
         cache     <- MensajesEnMemoria,
         pedido    <- mensaje,
         reloj     <- CONTADORLRU,
         siguiente <- ID_INICIAL

\* ejecutarCicloNormal is a correct cache (l.543-569): every behaviour of the partition
\* memory, fairness included, is one of the abstract cache.
ImplementaCache == Abs!SpecCache

\* Its safety half: nothing is done that a cache may not do, with no promise of progress.
ImplementaCacheSegura == Abs!InitCache /\ [][Abs!NextCache]_(Abs!varsCache)
==============================================================================
