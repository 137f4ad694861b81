---------------------------- MODULE MCParticiones ----------------------------
(* Instances of Particiones for TLC: sizes of the messages and configurations. *)
EXTENDS ParticionesCache

\* Smaller than the minimum partition, odd, half of the memory and all of it.
Tamanos == {1, 3, 4, 8}
\* One small, one larger, and one that does not fit in the memory.
TamanosConLargo == {1, 3, 9}

Configuracion(libre, reemplazo, frecuencia) ==
  [ALGORITMO_PARTICION_LIBRE |-> libre, ALGORITMO_REEMPLAZO |-> reemplazo,
   FRECUENCIA_COMPACTACION |-> frecuencia]

\* Both cycles, each algorithm in each of them.
AmbosCiclos == {Configuracion("FF", "FIFO", 1), Configuracion("BF", "LRU", 2),
                Configuracion("BF", "FIFO", -1), Configuracion("FF", "LRU", -1)}
CicloNormal == {Configuracion("FF", "FIFO", 1), Configuracion("BF", "LRU", 2)}
=============================================================================
