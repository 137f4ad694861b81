------------------------------- MODULE MCBuddy -------------------------------
(* Instances of Buddy for TLC: powers of two, sizes of the messages, configurations. *)
EXTENDS BuddyCache

Potencias8  == {1, 2, 4, 8}
Potencias16 == {1, 2, 4, 8, 16}

\* One size for each order of partition of a memory of 8, and one that does not fit.
Tamanos8 == {1, 2, 3, 8, 9}
\* A memory of 16 in quarters.
Tamanos16 == {4, 8, 16}

Configuracion(libre, reemplazo) ==
  [ALGORITMO_PARTICION_LIBRE |-> libre, ALGORITMO_REEMPLAZO |-> reemplazo]
DosConfiguraciones == {Configuracion("FF", "FIFO"), Configuracion("BF", "LRU")}
PrimeraFIFO == {Configuracion("FF", "FIFO")}
=============================================================================
