--------------------------------- MODULE MCTeam ---------------------------------
(****************************************************************************)
(* Teams of two and three trainers for Team.                                *)
(****************************************************************************)
EXTENDS Team

CONSTANTS A, B, C

Pokemon(n, s, x, y) == [n |-> n, especie |-> s, posicion |-> <<x, y>>]
Nuevo(x, y, buscados, capturados) ==
  [posicion |-> <<x, y>>, buscados |-> buscados, capturados |-> capturados]

Caso(planificador, entrenadores, sueltos, fallos, caidas, duplicados) ==
  [planificador |-> planificador, entrenadores |-> entrenadores, libres |-> sueltos,
   fallos |-> fallos, caidas |-> caidas, duplicados |-> duplicados]

\* Two trainers that want A and B; each may get what the other one wants.
Dos == <<Nuevo(0, 0, <<A, B>>, <<A>>), Nuevo(3, 0, <<A, B>>, <<B>>)>>
AB  == {Pokemon(1, A, 1, 0), Pokemon(2, B, 2, 0)}

\* One that catches twice.
Mixto == <<Nuevo(0, 0, <<A, B>>, <<>>), Nuevo(4, 0, <<B>>, <<>>)>>
ABB   == {Pokemon(1, A, 1, 0), Pokemon(2, B, 2, 0), Pokemon(3, B, 3, 1)}

\* A cycle of three: each lacks what the next one has to spare.
Tres == <<Nuevo(0, 0, <<A, B>>, <<A>>), Nuevo(2, 0, <<A>>, <<>>), Nuevo(4, 0, <<C>>, <<>>)>>
ABC  == {Pokemon(1, C, 1, 0), Pokemon(2, B, 3, 0), Pokemon(3, A, 5, 0)}

\* Two that want something of the one in the middle, and only the first can pay for it.
Medio == <<Nuevo(0, 0, <<A>>, <<>>), Nuevo(2, 0, <<B, C>>, <<A>>), Nuevo(4, 0, <<A>>, <<>>)>>
BAC   == {Pokemon(1, B, 1, 0), Pokemon(2, A, 3, 0), Pokemon(3, C, 5, 0)}

\* Two of one species in the map.
Iguales == <<Nuevo(0, 0, <<A>>, <<>>), Nuevo(3, 0, <<A>>, <<>>)>>
AA      == {Pokemon(1, A, 1, 0), Pokemon(2, A, 2, 0)}

MCCasos ==
  {Caso("FIFO", Dos, AB, 1, 0, 0), Caso("FIFO", Tres, ABC, 0, 0, 0),
   Caso("SJF_SD", Medio, BAC, 0, 0, 0), Caso("RR", Mixto, ABB, 0, 0, 0),
   Caso("SJF_SD", Dos, AB, 0, 0, 1), Caso("SJF_CD", Dos, AB, 0, 0, 0),
   Caso("RR", Iguales, AA, 0, 1, 0), Caso("FIFO", Iguales, AA, 1, 0, 0)}

\* One pokemon more than what is wanted, of a species that is.
MCCasosSobra ==
  {Caso("FIFO", <<Nuevo(0, 0, <<A>>, <<>>), Nuevo(4, 0, <<B>>, <<>>)>>, ABB, 0, 0, 0)}

MCEspecies == {A, B, C}
=================================================================================
