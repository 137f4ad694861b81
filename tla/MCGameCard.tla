------------------------------ MODULE MCGameCard ------------------------------
(****************************************************************************)
(* Values for GameCard: pikachu and onix with a line per block, mew with    *)
(* lines of two.  The cases give each thread few messages, chosen so that   *)
(* together they create a file, add to it, empty it, shrink it, and run out *)
(* of blocks.                                                               *)
(****************************************************************************)
EXTENDS GameCard

CONSTANTS pikachu, onix, mew

M(o, f, p) == [op |-> o, archivo |-> f, pos |-> p]
L(p, n) == [pos |-> p, cantidad |-> n]
NoEsta == [existe |-> "no", bloques |-> <<>>, abierto |-> "N"]

MCHilos == {"NEW", "CATCH", "GET", "GAMEBOY"}
MCDelBroker == {"NEW", "CATCH", "GET"}

Bandejas(n, c, g, gb) ==
  [h \in MCHilos |-> CASE h = "NEW" -> n [] h = "CATCH" -> c [] h = "GET" -> g [] OTHER -> gb]

Disco(metas, contenido, b, k, r) ==
  [meta |-> metas,
   bloque |-> [i \in Bloques |-> IF i + 1 \in DOMAIN contenido THEN contenido[i + 1] ELSE <<>>],
   bandeja |-> b, cortes |-> k, reinicios |-> r]

\* mew has the last two blocks: four are left for the others.
Caso(p, o, contenido, b, k, r) ==
  Disco([f \in Archivos |-> CASE f = pikachu -> p [] f = onix -> o [] OTHER -> Metadata(<<4, 5>>, "N")],
        [i \in 1..6 |-> IF i \in DOMAIN contenido THEN contenido[i]
                        ELSE IF i > 4 THEN <<L(1, 1)>> ELSE <<>>], b, k, r)

\* An empty disk: pikachu created and added to, onix created by a GameBoy.
Vacio(b, k, r) == Caso(NoEsta, NoEsta, <<>>, b, k, r)
Crean == Bandejas(<<M("NEW", pikachu, 1), M("NEW", pikachu, 2)>>, <<>>, <<>>,
                  <<M("NEW", onix, 1)>>)
Chocan == Bandejas(<<M("NEW", pikachu, 1)>>, <<M("CATCH", pikachu, 1)>>, <<>>,
                   <<M("NEW", pikachu, 2)>>)
Crea  == Bandejas(<<M("NEW", pikachu, 1)>>, <<>>, <<M("GET", pikachu, 1)>>, <<>>)

\* pikachu in two blocks: one is given back while onix takes one.
EnDos(b, k, r) ==
  Caso(Metadata(<<0, 1>>, "N"), NoEsta, <<<<L(1, 1)>>, <<L(2, 2)>>>>, b, k, r)
Suelta == Bandejas(<<M("NEW", onix, 1)>>, <<M("CATCH", pikachu, 1), M("CATCH", pikachu, 2)>>,
                   <<>>, <<>>)
Llena  == Bandejas(<<M("NEW", onix, 1), M("NEW", onix, 2), M("NEW", pikachu, 2)>>,
                   <<M("CATCH", pikachu, 1)>>, <<>>, <<>>)
Repite == Bandejas(<<>>, <<M("CATCH", pikachu, 2)>>, <<>>, <<M("NEW", pikachu, 1)>>)
Lee    == Bandejas(<<>>, <<M("CATCH", pikachu, 1), M("CATCH", pikachu, 2), M("CATCH", pikachu, 2)>>,
                   <<M("GET", pikachu, 1)>>, <<>>)

\* Both files exist, a block each: emptied, read and added to.
Existen(b, k, r) ==
  Caso(Metadata(<<1>>, "N"), Metadata(<<0>>, "N"), <<<<L(1, 1)>>, <<L(1, 1)>>>>, b, k, r)
Usan == Bandejas(<<M("NEW", pikachu, 1), M("NEW", onix, 2)>>, <<M("CATCH", onix, 1)>>,
                 <<M("GET", pikachu, 1)>>, <<>>)
Usa  == Bandejas(<<M("NEW", pikachu, 2), M("NEW", onix, 2)>>, <<M("CATCH", onix, 1)>>, <<>>, <<>>)

\* Three long lines: one block too many stays in the list after each CATCH but the last,
\* and its lines are read again; the block it takes is given to pikachu.
Largas(b, k, r) ==
  Disco([f \in Archivos |-> IF f = mew THEN Metadata(<<0, 1, 2, 3, 4, 5>>, "N") ELSE NoEsta],
        <<<<L(1, 1)>>, <<L(1, 1)>>, <<L(2, 1)>>, <<L(2, 1)>>, <<L(3, 1)>>, <<L(3, 1)>>>>, b, k, r)
Acorta == Bandejas(<<M("NEW", pikachu, 1)>>,
                   <<M("CATCH", mew, 1), M("CATCH", mew, 2), M("CATCH", mew, 3), M("CATCH", mew, 3)>>,
                   <<>>, <<>>)
\* mew emptied, and written again, while pikachu is created.
Pierde == Bandejas(<<M("NEW", mew, 2)>>, <<M("CATCH", mew, 1)>>, <<>>, <<M("NEW", pikachu, 1)>>)

MCBloquesPorLinea == [f \in Archivos |-> IF f = mew THEN 2 ELSE 1]

MCCasos == {Largas(Acorta, 0, 0), Vacio(Pierde, 0, 0), Vacio(Crean, 0, 0), Vacio(Chocan, 0, 0), Vacio(Crea, 1, 1), EnDos(Suelta, 0, 0), EnDos(Llena, 0, 0),
            EnDos(Repite, 1, 0), EnDos(Lee, 0, 1), Existen(Usan, 0, 0), Existen(Usa, 0, 1)}
==============================================================================
