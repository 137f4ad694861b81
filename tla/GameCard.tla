------------------------------- MODULE GameCard -------------------------------
(****************************************************************************)
(* The GameCard: its file system TALL_GRASS (gm_filesystem.c) and the       *)
(* threads that serve it (Gamecard.c): one for each queue of the Broker,    *)
(* and one for each GameBoy connected.  Each serves a message at a time.    *)
(*                                                                          *)
(* Files: meta[f] is Files/<f>/Metadata.bin.  "roto" is a Metadata.bin that *)
(* is missing or truncated: fopen "w+" empties it and config_save fills it. *)
(* A line is (position, amount); its bytes, and the SIZE that nobody reads, *)
(* are left out.  In the files of Cortos LINEAS_POR_BLOQUE lines fill a     *)
(* block; a line of another file f, with more digits, fills                 *)
(* BLOQUES_POR_LINEA[f] of them, and each has it as its content here.       *)
(* The bitmap is an mmap MAP_SHARED: it outlives the process, as the files  *)
(* do.                                                                      *)
(*                                                                          *)
(* Threads share config_metadata (config: the file it was created for) and  *)
(* the dictionary files_open of a mutex per file (mArchivo).  OPEN is read  *)
(* without that mutex.  carreras is the history of the races that happened: *)
(*   archivo  a Metadata.bin that changed since this thread's last look     *)
(*   config   config_metadata created while another thread is using it      *)
(*   bitmap   a block that two threads saw free                             *)
(*   bloque   a block given away before its former owner has emptied it     *)
(****************************************************************************)
EXTENDS Integers, FiniteSets, SequencesExt

CONSTANTS Archivos, Posiciones, Hilos,
          DelBroker,           \* the threads of handler_broker; the others are GameBoys
          BLOCKS, LINEAS_POR_BLOQUE, BLOQUES_POR_LINEA,
          Casos    \* initial disk (meta, bloque), messages of each thread (bandeja), and
                   \* bounds: lost connections (cortes), restarts (reinicios)

Ninguno == "ninguno"
Roto == [existe |-> "roto", bloques |-> <<>>, abierto |-> "N"]
Metadata(bs, a) == [existe |-> "si", bloques |-> bs, abierto |-> a]

\* obtener_conf_free_block has no upper bound: numbers past the disk may be given.
Bloques == 0..(BLOCKS + Cardinality(Hilos) - 1)

ASSUME GameCardAssumption ==
  /\ IsFiniteSet(Hilos) /\ DelBroker \subseteq Hilos
  /\ BLOCKS \in Nat /\ LINEAS_POR_BLOQUE \in Nat \ {0}
  /\ BLOQUES_POR_LINEA \in [Archivos -> Nat \ {0}]
  /\ Ninguno \notin Hilos \cup Archivos

Mensaje == [op : {"NEW", "CATCH", "GET"}, archivo : Archivos, pos : Posiciones]
Linea == [pos : Posiciones, cantidad : Nat \ {0}]
MetadataBin == [existe : {"no", "roto", "si"}, bloques : Seq(Bloques), abierto : {"N", "Y"}]

VARIABLES
  meta, bloque, bitmap,      \* the disk
  config, mArchivo,          \* shared memory
  pc, sigue,                 \* of each thread: next step, and the one after config_save
  creando,                   \*   it creates the file: no mutex is taken
  libres,                    \*   freeBlocks, counted before anything else
  vista,                     \*   the Metadata.bin it read or wrote last
  lista, lineas,             \*   listBlocks, pokemonLines
  tomado,                    \*   block found free, or block dropped
  escritos,                  \*   blocks written so far
  valor,                     \*   the values set in config_metadata
  hizo,                      \*   what becomes of the message
  bandeja, estado,           \* messages of each thread, in order; what became of each
  actual,                    \*   the one it works on
  vivo,                      \* "si", or what ended the process
  cortes, quedan,            \* bounds left: lost connections, restarts
  carreras, tomadores,       \* history: races; threads that took blocks
  reinicios,                 \* history: restarts
  hecho                      \* history: pokemons there should be, by file and position

disco    == <<meta, bloque, bitmap>>
memoria  == <<config, mArchivo>>
operacion == <<sigue, creando, libres, vista, lista, lineas, tomado, escritos, valor, hizo>>
mensajes == <<bandeja, estado, actual>>
sistema  == <<vivo, cortes, quedan>>
historia == <<carreras, tomadores, reinicios, hecho>>
vars == <<disco, memoria, pc, operacion, mensajes, sistema, historia>>

Pedido(h) == bandeja[h][actual[h]]
Archivo(h) == Pedido(h).archivo

------------------------------------------------------------------------------
\* Lines and blocks go in groups: several lines on a block, or a line on several blocks.
Cortos == {f \in Archivos : BLOQUES_POR_LINEA[f] = 1}
LineasPorGrupo(f) == IF f \in Cortos THEN LINEAS_POR_BLOQUE ELSE 1

\* leer_pokemons: the lines of a list of blocks, one block after another; the beginning of a
\* line, without its end, is not one.
LineasDe(f, bs, b) ==
  LET k == BLOQUES_POR_LINEA[f]
  IN  FlattenSeq([g \in 1..(Len(bs) \div k) |-> b[bs[g * k]]])

\* blocks_ocupados of the text of n lines: at least a block.
BlocksOcupados(f, n) ==
  IF n = 0 THEN 1 ELSE BLOQUES_POR_LINEA[f] * (1 + (n - 1) \div LineasPorGrupo(f))

CoordinateExists(pos, ls) == \E i \in DOMAIN ls : ls[i].pos = pos

\* addTotalPokemonIfCoordinateExist, or a new line at the end.  Messages carry one pokemon.
ConUnoMas(pos, ls) ==
  IF CoordinateExists(pos, ls)
  THEN [i \in DOMAIN ls |-> IF ls[i].pos = pos THEN [ls[i] EXCEPT !.cantidad = @ + 1] ELSE ls[i]]
  ELSE Append(ls, [pos |-> pos, cantidad |-> 1])

\* deletePokemonTotalIfCoordinateExist: the last one takes its line with it, and then the loop
\* skips the line that list_remove puts in its place.
MalConUnoMenos(pos, ls) ==
  [i \in DOMAIN ls |-> IF ls[i].pos = pos THEN [ls[i] EXCEPT !.cantidad = @ - 1] ELSE ls[i]]
ConUnoMenos(pos, ls) ==
  LET saltea[i \in DOMAIN ls] ==
        i > 1 /\ ls[i - 1].pos = pos /\ ls[i - 1].cantidad = 1 /\ ~saltea[i - 1]
      queda(i) == IF ls[i].pos # pos \/ saltea[i] THEN <<ls[i]>>
                  ELSE IF ls[i].cantidad = 1 THEN <<>> ELSE <<[ls[i] EXCEPT !.cantidad = @ - 1]>>
  IN  FlattenSeq([i \in DOMAIN ls |-> queda(i)])

\* escribir_blocks: what goes to the i-th block of the list.
MalTrozo(f, ls, i) == SubSeq(ls, 1, LineasPorGrupo(f))
Trozo(f, ls, i) ==
  LET grupo == 1 + (i - 1) \div BLOQUES_POR_LINEA[f]
      hasta == grupo * LineasPorGrupo(f)
  IN  SubSeq(ls, hasta - LineasPorGrupo(f) + 1, IF hasta < Len(ls) THEN hasta ELSE Len(ls))

\* liberar_blocks, of the disk alone; obtener_conf_free_block, wherever it is.
MalLiberarBlocks == Cardinality(Bloques \ bitmap)
LiberarBlocks == BLOCKS - Cardinality(bitmap \cap 0..(BLOCKS - 1))
PrimerLibre(b) == b \in Bloques \ bitmap /\ \A j \in Bloques \ bitmap : b <= j

\* The pokemons that lines have at a position, and those of the files by position.
Cantidad(p, ls) == MapThenSumSet(LAMBDA i : ls[i].cantidad, {i \in DOMAIN ls : ls[i].pos = p})
Guardado(m, b) ==
  [f \in Archivos |-> [p \in Posiciones |-> Cantidad(p, LineasDe(f, m[f].bloques, b))]]

\* A disk in order, as it is when it is created or as a process that nobody interrupted left
\* it: every file closed, with blocks of the disk and of no other, and as many as its lines
\* need if they are short (a CATCH of a longer one may have left more).
UnaPorPosicion(ls) == \A i, j \in DOMAIN ls : ls[i].pos = ls[j].pos => i = j
Justos(f, bs, ls) == Len(bs) = IF ls = <<>> THEN 0 ELSE BlocksOcupados(f, Len(ls))
DiscoEnOrden(m, b) ==
  /\ m \in [Archivos -> MetadataBin] /\ b \in [Bloques -> Seq(Linea)]
  /\ \A f \in Archivos :
       /\ m[f].abierto = "N" /\ m[f].existe # "roto"
       /\ m[f].existe = "no" => m[f].bloques = <<>>
       /\ Range(m[f].bloques) \subseteq 0..(BLOCKS - 1)
       /\ f \in Cortos => LET ls == LineasDe(f, m[f].bloques, b)
                          IN  UnaPorPosicion(ls) /\ Justos(f, m[f].bloques, ls)
  /\ \A f, g \in Archivos : \A i \in DOMAIN m[f].bloques, j \in DOMAIN m[g].bloques :
       m[f].bloques[i] = m[g].bloques[j] => f = g /\ i = j

ASSUME CasosAssumption ==
  \A c \in Casos :
    /\ DiscoEnOrden(c.meta, c.bloque)
    /\ c.bandeja \in [Hilos -> Seq(Mensaje)] /\ c.cortes \in Nat /\ c.reinicios \in Nat

\* The memory of a thread between two messages, and of all of them when the process starts.
Reposo(h) ==
  /\ pc' = [pc EXCEPT ![h] = "espera"]        /\ sigue' = [sigue EXCEPT ![h] = "espera"]
  /\ creando' = [creando EXCEPT ![h] = FALSE] /\ libres' = [libres EXCEPT ![h] = 0]
  /\ vista' = [vista EXCEPT ![h] = Roto]      /\ valor' = [valor EXCEPT ![h] = Roto]
  /\ lista' = [lista EXCEPT ![h] = <<>>]      /\ lineas' = [lineas EXCEPT ![h] = <<>>]
  /\ tomado' = [tomado EXCEPT ![h] = -1]      /\ escritos' = [escritos EXCEPT ![h] = 0]
  /\ hizo' = [hizo EXCEPT ![h] = "nada"]

Init ==
  \E c \in Casos :
    /\ meta = c.meta /\ bloque = c.bloque
    /\ bitmap = UNION {Range(c.meta[f].bloques) : f \in Archivos}
    /\ config = Ninguno /\ mArchivo = [f \in Archivos |-> Ninguno]
    /\ pc = [h \in Hilos |-> "espera"]      /\ sigue = [h \in Hilos |-> "espera"]
    /\ creando = [h \in Hilos |-> FALSE]    /\ libres = [h \in Hilos |-> 0]
    /\ vista = [h \in Hilos |-> Roto]       /\ valor = [h \in Hilos |-> Roto]
    /\ lista = [h \in Hilos |-> <<>>]       /\ lineas = [h \in Hilos |-> <<>>]
    /\ tomado = [h \in Hilos |-> -1]        /\ escritos = [h \in Hilos |-> 0]
    /\ hizo = [h \in Hilos |-> "nada"]
    /\ bandeja = c.bandeja /\ actual = [h \in Hilos |-> 0]
    /\ estado = [h \in Hilos |-> [i \in DOMAIN c.bandeja[h] |-> "falta"]]
    /\ vivo = "si" /\ cortes = c.cortes /\ quedan = c.reinicios
    /\ carreras = {} /\ tomadores = {} /\ reinicios = 0
    /\ hecho = Guardado(c.meta, c.bloque)

------------------------------------------------------------------------------
(****************************************************************************)
(* The end of the process, killed or by a fault.  The Broker sends all it   *)
(* has again to the next one, which has another pid; a GameBoy does not.    *)
(****************************************************************************)
Morir(como) ==
  /\ vivo' = como
  /\ config' = Ninguno /\ mArchivo' = [f \in Archivos |-> Ninguno]
  /\ pc' = [h \in Hilos |-> "espera"]      /\ sigue' = [h \in Hilos |-> "espera"]
  /\ creando' = [h \in Hilos |-> FALSE]    /\ libres' = [h \in Hilos |-> 0]
  /\ vista' = [h \in Hilos |-> Roto]       /\ valor' = [h \in Hilos |-> Roto]
  /\ lista' = [h \in Hilos |-> <<>>]       /\ lineas' = [h \in Hilos |-> <<>>]
  /\ tomado' = [h \in Hilos |-> -1]        /\ escritos' = [h \in Hilos |-> 0]
  /\ hizo' = [h \in Hilos |-> "nada"]
  /\ estado' = [h \in Hilos |-> [i \in DOMAIN bandeja[h] |->
                  IF h \in DelBroker THEN "falta"
                  ELSE IF i = actual[h] THEN "perdido" ELSE estado[h][i]]]
  /\ actual' = [h \in Hilos |-> 0]
  /\ UNCHANGED <<disco, bandeja, cortes, quedan, tomadores, reinicios, hecho>>

Caer ==
  /\ vivo = "si" /\ quedan > 0
  /\ Morir("matado")
  /\ UNCHANGED carreras

\* gm_structs_fs finds the directories, the Bitmap.bin and the files as they were left.
Reiniciar ==
  /\ vivo # "si" /\ quedan > 0
  /\ vivo' = "si" /\ quedan' = quedan - 1 /\ reinicios' = reinicios + 1
  /\ UNCHANGED <<disco, memoria, pc, operacion, mensajes, cortes, carreras, tomadores, hecho>>

(****************************************************************************)
(* A Metadata.bin is rewritten in two steps: fopen and config_create, then  *)
(* config_save and config_destroy.  actualizar_pokemon_metadata sets all    *)
(* the values; updateOpenFileState reads the file for the ones it keeps.    *)
(* Only createNewPokemon, for a new file, does it without its mutex.        *)
(****************************************************************************)
Truncar(h, v, luego) ==
  /\ creando[h] \/ mArchivo[Archivo(h)] = Ninguno
  /\ mArchivo' = IF creando[h] THEN mArchivo ELSE [mArchivo EXCEPT ![Archivo(h)] = h]
  /\ meta' = [meta EXCEPT ![Archivo(h)] = Roto]
  /\ config' = Archivo(h)
  /\ carreras' = carreras \cup (IF meta[Archivo(h)] # vista[h] THEN {"archivo"} ELSE {})
                          \cup (IF config # Ninguno THEN {"config"} ELSE {})
  /\ valor' = [valor EXCEPT ![h] = v]
  /\ sigue' = [sigue EXCEPT ![h] = luego]
  /\ pc' = [pc EXCEPT ![h] = "guardar"]
  /\ UNCHANGED <<bloque, bitmap, creando, libres, vista, lista, lineas, tomado, escritos, hizo,
                 mensajes, sistema, tomadores, reinicios, hecho>>

UpdateOpenFileState(h, open, luego) ==
  IF meta[Archivo(h)].existe = "si"
  THEN Truncar(h, Metadata(meta[Archivo(h)].bloques, open), luego)
  ELSE /\ mArchivo[Archivo(h)] = Ninguno
       /\ Morir("segfault")
       /\ carreras' = carreras \cup {"archivo"}

\* config_metadata may be another file's, with part of the values, or destroyed already.
Guardar(h) ==
  /\ vivo = "si" /\ pc[h] = "guardar"
  /\ IF config = Ninguno
     THEN Morir("segfault") /\ UNCHANGED carreras
     ELSE /\ \E v \in {valor[h]} \cup (IF "config" \in carreras THEN {Roto} ELSE {}) :
               meta' = [meta EXCEPT ![config] = v]
          /\ config' = Ninguno
          /\ mArchivo' = IF creando[h] THEN mArchivo ELSE [mArchivo EXCEPT ![Archivo(h)] = Ninguno]
          /\ vista' = [vista EXCEPT ![h] = valor[h]]
          /\ valor' = [valor EXCEPT ![h] = Roto]
          /\ pc' = [pc EXCEPT ![h] = sigue[h]]
          /\ UNCHANGED <<bloque, bitmap, sigue, creando, libres, lista, lineas, tomado, escritos,
                         hizo, mensajes, sistema, historia>>
------------------------------------------------------------------------------
(****************************************************************************)
(* A message is taken: createNewPokemon, catchAPokemon and getAPokemon look *)
(* for the file.  CATCH of a file that does not exist answers an int that   *)
(* nobody has set; GET answers no position.                                 *)
(****************************************************************************)
Empezar(h) ==
  \E i \in DOMAIN bandeja[h] :
    LET p   == bandeja[h][i]
        hay == meta[p.archivo].existe # "no"
        nuevo == p.op = "NEW"
    IN  /\ vivo = "si" /\ pc[h] = "espera"
        /\ estado[h][i] = "falta" /\ \A j \in 1..(i - 1) : estado[h][j] # "falta"
        /\ actual' = [actual EXCEPT ![h] = i]
        /\ libres' = [libres EXCEPT ![h] = IF nuevo THEN LiberarBlocks ELSE 0]
        /\ creando' = [creando EXCEPT ![h] = nuevo /\ ~hay]
        /\ vista' = [vista EXCEPT ![h] = meta[p.archivo]]
        /\ lineas' = [lineas EXCEPT ![h] = IF nuevo /\ ~hay THEN ConUnoMas(p.pos, <<>>) ELSE <<>>]
        /\ pc' = [pc EXCEPT ![h] = IF hay THEN "leer" ELSE IF nuevo THEN "crear" ELSE "publicar"]
        /\ UNCHANGED <<disco, memoria, sigue, lista, tomado, escritos, valor, hizo, bandeja, estado,
                       sistema, historia>>

\* createNewPokemon without a file: room is looked for after creating it, a block for a
\* short line and several for a long one.
HayLugarParaUno(h) == IF libres[h] > BlocksOcupados(Archivo(h), 1) THEN "pedir" ELSE "publicar"

\* crear_archivo: nothing if another thread has created it meanwhile.
MalCrearArchivo(h) ==
  /\ vivo = "si" /\ pc[h] = "crear"
  /\ meta' = [meta EXCEPT ![Archivo(h)] = IF @.existe = "no" THEN Roto ELSE @]
  /\ pc' = [pc EXCEPT ![h] = HayLugarParaUno(h)]
  /\ UNCHANGED <<bloque, bitmap, memoria, operacion, mensajes, sistema, historia>>
CrearArchivo(h) ==
  /\ vivo = "si" /\ pc[h] = "crear"
  /\ IF meta[Archivo(h)].existe = "no"
     THEN Truncar(h, Metadata(<<>>, "N"), HayLugarParaUno(h))
     ELSE /\ pc' = [pc EXCEPT ![h] = HayLugarParaUno(h)]
          /\ UNCHANGED <<disco, memoria, operacion, mensajes, sistema, historia>>

\* leer_metadata_pokemon, until OPEN is N: config_get_string_value of a Metadata.bin
\* without values is NULL, and string_duplicate faults.
MalLeerMetadata(h) ==
  LET f == Archivo(h)
  IN  /\ vivo = "si" /\ pc[h] = "leer" /\ meta[f].existe = "si"
      /\ vista' = [vista EXCEPT ![h] = meta[f]]
      /\ lista' = [lista EXCEPT ![h] = meta[f].bloques]
      /\ pc' = [pc EXCEPT ![h] = "abrir"]
      /\ UNCHANGED <<disco, memoria, sigue, creando, libres, lineas, tomado, escritos, valor,
                     hizo, mensajes, sistema, historia>>
LeerMetadata(h) ==
  LET f == Archivo(h)
  IN  /\ vivo = "si" /\ pc[h] = "leer"
      /\ \/ /\ meta[f].existe = "roto"
            /\ Morir("segfault")
            /\ carreras' = IF \E k \in Hilos : pc[k] = "guardar" THEN carreras \cup {"archivo"}
                           ELSE carreras
         \/ /\ meta[f].existe = "si" /\ meta[f].abierto = "N"
            /\ vista' = [vista EXCEPT ![h] = meta[f]]
            /\ lista' = [lista EXCEPT ![h] = meta[f].bloques]
            /\ pc' = [pc EXCEPT ![h] = "abrir"]
            /\ UNCHANGED <<disco, memoria, sigue, creando, libres, lineas, tomado, escritos, valor,
                           hizo, mensajes, sistema, historia>>

\* The list of blocks to read is the one read before the file was opened.
Abrir(h) ==
  /\ vivo = "si" /\ pc[h] = "abrir"
  /\ UpdateOpenFileState(h, "Y", "bloques")

MalCerrar(h) ==
  /\ vivo = "si" /\ pc[h] = "cerrar"
  /\ UpdateOpenFileState(h, "Y", "publicar")
Cerrar(h) ==
  /\ vivo = "si" /\ pc[h] = "cerrar"
  /\ UpdateOpenFileState(h, "N", "publicar")

(****************************************************************************)
(* With the file open: operateNewPokemonFile, operateGetPokemonFile and     *)
(* operateCatchPokemonFile up to the first change to the disk.              *)
(****************************************************************************)
OperateNew(h) ==
  LET ls  == ConUnoMas(Pedido(h).pos, LineasDe(Archivo(h), lista[h], bloque))
      hacenFalta == BlocksOcupados(Archivo(h), Len(ls))
      entra == libres[h] > hacenFalta
  IN  /\ vivo = "si" /\ pc[h] = "bloques" /\ Pedido(h).op = "NEW"
      /\ lineas' = [lineas EXCEPT ![h] = ls]
      /\ pc' = [pc EXCEPT ![h] = IF ~entra THEN "final"
                                 ELSE IF hacenFalta > Len(lista[h]) THEN "pedir" ELSE "escribir"]
      /\ UNCHANGED <<disco, memoria, sigue, creando, libres, vista, lista, tomado, escritos, valor,
                     hizo, mensajes, sistema, historia>>

OperateGet(h) ==
  /\ vivo = "si" /\ pc[h] = "bloques" /\ Pedido(h).op = "GET"
  /\ lineas' = [lineas EXCEPT ![h] = LineasDe(Archivo(h), lista[h], bloque)]
  /\ pc' = [pc EXCEPT ![h] = "cerrar"]
  /\ UNCHANGED <<disco, memoria, sigue, creando, libres, vista, lista, tomado, escritos, valor,
                 hizo, mensajes, sistema, historia>>

\* A file left without pokemons gives its first block back; one that needs less, its last.
\* One is all there is to give back when lines are short; of a long line the others stay
\* marked in the bitmap, or in the list with what they had.
OperateCatch(h) ==
  LET antes == LineasDe(Archivo(h), lista[h], bloque)
      ls    == ConUnoMenos(Pedido(h).pos, antes)
      esta  == CoordinateExists(Pedido(h).pos, antes)
      suelta == ls = <<>> \/ BlocksOcupados(Archivo(h), Len(ls)) < Len(lista[h])
  IN  /\ vivo = "si" /\ pc[h] = "bloques" /\ Pedido(h).op = "CATCH"
      /\ IF ~esta
         THEN /\ pc' = [pc EXCEPT ![h] = "cerrar"]
              /\ UNCHANGED <<lineas, lista, tomado, hizo>>
         ELSE /\ lineas' = [lineas EXCEPT ![h] = ls]
              /\ hizo' = [hizo EXCEPT ![h] = "atrapado"]
              /\ tomado' = [tomado EXCEPT ![h] = IF ls = <<>> THEN lista[h][1]
                                                 ELSE IF suelta THEN Last(lista[h]) ELSE -1]
              /\ lista' = [lista EXCEPT ![h] = IF ls = <<>> THEN <<>>
                                               ELSE IF suelta THEN Front(@) ELSE @]
              /\ pc' = [pc EXCEPT ![h] = IF ls = <<>> THEN "metadata" ELSE "escribir"]
      /\ UNCHANGED <<disco, memoria, sigue, creando, libres, vista, escritos, valor, mensajes,
                     sistema, historia>>

(****************************************************************************)
(* requestFreeBlocks: obtener_conf_free_block tests the bits until a free   *)
(* one, then sets it.                                                       *)
(****************************************************************************)
BuscarLibre(h) ==
  /\ vivo = "si" /\ pc[h] = "pedir"
  /\ \E b \in Bloques : PrimerLibre(b) /\ tomado' = [tomado EXCEPT ![h] = b]
  /\ pc' = [pc EXCEPT ![h] = "marcar"]
  /\ UNCHANGED <<disco, memoria, sigue, creando, libres, vista, lista, lineas, escritos, valor,
                 hizo, mensajes, sistema, historia>>

ConfBloque(h) ==
  LET b == tomado[h]
      lleva == Append(lista[h], b)
  IN  /\ vivo = "si" /\ pc[h] = "marcar"
      /\ bitmap' = bitmap \cup {b}
      /\ carreras' = carreras
           \cup (IF b \in bitmap THEN {"bitmap"} ELSE {})
           \cup (IF \E k \in Hilos \ {h} : pc[k] = "vaciar" /\ tomado[k] = b THEN {"bloque"} ELSE {})
      /\ tomadores' = tomadores \cup {h}
      /\ lista' = [lista EXCEPT ![h] = lleva]
      /\ tomado' = [tomado EXCEPT ![h] = -1]
      /\ pc' = [pc EXCEPT ![h] = IF Len(lleva) < BlocksOcupados(Archivo(h), Len(lineas[h]))
                                 THEN "pedir" ELSE "escribir"]
      /\ UNCHANGED <<meta, bloque, memoria, sigue, creando, libres, vista, lineas, escritos, valor,
                     hizo, mensajes, sistema, reinicios, hecho>>

\* An iteration of escribir_blocks.
EscribirBlock(h) ==
  LET i == escritos[h] + 1
      ultimo == i >= Len(lista[h]) \/ i >= BlocksOcupados(Archivo(h), Len(lineas[h]))
  IN  /\ vivo = "si" /\ pc[h] = "escribir"
      /\ bloque' = [bloque EXCEPT ![lista[h][i]] = Trozo(Archivo(h), lineas[h], i)]
      /\ escritos' = [escritos EXCEPT ![h] = i]
      /\ hizo' = [hizo EXCEPT ![h] = IF Pedido(h).op = "NEW" THEN "guardado" ELSE @]
      /\ pc' = [pc EXCEPT ![h] = IF ultimo THEN "metadata" ELSE "escribir"]
      /\ UNCHANGED <<meta, bitmap, memoria, sigue, creando, libres, vista, lista, lineas, tomado,
                     valor, mensajes, sistema, historia>>

(****************************************************************************)
(* actualizar_pokemon_metadata with the new list of blocks and OPEN=N.  For *)
(* a NEW of a file that existed it is called again, with or without room.   *)
(****************************************************************************)
DespuesDeActualizar(h) ==
  IF creando[h] THEN "publicar"
  ELSE IF Pedido(h).op = "NEW" THEN "final"
  ELSE IF lineas[h] = <<>> THEN "vaciar"
  ELSE IF tomado[h] # -1 THEN "soltar" ELSE "publicar"

MalActualizarMetadata(h) ==
  /\ vivo = "si" /\ pc[h] = "metadata"
  /\ Truncar(h, Metadata(vista[h].bloques, "N"), DespuesDeActualizar(h))
ActualizarMetadata(h) ==
  /\ vivo = "si" /\ pc[h] = "metadata"
  /\ Truncar(h, Metadata(lista[h], "N"), DespuesDeActualizar(h))

ActualizarOtraVez(h) ==
  /\ vivo = "si" /\ pc[h] = "final"
  /\ Truncar(h, Metadata(lista[h], "N"), "publicar")

\* The block given back: a file left empty empties it and then clears its bit; one that
\* has other blocks clears the bit first.
LiberarBloque(h) ==
  /\ vivo = "si" /\ pc[h] = "soltar"
  /\ bitmap' = bitmap \ {tomado[h]}
  /\ pc' = [pc EXCEPT ![h] = IF lineas[h] = <<>> THEN "publicar" ELSE "vaciar"]
  /\ UNCHANGED <<meta, bloque, memoria, operacion, mensajes, sistema, historia>>

VaciarBloque(h) ==
  /\ vivo = "si" /\ pc[h] = "vaciar"
  /\ bloque' = [bloque EXCEPT ![tomado[h]] = <<>>]
  /\ pc' = [pc EXCEPT ![h] = IF lineas[h] = <<>> THEN "soltar" ELSE "publicar"]
  /\ UNCHANGED <<meta, bitmap, memoria, operacion, mensajes, sistema, historia>>

(****************************************************************************)
(* The answer (APPEARED also when there was no room) and the thread that    *)
(* sends the CONFIRMACION, on a connection of its own.                      *)
(****************************************************************************)
Publicar(h) ==
  LET p == Pedido(h)
      suma == IF hizo[h] = "guardado" THEN 1 ELSE IF hizo[h] = "atrapado" THEN -1 ELSE 0
  IN  /\ vivo = "si" /\ pc[h] = "publicar"
      /\ hecho' = [hecho EXCEPT ![p.archivo][p.pos] = @ + suma]
      /\ estado' = [estado EXCEPT ![h][actual[h]] = "procesado"]
      /\ actual' = [actual EXCEPT ![h] = 0]
      /\ Reposo(h)
      /\ UNCHANGED <<disco, memoria, bandeja, sistema, carreras, tomadores, reinicios>>

EnviarAck(h) ==
  /\ vivo = "si" /\ h \in DelBroker
  /\ \E i \in DOMAIN estado[h] :
       /\ estado[h][i] = "procesado"
       /\ estado' = [estado EXCEPT ![h][i] = "confirmado"]
  /\ UNCHANGED <<disco, memoria, pc, operacion, bandeja, actual, sistema, historia>>

\* recv_message fails: handler_broker subscribes again, and the Broker sends again what
\* it has no CONFIRMACION of.
PerderConexion(h) ==
  /\ vivo = "si" /\ h \in DelBroker /\ pc[h] = "espera" /\ cortes > 0
  /\ "procesado" \in Range(estado[h])
  /\ cortes' = cortes - 1
  /\ estado' = [estado EXCEPT ![h] = [i \in DOMAIN @ |-> IF @[i] = "procesado" THEN "falta" ELSE @[i]]]
  /\ UNCHANGED <<disco, memoria, pc, operacion, bandeja, actual, vivo, quedan, historia>>

------------------------------------------------------------------------------
Paso(h) ==
  \/ Empezar(h) \/ CrearArchivo(h) \/ LeerMetadata(h) \/ Abrir(h) \/ Cerrar(h)
  \/ OperateNew(h) \/ OperateGet(h) \/ OperateCatch(h)
  \/ BuscarLibre(h) \/ ConfBloque(h) \/ EscribirBlock(h)
  \/ ActualizarMetadata(h) \/ ActualizarOtraVez(h) \/ LiberarBloque(h) \/ VaciarBloque(h)
  \/ Guardar(h) \/ Publicar(h)

Next ==
  \/ \E h \in Hilos : Paso(h) \/ EnviarAck(h) \/ PerderConexion(h)
  \/ Caer \/ Reiniciar

Spec == Init /\ [][Next]_vars

\* A thread that can go on does; nothing is assumed of failures.
FairSpec == Spec /\ \A h \in Hilos : WF_vars(Paso(h))

------------------------------------------------------------------------------
Lugares == {"espera", "crear", "leer", "abrir", "bloques", "pedir", "marcar", "escribir",
            "metadata", "final", "soltar", "vaciar", "cerrar", "guardar", "publicar"}

\* The variables have their types.
TypeOK ==
  /\ meta \in [Archivos -> MetadataBin] /\ bloque \in [Bloques -> Seq(Linea)]
  /\ bitmap \subseteq Bloques
  /\ config \in Archivos \cup {Ninguno} /\ mArchivo \in [Archivos -> Hilos \cup {Ninguno}]
  /\ pc \in [Hilos -> Lugares] /\ sigue \in [Hilos -> Lugares]
  /\ creando \in [Hilos -> BOOLEAN] /\ libres \in [Hilos -> 0..BLOCKS]
  /\ vista \in [Hilos -> MetadataBin] /\ valor \in [Hilos -> MetadataBin]
  /\ lista \in [Hilos -> Seq(Bloques)] /\ lineas \in [Hilos -> Seq(Linea)]
  /\ tomado \in [Hilos -> Bloques \cup {-1}] /\ escritos \in [Hilos -> Nat]
  /\ hizo \in [Hilos -> {"nada", "guardado", "atrapado"}]
  /\ \A h \in Hilos :
       /\ bandeja[h] \in Seq(Mensaje)
       /\ estado[h] \in [DOMAIN bandeja[h] -> {"falta", "procesado", "confirmado", "perdido"}]
       /\ actual[h] \in DOMAIN bandeja[h] \cup {0} /\ (actual[h] = 0 <=> pc[h] = "espera")
  /\ vivo \in {"si", "matado", "segfault"} /\ {cortes, quedan, reinicios} \subseteq Nat
  /\ carreras \subseteq {"archivo", "config", "bitmap", "bloque"} /\ tomadores \subseteq Hilos
  /\ hecho \in [Archivos -> [Posiciones -> Int]]

\* Without a race no block belongs to two files, nor twice to one, and the bitmap has all of
\* them as taken: also while blocks change hands, and when the process dies at any moment and
\* gets the messages again.
BloqueDeUnSolo ==
  carreras = {} =>
    \A f, g \in Archivos : \A i \in DOMAIN meta[f].bloques, j \in DOMAIN meta[g].bloques :
      /\ meta[f].bloques[i] \in bitmap
      /\ meta[f].bloques[i] = meta[g].bloques[j] => f = g /\ i = j

\* A block past the end of the disk is given only if two threads take blocks: each has counted
\* the free ones before the other's.  The test is for the whole file, so one never runs out.
BloqueDelDisco ==
  Cardinality(tomadores) <= 1 => bitmap \subseteq 0..(BLOCKS - 1)

Trabaja(h, f) == pc[h] # "espera" /\ Archivo(h) = f

\* With no race nor restart, a file of lines that fit in a block and that nobody works on
\* holds what the NEW and CATCH that were applied left, one applied twice counted twice;
\* also while the other files have longer lines.  Of those files CATCH (gm_filesystem.c:621
\* and 640) gives one block back where several are due: what is left over may be read again.
ContenidoFiel ==
  carreras = {} /\ reinicios = 0 /\ vivo = "si" =>
    \A f \in Cortos : (~ \E h \in Hilos : Trabaja(h, f)) =>
      Guardado(meta, bloque)[f] = hecho[f]

\* h has opened its file and has not begun to close it (a NEW without room goes to "final").
ConElAbierto(h) ==
  /\ ~creando[h]
  /\ \/ pc[h] \in {"bloques", "pedir", "marcar", "escribir", "metadata", "cerrar"}
     \/ pc[h] = "final" /\ hizo[h] = "nada"

UnoSolo ==
  \A h, k \in Hilos : ConElAbierto(h) /\ ConElAbierto(k) /\ Archivo(h) = Archivo(k) => h = k

\* Although OPEN is read without a lock, if no Metadata.bin changes between a thread's looks at
\* it and config_metadata is not shared, a file is open for one thread at most; and but for a
\* restart OPEN=Y always has a thread that will put N, and a truncated file one that fills it.
AbiertoConDueno ==
  carreras = {} =>
    /\ UnoSolo
    /\ reinicios = 0 /\ vivo = "si" =>
         \A f \in Archivos :
           /\ meta[f].existe = "si" /\ meta[f].abierto = "Y" <=>
                \E h \in Hilos : Trabaja(h, f) /\ ConElAbierto(h)
           /\ meta[f].existe = "roto" <=> \E h \in Hilos : Trabaja(h, f) /\ pc[h] = "guardar"

\* A fault without a race comes from a Metadata.bin that an earlier death left truncated: every
\* message about that file, sent again by the Broker, ends the process again.
SegfaultExplicado ==
  vivo = "segfault" /\ carreras = {} =>
    reinicios > 0 /\ \E f \in Archivos : meta[f].existe = "roto"

\* Threads that wait for a file sleep and try again: with no race nor death, every message
\* ends up answered.
Terminan ==
  <>(carreras # {} \/ reinicios > 0 \/ vivo # "si" \/ \A h \in Hilos : "falta" \notin Range(estado[h]))
==============================================================================
