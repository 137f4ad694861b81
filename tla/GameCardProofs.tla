---------------------------- MODULE GameCardProofs ----------------------------
(****************************************************************************)
(* Proofs about GameCard for any number of threads, files, blocks and       *)
(* messages.                                                                *)
(*                                                                          *)
(* IInv gives each block one owner.  A block is of a file (its Metadata.bin *)
(* lists it) or in the hand of a thread (EnMano); it is both only while     *)
(* that thread has the file open, which OPEN=Y shows.  Steps are of three   *)
(* kinds: those that touch no Metadata.bin (PasoLocal), those that truncate *)
(* one (TruncarOrden) and the one that fills it (GuardarOrden).             *)
(*                                                                          *)
(* Resto has the types that IInv does not need.  EnElDisco: the count of    *)
(* free blocks of the only thread that takes them still covers what it has  *)
(* to take.  Fiel(K): K is the content that each file of Cortos has, or     *)
(* that the thread that has it open or truncated is giving it, and K is     *)
(* what the answers left and what the threads did since (Saldo); K changes  *)
(* in one step of each NEW and CATCH.  A step on a file of longer lines     *)
(* leaves K as it is (PasoLargo).                                           *)
(****************************************************************************)
EXTENDS GameCard, Lemas

------------------------------------------------------------------------------
(* Sequences of blocks. *)

LEMMA AppendInyectiva ==
  ASSUME NEW S, NEW s \in Seq(S), NEW e \in S, e \notin Range(s), IsInjective(s)
  PROVE  /\ Append(s, e) \in Seq(S) /\ IsInjective(Append(s, e))
         /\ Range(Append(s, e)) = Range(s) \cup {e}
<1> DEFINE t == Append(s, e)
<1>1. /\ t \in Seq(S) /\ Len(t) = Len(s) + 1 /\ t[Len(s) + 1] = e
      /\ \A i \in 1..Len(s) : t[i] = s[i]
  BY AppendProperties
<1>2. Len(s) \in Nat /\ DOMAIN s = 1..Len(s) /\ DOMAIN t = 1..(Len(s) + 1)
  BY <1>1, LenProperties
<1>3. \A i \in DOMAIN t : i = Len(s) + 1 \/ i \in DOMAIN s
  BY <1>2
<1>4. IsInjective(t)
  <2> SUFFICES ASSUME NEW i \in DOMAIN t, NEW j \in DOMAIN t, t[i] = t[j] PROVE i = j
    BY DEF IsInjective
  <2>1. \A k \in DOMAIN s : t[k] = s[k] /\ s[k] # e
    BY <1>1, <1>2 DEF Range
  <2>2. QED
    BY <1>1, <1>3, <2>1 DEF IsInjective
<1>5. Range(t) = Range(s) \cup {e}
  <2>1. \A i \in DOMAIN s : i \in DOMAIN t /\ t[i] = s[i]
    BY <1>1, <1>2
  <2>2. Len(s) + 1 \in DOMAIN t
    BY <1>2
  <2>3. QED
    BY <1>1, <1>3, <2>1, <2>2 DEF Range
<1>6. QED
  BY <1>1, <1>4, <1>5

LEMMA FrontInyectiva ==
  ASSUME NEW S, NEW s \in Seq(S), s # <<>>
  PROVE  /\ s[1] \in S /\ s[1] \in Range(s) /\ Last(s) \in S /\ Last(s) \in Range(s)
         /\ Front(s) \in Seq(S) /\ Range(Front(s)) \subseteq Range(s)
         /\ IsInjective(s) => IsInjective(Front(s)) /\ Last(s) \notin Range(Front(s))
<1> DEFINE n == Len(s)
           t == SubSeq(s, 1, n - 1)
<1>1. n \in Nat \ {0} /\ DOMAIN s = 1..n /\ \A i \in 1..n : s[i] \in S
  BY EmptySeq, LenProperties, ElementOfSeq
<1>2. 1 \in DOMAIN s /\ n \in DOMAIN s
  BY <1>1
<1>3. t \in Seq(S) /\ Len(t) = n - 1 /\ \A i \in 1..(n - 1) : t[i] = s[i]
  BY <1>1, SubSeqProperties
<1>4. DOMAIN t = 1..(n - 1)
  BY <1>3, LenProperties
<1>5. \A i \in DOMAIN t : i \in DOMAIN s /\ t[i] = s[i] /\ i # n
  BY <1>1, <1>3, <1>4
<1>6. Range(t) \subseteq Range(s)
  BY <1>5 DEF Range
<1>7. ASSUME IsInjective(s)
      PROVE  IsInjective(t) /\ s[n] \notin Range(t)
  BY <1>2, <1>5, <1>7 DEF IsInjective, Range
<1>8. s[1] \in S /\ s[n] \in S /\ s[1] \in Range(s) /\ s[n] \in Range(s)
  BY <1>1, <1>2 DEF Range
<1>9. Front(s) = t /\ Last(s) = s[n]
  BY DEF Front, Last
<1>10. QED
  BY <1>3, <1>6, <1>7, <1>8, <1>9

\* No blocks, no lines.
LEMMA SinBloques ==
  ASSUME NEW f \in Archivos, NEW b, NEW p
  PROVE  LineasDe(f, <<>>, b) = <<>> /\ ~CoordinateExists(p, LineasDe(f, <<>>, b))
<1> DEFINE k == BLOQUES_POR_LINEA[f]
           vacia == [g \in 1..(Len(<<>>) \div k) |-> b[(<<>>)[g * k]]]
<1>1. DOMAIN <<>> = {}
  BY EmptySeq, LenProperties
<1>2. vacia = <<>>
  <2>1. k \in Nat \ {0} /\ Len(<<>>) = 0
    BY GameCardAssumption, EmptySeq
  <2> HIDE DEF k
  <2>2. Len(<<>>) \div k = 0
    BY <2>1
  <2>3. 1..(Len(<<>>) \div k) = {}
    BY <2>2
  <2>4. QED
    BY <2>3
<1>3. LineasDe(f, <<>>, b) = <<>>
  BY <1>2, EmptySeq DEF LineasDe, FlattenSeq
<1>4. QED
  BY <1>1, <1>3 DEF CoordinateExists

------------------------------------------------------------------------------
(* The inductive invariant. *)

\* The types that the proofs need: those of what decides where a thread goes.
Tipos ==
  /\ meta \in [Archivos -> MetadataBin] /\ bitmap \subseteq Bloques
  /\ config \in Archivos \cup {Ninguno}
  /\ pc \in [Hilos -> Lugares] /\ sigue \in [Hilos -> Lugares] /\ creando \in [Hilos -> BOOLEAN]
  /\ vista \in [Hilos -> MetadataBin] /\ valor \in [Hilos -> MetadataBin]
  /\ lista \in [Hilos -> Seq(Bloques)] /\ tomado \in [Hilos -> Bloques \cup {-1}]
  /\ hizo \in [Hilos -> {"nada", "guardado", "atrapado"}]
  /\ DOMAIN lineas = Hilos
  /\ bandeja \in [Hilos -> Seq(Mensaje)] /\ actual \in [Hilos -> Nat]
  /\ \A h \in Hilos : /\ pc[h] # "espera" => actual[h] \in DOMAIN bandeja[h]
                      /\ sigue[h] # "marcar"
                      /\ pc[h] = "marcar" => tomado[h] \in Bloques
  /\ vivo \in {"si", "matado", "segfault"} /\ reinicios \in Nat /\ quedan \in Nat

\* h works with the blocks of its list; and the block it drops is its own until its bit is
\* cleared, before or after emptying it.
ConLista(h) ==
  \/ pc[h] \in {"bloques", "pedir", "marcar", "escribir", "metadata", "cerrar", "guardar"}
  \/ pc[h] = "final" /\ hizo[h] = "nada"
ConTomado(h) == ConLista(h) \/ pc[h] = "soltar" \/ (pc[h] = "vaciar" /\ lineas[h] = <<>>)
Soltado(h) == IF Pedido(h).op = "CATCH" THEN {tomado[h]} \ {-1} ELSE {}
EnMano(h) ==
  (IF ConLista(h) THEN Range(lista[h]) ELSE {}) \cup (IF ConTomado(h) THEN Soltado(h) ELSE {})

\* What a thread knows of its file and of its own work, by where it is.
Creacion(h) ==
  creando[h] => /\ Pedido(h).op = "NEW"
                /\ vista[h].existe = "no" \/ vista[h].abierto = "N"
                /\ pc[h] \in {"crear", "pedir", "marcar", "escribir", "metadata", "guardar",
                              "publicar"}
                /\ pc[h] = "guardar" => sigue[h] \in {"pedir", "publicar"}
Lugar(h) ==
  /\ pc[h] = "espera" => ~creando[h] /\ lista[h] = <<>> /\ tomado[h] = -1 /\ hizo[h] = "nada"
  /\ pc[h] = "crear"  => creando[h] /\ lista[h] = <<>>
  /\ pc[h] \in {"leer", "abrir", "bloques", "cerrar"} => tomado[h] = -1 /\ hizo[h] = "nada"
  /\ pc[h] = "abrir"  => vista[h].existe = "si" /\ vista[h].abierto = "N"
  /\ pc[h] \in {"abrir", "bloques", "cerrar", "final"} => vista[h].bloques = lista[h]
  /\ pc[h] \in {"pedir", "marcar", "final"} => Pedido(h).op = "NEW"
  /\ pc[h] \in {"escribir", "metadata"} => Pedido(h).op # "GET"
  /\ pc[h] = "metadata" /\ Pedido(h).op = "NEW" => hizo[h] = "guardado"
  /\ pc[h] = "final" /\ hizo[h] # "nada" => vista[h].existe = "si" /\ vista[h].abierto = "N"
  /\ pc[h] \in {"soltar", "vaciar"} => Pedido(h).op = "CATCH"
PorGuardar(h) ==
  pc[h] = "guardar" =>
    /\ valor[h] = Metadata(lista[h], IF sigue[h] = "bloques" THEN "Y" ELSE "N")
    /\ sigue[h] \in {"bloques", "pedir", "publicar", "final", "soltar", "vaciar"}
    /\ sigue[h] = "bloques" => ~creando[h] /\ tomado[h] = -1 /\ hizo[h] = "nada"
    /\ sigue[h] = "pedir"   => creando[h] /\ lista[h] = <<>>
    /\ sigue[h] = "final"   => Pedido(h).op = "NEW" /\ hizo[h] = "guardado"
    /\ sigue[h] \in {"soltar", "vaciar"} => Pedido(h).op = "CATCH"
SinRepetir(h) ==
  ConLista(h) => IsInjective(lista[h]) /\ Soltado(h) \cap Range(lista[h]) = {}

EnSuLugar(h) == Creacion(h) /\ Lugar(h) /\ PorGuardar(h) /\ SinRepetir(h)

Abierto(f) == meta[f].existe = "si" /\ meta[f].abierto = "Y"

\* The Metadata.bin of the files: who has them open, and who is writing them.
MetadataConDueno ==
  /\ \A h \in Hilos : pc[h] = "guardar" =>
       /\ config = Archivo(h) /\ meta[Archivo(h)] = Roto
       /\ \A k \in Hilos : pc[k] = "guardar" => k = h
  /\ \A h \in Hilos : ConElAbierto(h) => meta[Archivo(h)] = vista[h] /\ Abierto(Archivo(h))
  /\ UnoSolo
  /\ reinicios = 0 /\ vivo = "si" =>
       \A f \in Archivos :
         /\ Abierto(f) => \E h \in Hilos : Trabaja(h, f) /\ ConElAbierto(h)
         /\ meta[f].existe = "roto" => \E h \in Hilos : Trabaja(h, f) /\ pc[h] = "guardar"
  /\ vivo # "si" => \A h \in Hilos : pc[h] = "espera"

\* The blocks: those of the files are of one each, and those in hand of one thread, which
\* has the file open if a Metadata.bin shows them.
SinCompartir ==
  \A f, g \in Archivos : \A i \in DOMAIN meta[f].bloques, j \in DOMAIN meta[g].bloques :
    meta[f].bloques[i] = meta[g].bloques[j] => f = g /\ i = j
BloquesConDueno ==
  /\ SinCompartir
  /\ \A f \in Archivos : Range(meta[f].bloques) \subseteq bitmap
  /\ \A h \in Hilos : EnMano(h) \subseteq bitmap
  /\ \A h, k \in Hilos : h # k => EnMano(h) \cap EnMano(k) = {}
  /\ \A h \in Hilos, f \in Archivos :
       EnMano(h) \cap Range(meta[f].bloques) # {} => f = Archivo(h) /\ ConElAbierto(h)

FaltaExplicada == vivo = "segfault" => reinicios > 0 /\ \E f \in Archivos : meta[f].existe = "roto"

Orden ==
  /\ \A h \in Hilos : EnSuLugar(h)
  /\ MetadataConDueno /\ BloquesConDueno /\ FaltaExplicada

IInv == Tipos /\ (carreras = {} => Orden)

------------------------------------------------------------------------------
(* Types. *)

LEMMA BloquesNaturales == Bloques \subseteq Nat /\ -1 \notin Bloques
<1>1. Cardinality(Hilos) \in Nat
  BY GameCardAssumption, FS_CardinalityType
<1>2. QED
  BY <1>1, GameCardAssumption DEF Bloques

LEMMA MetadatasValidas ==
  /\ Roto \in MetadataBin
  /\ \A bs \in Seq(Bloques), a \in {"N", "Y"} : Metadata(bs, a) \in MetadataBin
BY EmptySeq DEF Roto, Metadata, MetadataBin

\* The message a thread works on is of a file.
LEMMA PedidoValido ==
  ASSUME Tipos, NEW h \in Hilos, pc[h] # "espera"
  PROVE  Pedido(h) \in Mensaje /\ Archivo(h) \in Archivos /\ Pedido(h).op \in {"NEW", "CATCH", "GET"}
<1>1. bandeja[h] \in Seq(Mensaje) /\ actual[h] \in DOMAIN bandeja[h]
  BY DEF Tipos
<1>2. Pedido(h) \in Mensaje
  BY <1>1, LenProperties, ElementOfSeq DEF Pedido
<1>3. QED
  BY <1>2 DEF Mensaje, Archivo

\* The list of a CATCH that finds its pokemon has blocks.
LEMMA AtrapaDeAlgunBloque ==
  ASSUME NEW f \in Archivos, NEW bs \in Seq(Bloques), NEW p,
         CoordinateExists(p, LineasDe(f, bs, bloque))
  PROVE  bs # <<>>
BY SinBloques

LEMMA MorirTipos ==
  ASSUME Tipos, NEW como \in {"matado", "segfault"}, Morir(como)
  PROVE  Tipos'
<1>1. <<>> \in Seq(Bloques) /\ Roto \in MetadataBin
  BY EmptySeq, MetadatasValidas
<1>2. QED
  BY <1>1 DEF Tipos, Morir, Lugares, disco

LEMMA TruncarTipos ==
  ASSUME Tipos, NEW h \in Hilos, pc[h] # "espera", NEW v \in MetadataBin,
         NEW luego \in Lugares \ {"espera", "marcar"}, Truncar(h, v, luego)
  PROVE  Tipos'
<1>1. Archivo(h) \in Archivos /\ Roto \in MetadataBin
  BY PedidoValido, MetadatasValidas
<1>2. /\ meta' \in [Archivos -> MetadataBin] /\ config' \in Archivos \cup {Ninguno}
      /\ pc' \in [Hilos -> Lugares] /\ sigue' \in [Hilos -> Lugares]
      /\ valor' \in [Hilos -> MetadataBin]
  BY <1>1 DEF Tipos, Truncar, Lugares
<1>3. QED
  BY <1>2 DEF Tipos, Truncar, mensajes, sistema

LEMMA UpdateTipos ==
  ASSUME Tipos, NEW h \in Hilos, pc[h] # "espera", NEW open \in {"N", "Y"},
         NEW luego \in Lugares \ {"espera", "marcar"}, UpdateOpenFileState(h, open, luego)
  PROVE  Tipos'
<1>1. CASE meta[Archivo(h)].existe = "si"
  <2>1. Archivo(h) \in Archivos
    BY PedidoValido
  <2>2. meta[Archivo(h)].bloques \in Seq(Bloques)
    BY <2>1 DEF Tipos, MetadataBin
  <2>3. Metadata(meta[Archivo(h)].bloques, open) \in MetadataBin
    BY <2>2, MetadatasValidas
  <2>4. Truncar(h, Metadata(meta[Archivo(h)].bloques, open), luego)
    BY <1>1 DEF UpdateOpenFileState
  <2>5. QED
    BY <2>3, <2>4, TruncarTipos
<1>2. CASE meta[Archivo(h)].existe # "si"
  BY <1>2, MorirTipos DEF UpdateOpenFileState
<1>3. QED
  BY <1>1, <1>2

LEMMA TiposPaso ==
  ASSUME Tipos, NEW h \in Hilos, Paso(h)
  PROVE  Tipos'
<1>1. CASE Empezar(h)
  <2> DEFINE p(i) == bandeja[h][i]
  <2>1. PICK i \in DOMAIN bandeja[h] :
             /\ actual' = [actual EXCEPT ![h] = i]
             /\ vista' = [vista EXCEPT ![h] = meta[p(i).archivo]]
             /\ \E b \in BOOLEAN : creando' = [creando EXCEPT ![h] = b]
             /\ \E l \in {"leer", "crear", "publicar"} : pc' = [pc EXCEPT ![h] = l]
             /\ \E ls : lineas' = [lineas EXCEPT ![h] = ls]
             /\ UNCHANGED <<disco, memoria, sigue, lista, tomado, valor, hizo, bandeja, sistema, historia>>
    <3>1. \A i : (bandeja[h][i].op = "NEW" /\ ~(meta[bandeja[h][i].archivo].existe # "no")) \in BOOLEAN
      OBVIOUS
    <3>2. QED
      BY <1>1, <3>1 DEF Empezar
  <2>2. bandeja[h] \in Seq(Mensaje)
    BY DEF Tipos
  <2>3. i \in Nat /\ p(i) \in Mensaje
    BY <2>2, LenProperties, ElementOfSeq
  <2>4. meta[p(i).archivo] \in MetadataBin
    BY <2>3 DEF Tipos, Mensaje
  <2>5. /\ actual' \in [Hilos -> Nat] /\ vista' \in [Hilos -> MetadataBin]
        /\ creando' \in [Hilos -> BOOLEAN] /\ pc' \in [Hilos -> Lugares] /\ DOMAIN lineas' = Hilos
    BY <2>1, <2>3, <2>4 DEF Tipos, Lugares
  <2>6. \A g \in Hilos : pc'[g] # "espera" => actual'[g] \in DOMAIN bandeja[g]
    BY <2>1, <2>3 DEF Tipos
  <2>7. \A g \in Hilos : pc'[g] = "marcar" => pc[g] = "marcar"
    BY <2>1 DEF Tipos
  <2>8. QED
    BY <2>1, <2>5, <2>6, <2>7 DEF Tipos, disco, memoria, sistema, historia
<1>2. CASE CrearArchivo(h)
  <2>1. HayLugarParaUno(h) \in {"pedir", "publicar"}
    BY DEF HayLugarParaUno
  <2>2. Metadata(<<>>, "N") \in MetadataBin
    BY EmptySeq, MetadatasValidas
  <2>3. CASE Truncar(h, Metadata(<<>>, "N"), HayLugarParaUno(h))
    BY <1>2, <2>1, <2>2, <2>3, TruncarTipos DEF CrearArchivo, Lugares
  <2>4. CASE /\ pc' = [pc EXCEPT ![h] = HayLugarParaUno(h)]
             /\ UNCHANGED <<disco, memoria, operacion, mensajes, sistema, historia>>
    BY <1>2, <2>1, <2>4 DEF CrearArchivo, Tipos, Lugares, disco, memoria, operacion, mensajes, sistema, historia
  <2>5. QED
    BY <1>2, <2>3, <2>4 DEF CrearArchivo
<1>3. CASE LeerMetadata(h)
  <2>1. CASE Morir("segfault")
    BY <2>1, MorirTipos
  <2>2. CASE ~Morir("segfault")
    <3>1. Archivo(h) \in Archivos
      BY <1>3, PedidoValido DEF LeerMetadata
    <3>2. meta[Archivo(h)] \in MetadataBin /\ meta[Archivo(h)].bloques \in Seq(Bloques)
      BY <3>1 DEF Tipos, MetadataBin
    <3>3. /\ vista' = [vista EXCEPT ![h] = meta[Archivo(h)]] /\ pc[h] = "leer"
          /\ lista' = [lista EXCEPT ![h] = meta[Archivo(h)].bloques]
          /\ pc' = [pc EXCEPT ![h] = "abrir"]
          /\ UNCHANGED <<disco, memoria, sigue, creando, lineas, tomado, valor, hizo, mensajes,
                         sistema, historia>>
      BY <1>3, <2>2 DEF LeerMetadata
    <3>4. /\ vista' \in [Hilos -> MetadataBin] /\ lista' \in [Hilos -> Seq(Bloques)]
          /\ pc' \in [Hilos -> Lugares]
      BY <3>2, <3>3 DEF Tipos, Lugares
    <3>5. QED
      BY <3>3, <3>4 DEF Tipos, disco, memoria, mensajes, sistema, historia
  <2>3. QED
    BY <2>1, <2>2
<1>4. CASE Abrir(h)
  BY <1>4, UpdateTipos DEF Abrir, Lugares
<1>5. CASE Cerrar(h)
  BY <1>5, UpdateTipos DEF Cerrar, Lugares
<1>6. CASE OperateNew(h)
  BY <1>6 DEF OperateNew, Tipos, Lugares, disco, memoria, mensajes, sistema, historia
<1>7. CASE OperateGet(h)
  BY <1>7 DEF OperateGet, Tipos, Lugares, disco, memoria, mensajes, sistema, historia
<1>8. CASE OperateCatch(h)
  <2> DEFINE esta == CoordinateExists(Pedido(h).pos, LineasDe(Archivo(h), lista[h], bloque))
  <2>1. lista[h] \in Seq(Bloques) /\ Archivo(h) \in Archivos
    BY <1>8, PedidoValido DEF Tipos, OperateCatch
  <2>2. CASE ~esta
    BY <1>8, <2>2 DEF OperateCatch, Tipos, Lugares, disco, memoria, mensajes, sistema, historia
  <2>3. CASE esta
    <3>1. lista[h] # <<>>
      BY <2>1, <2>3, AtrapaDeAlgunBloque
    <3>2. lista[h][1] \in Bloques /\ Last(lista[h]) \in Bloques /\ Front(lista[h]) \in Seq(Bloques)
          /\ <<>> \in Seq(Bloques)
      BY <2>1, <3>1, FrontInyectiva, EmptySeq
    <3>3. \E b \in Bloques \cup {-1}, bs \in Seq(Bloques), l \in {"metadata", "escribir"} :
             /\ tomado' = [tomado EXCEPT ![h] = b] /\ lista' = [lista EXCEPT ![h] = bs]
             /\ pc' = [pc EXCEPT ![h] = l] /\ hizo' = [hizo EXCEPT ![h] = "atrapado"]
      <4> DEFINE ls == ConUnoMenos(Pedido(h).pos, LineasDe(Archivo(h), lista[h], bloque))
                 suelta == ls = <<>> \/ BlocksOcupados(Archivo(h), Len(ls)) < Len(lista[h])
      <4>1. /\ tomado' = [tomado EXCEPT ![h] = IF ls = <<>> THEN lista[h][1]
                                               ELSE IF suelta THEN Last(lista[h]) ELSE -1]
            /\ lista' = [lista EXCEPT ![h] = IF ls = <<>> THEN <<>>
                                             ELSE IF suelta THEN Front(lista[h]) ELSE lista[h]]
            /\ pc' = [pc EXCEPT ![h] = IF ls = <<>> THEN "metadata" ELSE "escribir"]
            /\ hizo' = [hizo EXCEPT ![h] = "atrapado"]
        BY <1>8, <2>3 DEF OperateCatch
      <4> HIDE DEF ls, suelta
      <4>2. QED
        BY <2>1, <3>2, <4>1
    <3>4. /\ tomado' \in [Hilos -> Bloques \cup {-1}] /\ lista' \in [Hilos -> Seq(Bloques)]
          /\ pc' \in [Hilos -> Lugares] /\ hizo' \in [Hilos -> {"nada", "guardado", "atrapado"}]
      BY <3>3 DEF Tipos, Lugares
    <3>5. /\ DOMAIN lineas' = Hilos /\ pc[h] = "bloques"
          /\ UNCHANGED <<disco, memoria, sigue, creando, vista, valor, mensajes, sistema, historia>>
      BY <1>8, <2>3 DEF OperateCatch, Tipos
    <3>6. QED
      BY <3>3, <3>4, <3>5 DEF Tipos, disco, memoria, mensajes, sistema, historia
  <2>4. QED
    BY <2>2, <2>3
<1>9. CASE BuscarLibre(h)
  BY <1>9 DEF BuscarLibre, Tipos, Lugares, disco, memoria, mensajes, sistema, historia
<1>10. CASE ConfBloque(h)
  <2>1. tomado[h] \in Bloques /\ lista[h] \in Seq(Bloques)
    BY <1>10 DEF ConfBloque, Tipos
  <2>2. Append(lista[h], tomado[h]) \in Seq(Bloques)
    BY <2>1, AppendProperties
  <2>3. QED
    BY <1>10, <2>1, <2>2 DEF ConfBloque, Tipos, Lugares, memoria, mensajes, sistema
<1>11. CASE EscribirBlock(h)
  BY <1>11 DEF EscribirBlock, Tipos, Lugares, memoria, mensajes, sistema, historia
<1>12. CASE ActualizarMetadata(h)
  <2>1. Metadata(lista[h], "N") \in MetadataBin
    BY MetadatasValidas DEF Tipos
  <2>2. DespuesDeActualizar(h) \in Lugares \ {"espera", "marcar"}
    BY DEF DespuesDeActualizar, Lugares
  <2>3. QED
    BY <1>12, <2>1, <2>2, TruncarTipos DEF ActualizarMetadata
<1>13. CASE ActualizarOtraVez(h)
  <2>1. Metadata(lista[h], "N") \in MetadataBin
    BY MetadatasValidas DEF Tipos
  <2>2. QED
    BY <1>13, <2>1, TruncarTipos DEF ActualizarOtraVez, Lugares
<1>14. CASE LiberarBloque(h)
  BY <1>14 DEF LiberarBloque, Tipos, Lugares, memoria, operacion, mensajes, sistema, historia
<1>15. CASE VaciarBloque(h)
  BY <1>15 DEF VaciarBloque, Tipos, Lugares, memoria, operacion, mensajes, sistema, historia
<1>16. CASE Guardar(h)
  <2>1. CASE config = Ninguno
    BY <1>16, <2>1, MorirTipos DEF Guardar
  <2>2. CASE config # Ninguno
    <3>1. Roto \in MetadataBin /\ valor[h] \in MetadataBin
      BY MetadatasValidas DEF Tipos
    <3>2. \E v \in MetadataBin : meta' = [meta EXCEPT ![config] = v]
      BY <1>16, <2>2, <3>1 DEF Guardar
    <3>3. /\ vista' = [vista EXCEPT ![h] = valor[h]] /\ valor' = [valor EXCEPT ![h] = Roto]
          /\ pc' = [pc EXCEPT ![h] = sigue[h]] /\ config' = Ninguno /\ pc[h] = "guardar"
          /\ UNCHANGED <<bitmap, sigue, creando, lista, lineas, tomado, hizo, mensajes, sistema,
                         historia>>
      BY <1>16, <2>2 DEF Guardar
    <3>4. /\ meta' \in [Archivos -> MetadataBin] /\ vista' \in [Hilos -> MetadataBin]
          /\ valor' \in [Hilos -> MetadataBin] /\ pc' \in [Hilos -> Lugares]
      BY <2>2, <3>1, <3>2, <3>3 DEF Tipos
    <3>5. QED
      BY <3>3, <3>4 DEF Tipos, mensajes, sistema, historia
  <2>3. QED
    BY <2>1, <2>2
<1>17. CASE Publicar(h)
  <2>1. <<>> \in Seq(Bloques) /\ Roto \in MetadataBin
    BY EmptySeq, MetadatasValidas
  <2>2. QED
    BY <1>17, <2>1 DEF Publicar, Reposo, Tipos, Lugares, disco, memoria, sistema
<1>18. QED
  BY <1>1, <1>2, <1>3, <1>4, <1>5, <1>6, <1>7, <1>8, <1>9, <1>10, <1>11, <1>12, <1>13, <1>14,
     <1>15, <1>16, <1>17 DEF Paso

------------------------------------------------------------------------------
(* A process with all its threads between messages, and the start. *)

\* What is asked of threads is nothing while they wait.
LEMMA EnEspera ==
  ASSUME NEW h \in Hilos, pc[h] = "espera"
  PROVE  /\ ~ConElAbierto(h) /\ EnMano(h) = {}
         /\ ~creando[h] /\ lista[h] = <<>> /\ tomado[h] = -1 /\ hizo[h] = "nada" => EnSuLugar(h)
<1>1. ~ConElAbierto(h)
  BY DEF ConElAbierto
<1>2. ~ConLista(h) /\ ~ConTomado(h)
  BY DEF ConLista, ConTomado
<1>3. ~creando[h] /\ lista[h] = <<>> /\ tomado[h] = -1 /\ hizo[h] = "nada" =>
        Creacion(h) /\ Lugar(h) /\ PorGuardar(h) /\ SinRepetir(h)
  BY <1>2 DEF Creacion, Lugar, PorGuardar, SinRepetir
<1>4. QED
  BY <1>1, <1>2, <1>3 DEF EnMano, EnSuLugar

LEMMA Inicio == Init => IInv
<1> SUFFICES ASSUME Init PROVE IInv
  OBVIOUS
<1>1. PICK c \in Casos :
        /\ meta = c.meta /\ bandeja = c.bandeja /\ quedan = c.reinicios
        /\ bitmap = UNION {Range(c.meta[f].bloques) : f \in Archivos}
  BY DEF Init
<1>2. /\ meta \in [Archivos -> MetadataBin] /\ bandeja \in [Hilos -> Seq(Mensaje)]
      /\ quedan \in Nat
      /\ \A f \in Archivos : meta[f].existe # "roto" /\ meta[f].abierto = "N"
      /\ SinCompartir
  BY <1>1, CasosAssumption DEF DiscoEnOrden, SinCompartir
<1>3. \A f \in Archivos : Range(meta[f].bloques) \subseteq bitmap /\ Range(meta[f].bloques) \subseteq Bloques
  <2> SUFFICES ASSUME NEW f \in Archivos
               PROVE  Range(meta[f].bloques) \subseteq bitmap /\ Range(meta[f].bloques) \subseteq Bloques
    OBVIOUS
  <2>1. meta[f].bloques \in Seq(Bloques)
    BY <1>2 DEF MetadataBin
  <2>2. Range(meta[f].bloques) \subseteq Bloques
    BY <2>1, LenProperties, ElementOfSeq DEF Range
  <2>3. QED
    BY <1>1, <2>2
<1>4. bitmap \subseteq Bloques
  BY <1>1, <1>3
<1>5. /\ config = Ninguno /\ pc = [h \in Hilos |-> "espera"] /\ sigue = [h \in Hilos |-> "espera"]
      /\ creando = [h \in Hilos |-> FALSE] /\ vista = [h \in Hilos |-> Roto]
      /\ valor = [h \in Hilos |-> Roto] /\ lista = [h \in Hilos |-> <<>>]
      /\ lineas = [h \in Hilos |-> <<>>] /\ tomado = [h \in Hilos |-> -1]
      /\ hizo = [h \in Hilos |-> "nada"] /\ actual = [h \in Hilos |-> 0]
      /\ vivo = "si" /\ reinicios = 0 /\ carreras = {}
  BY DEF Init
<1>6. Tipos
  <2>1. <<>> \in Seq(Bloques) /\ Roto \in MetadataBin
    BY EmptySeq, MetadatasValidas
  <2>2. QED
    BY <1>2, <1>4, <1>5, <2>1 DEF Tipos, Lugares
<1>7. \A h \in Hilos : EnSuLugar(h) /\ ~ConElAbierto(h) /\ EnMano(h) = {} /\ pc[h] = "espera"
  BY <1>5, EnEspera
<1>8. MetadataConDueno
  BY <1>2, <1>5, <1>7 DEF MetadataConDueno, UnoSolo, Abierto
<1>9. BloquesConDueno
  BY <1>2, <1>3, <1>7 DEF BloquesConDueno
<1>10. QED
  BY <1>5, <1>6, <1>7, <1>8, <1>9 DEF IInv, Orden, FaltaExplicada

\* After a death nobody holds anything; the disk stays.
LEMMA MorirOrden ==
  ASSUME Tipos, Orden, NEW como \in {"matado", "segfault"}, Morir(como),
         como = "segfault" => reinicios > 0 /\ \E f \in Archivos : meta[f].existe = "roto"
  PROVE  Orden'
<1>1. /\ pc' = [h \in Hilos |-> "espera"] /\ creando' = [h \in Hilos |-> FALSE]
      /\ lista' = [h \in Hilos |-> <<>>] /\ tomado' = [h \in Hilos |-> -1]
      /\ hizo' = [h \in Hilos |-> "nada"] /\ vivo' = como
      /\ meta' = meta /\ bitmap' = bitmap /\ reinicios' = reinicios
  BY DEF Morir, disco
<1>2. ASSUME NEW h \in Hilos
      PROVE  EnSuLugar(h)' /\ ~ConElAbierto(h)' /\ EnMano(h)' = {} /\ pc'[h] = "espera"
  <2>1. /\ pc'[h] = "espera" /\ ~creando'[h] /\ lista'[h] = <<>> /\ tomado'[h] = -1
        /\ hizo'[h] = "nada"
    BY <1>1
  <2>2. QED
    BY <2>1 DEF EnSuLugar, Creacion, Lugar, PorGuardar, SinRepetir, ConLista, ConTomado, EnMano, ConElAbierto
<1>3. MetadataConDueno'
  BY <1>1, <1>2 DEF MetadataConDueno, UnoSolo
<1>4. BloquesConDueno'
  BY <1>1, <1>2 DEF Orden, BloquesConDueno, SinCompartir
<1>5. FaltaExplicada'
  BY <1>1 DEF FaltaExplicada
<1>6. QED
  BY <1>2, <1>3, <1>4, <1>5 DEF Orden

------------------------------------------------------------------------------
(* Steps of one thread. *)

\* A step of another thread leaves what k knows as it was.
Igual(k) ==
  /\ pc'[k] = pc[k] /\ sigue'[k] = sigue[k] /\ creando'[k] = creando[k] /\ vista'[k] = vista[k]
  /\ valor'[k] = valor[k] /\ lista'[k] = lista[k] /\ lineas'[k] = lineas[k]
  /\ tomado'[k] = tomado[k] /\ hizo'[k] = hizo[k]
  /\ bandeja' = bandeja /\ actual'[k] = actual[k]

LEMMA IgualIgual ==
  ASSUME NEW k \in Hilos, Igual(k)
  PROVE  /\ EnSuLugar(k)' = EnSuLugar(k) /\ EnMano(k)' = EnMano(k) /\ Archivo(k)' = Archivo(k)
         /\ ConElAbierto(k)' = ConElAbierto(k)
         /\ \A f : Trabaja(k, f)' = Trabaja(k, f)
<1>1. Pedido(k)' = Pedido(k) /\ Archivo(k)' = Archivo(k)
  BY DEF Igual, Pedido, Archivo
<1>2. /\ ConElAbierto(k)' = ConElAbierto(k) /\ ConLista(k)' = ConLista(k)
      /\ ConTomado(k)' = ConTomado(k) /\ Soltado(k)' = Soltado(k)
      /\ \A f : Trabaja(k, f)' = Trabaja(k, f)
  BY <1>1 DEF Igual, ConElAbierto, ConLista, ConTomado, Soltado, Trabaja
<1>3. EnMano(k)' = EnMano(k)
  BY <1>2 DEF Igual, EnMano
<1>4. /\ Creacion(k)' = Creacion(k) /\ Lugar(k)' = Lugar(k) /\ PorGuardar(k)' = PorGuardar(k)
      /\ SinRepetir(k)' = SinRepetir(k)
  BY <1>1, <1>2 DEF Igual, Creacion, Lugar, PorGuardar, SinRepetir
<1>5. QED
  BY <1>1, <1>2, <1>3, <1>4 DEF EnSuLugar

\* A step of h that touches no Metadata.bin: it gives back the blocks S and takes the blocks N.
LEMMA PasoLocal ==
  ASSUME Tipos, Orden, NEW h \in Hilos, vivo = "si",
         NEW S \in SUBSET EnMano(h), NEW N, N \cap bitmap = {},
         \A k \in Hilos \ {h} : Igual(k),
         EnSuLugar(h)',
         meta' = meta, config' = config, reinicios' = reinicios, vivo' = vivo,
         pc[h] # "guardar", pc'[h] # "guardar",
         ConElAbierto(h)' <=> ConElAbierto(h),
         ConElAbierto(h) => vista'[h] = vista[h] /\ Archivo(h)' = Archivo(h),
         bitmap' = (bitmap \ S) \cup N,
         EnMano(h)' \subseteq (EnMano(h) \ S) \cup N,
         S # {} => ~ConElAbierto(h)
  PROVE  Orden'
<1>1. \A k \in Hilos : EnSuLugar(k)'
  BY IgualIgual DEF Orden
<1>2. \A k \in Hilos \ {h} : /\ EnMano(k)' = EnMano(k) /\ Archivo(k)' = Archivo(k)
                             /\ ConElAbierto(k)' = ConElAbierto(k) /\ pc'[k] = pc[k]
                             /\ vista'[k] = vista[k]
  BY IgualIgual DEF Igual
<1>3. MetadataConDueno'
  <2> USE DEF Orden, MetadataConDueno
  <2>1. \A g \in Hilos : pc'[g] = "guardar" =>
          /\ config' = Archivo(g)' /\ meta'[Archivo(g)'] = Roto
          /\ \A k \in Hilos : pc'[k] = "guardar" => k = g
    BY <1>2
  <2>2. \A g \in Hilos : ConElAbierto(g)' => meta'[Archivo(g)'] = vista'[g] /\ Abierto(Archivo(g))'
    BY <1>2 DEF Abierto
  <2>3. UnoSolo'
    BY <1>2 DEF UnoSolo
  <2>4. ASSUME reinicios' = 0, NEW f \in Archivos
        PROVE  /\ Abierto(f)' => \E g \in Hilos : Trabaja(g, f)' /\ ConElAbierto(g)'
               /\ meta'[f].existe = "roto" => \E g \in Hilos : Trabaja(g, f)' /\ pc'[g] = "guardar"
    <3>1. ASSUME Abierto(f)
          PROVE  \E g \in Hilos : Trabaja(g, f)' /\ ConElAbierto(g)'
      <4>1. PICK g \in Hilos : Trabaja(g, f) /\ ConElAbierto(g)
        BY <2>4, <3>1
      <4>2. Archivo(g)' = f /\ ConElAbierto(g)'
        BY <1>2, <4>1 DEF Trabaja
      <4>3. pc'[g] # "espera"
        BY <4>2 DEF ConElAbierto
      <4>4. QED
        BY <4>2, <4>3 DEF Trabaja
    <3>2. ASSUME meta[f].existe = "roto"
          PROVE  \E g \in Hilos : Trabaja(g, f)' /\ pc'[g] = "guardar"
      <4>1. PICK g \in Hilos : Trabaja(g, f) /\ pc[g] = "guardar"
        BY <2>4, <3>2
      <4>2. QED
        BY <1>2, <4>1 DEF Trabaja
    <3>3. QED
      BY <3>1, <3>2 DEF Abierto
  <2>5. QED
    BY <2>1, <2>2, <2>3, <2>4
<1>4. BloquesConDueno'
  <2>1. /\ \A k \in Hilos : EnMano(k) \subseteq bitmap
        /\ \A g, k \in Hilos : g # k => EnMano(g) \cap EnMano(k) = {}
        /\ \A k \in Hilos, f \in Archivos :
             EnMano(k) \cap Range(meta[f].bloques) # {} => f = Archivo(k) /\ ConElAbierto(k)
        /\ \A f \in Archivos : Range(meta[f].bloques) \subseteq bitmap
    BY DEF Orden, BloquesConDueno
  <2>2. \A f \in Archivos : Range(meta[f].bloques) \subseteq bitmap \ S
    BY <2>1
  <2>3. \A k \in Hilos \ {h} : EnMano(k) \subseteq bitmap \ S
    BY <2>1
  <2>4. \A k \in Hilos : EnMano(k)' \subseteq bitmap'
    BY <1>2, <2>1, <2>3
  <2>5. \A k \in Hilos \ {h} : EnMano(k) \cap EnMano(h)' = {}
    BY <2>1
  <2>6. \A g, k \in Hilos : g # k => EnMano(g)' \cap EnMano(k)' = {}
    BY <1>2, <2>1, <2>5
  <2>7. \A f \in Archivos : EnMano(h)' \cap Range(meta[f].bloques) \subseteq EnMano(h) \cap Range(meta[f].bloques)
    BY <2>1
  <2>8. ASSUME NEW k \in Hilos, NEW f \in Archivos, EnMano(k)' \cap Range(meta[f].bloques) # {}
        PROVE  f = Archivo(k)' /\ ConElAbierto(k)'
    <3>1. EnMano(k) \cap Range(meta[f].bloques) # {}
      BY <1>2, <2>7, <2>8
    <3>2. f = Archivo(k) /\ ConElAbierto(k)
      BY <2>1, <3>1
    <3>3. QED
      BY <1>2, <3>2
  <2>9. SinCompartir'
    BY DEF Orden, BloquesConDueno, SinCompartir
  <2>10. \A f \in Archivos : Range(meta'[f].bloques) \subseteq bitmap'
    BY <2>2
  <2>11. QED
    BY <2>4, <2>6, <2>8, <2>9, <2>10 DEF BloquesConDueno
<1>5. FaltaExplicada'
  BY DEF FaltaExplicada
<1>6. QED
  BY <1>1, <1>3, <1>4, <1>5 DEF Orden

LEMMA PasoQuieto ==
  ASSUME Tipos, Orden, NEW h \in Hilos, vivo = "si",
         \A k \in Hilos \ {h} : Igual(k),
         EnSuLugar(h)',
         meta' = meta, bitmap' = bitmap, config' = config, reinicios' = reinicios, vivo' = vivo,
         pc[h] # "guardar", pc'[h] # "guardar",
         ConElAbierto(h)' <=> ConElAbierto(h),
         ConElAbierto(h) => vista'[h] = vista[h] /\ Archivo(h)' = Archivo(h),
         EnMano(h)' \subseteq EnMano(h)
  PROVE  Orden'
<1>1. /\ {} \in SUBSET EnMano(h) /\ {} \cap bitmap = {} /\ bitmap' = (bitmap \ {}) \cup {}
      /\ EnMano(h)' \subseteq (EnMano(h) \ {}) \cup {}
  OBVIOUS
<1>2. QED
  BY <1>1, PasoLocal

\* A step that changes where h is and perhaps its lines, its writing and what becomes of the
\* message; the rest of what h knows stays.
LEMMA Avance ==
  ASSUME Tipos, NEW h \in Hilos,
         NEW l \in Lugares, pc' = [pc EXCEPT ![h] = l],
         \A k \in Hilos \ {h} : lineas'[k] = lineas[k] /\ hizo'[k] = hizo[k],
         UNCHANGED <<sigue, creando, vista, lista, tomado, valor, bandeja, actual>>
  PROVE  /\ \A k \in Hilos \ {h} : Igual(k)
         /\ Pedido(h)' = Pedido(h) /\ Archivo(h)' = Archivo(h) /\ pc'[h] = l
BY DEF Tipos, Igual, Pedido, Archivo

LEMMA EmpezarOrden ==
  ASSUME Tipos, Orden, NEW h \in Hilos, Empezar(h)
  PROVE  Orden'
<1>1. PICK i \in DOMAIN bandeja[h] :
        LET p   == bandeja[h][i]
            hay == meta[p.archivo].existe # "no"
            nuevo == p.op = "NEW"
        IN  /\ vivo = "si" /\ pc[h] = "espera"
            /\ actual' = [actual EXCEPT ![h] = i]
            /\ creando' = [creando EXCEPT ![h] = nuevo /\ ~hay]
            /\ vista' = [vista EXCEPT ![h] = meta[p.archivo]]
            /\ lineas' = [lineas EXCEPT ![h] = IF nuevo /\ ~hay THEN ConUnoMas(p.pos, <<>>) ELSE <<>>]
            /\ pc' = [pc EXCEPT ![h] = IF hay THEN "leer" ELSE IF nuevo THEN "crear" ELSE "publicar"]
            /\ UNCHANGED <<disco, memoria, sigue, lista, tomado, valor, hizo, bandeja, sistema, historia>>
  BY DEF Empezar
<1>2. \A k \in Hilos \ {h} : Igual(k)
  BY <1>1 DEF Tipos, Igual
<1>3. /\ Pedido(h)' = bandeja[h][i] /\ vista'[h] = meta[bandeja[h][i].archivo]
      /\ tomado'[h] = tomado[h] /\ hizo'[h] = hizo[h] /\ lista'[h] = lista[h]
      /\ pc'[h] \in {"leer", "crear", "publicar"}
      /\ creando'[h] <=> pc'[h] = "crear"
      /\ pc'[h] = "crear" => Pedido(h)'.op = "NEW" /\ vista'[h].existe = "no"
  BY <1>1 DEF Tipos, Pedido
<1>4. Lugar(h) /\ pc[h] = "espera"
  BY <1>1 DEF Orden, EnSuLugar
<1>5. EnSuLugar(h)'
  BY <1>3, <1>4 DEF EnSuLugar, Creacion, Lugar, PorGuardar, SinRepetir, ConLista
<1>6. ~ConElAbierto(h)' /\ EnMano(h)' = {} /\ ~ConElAbierto(h)
  BY <1>3, <1>4 DEF ConElAbierto, EnMano, ConLista, ConTomado
<1>7. QED
  BY <1>1, <1>2, <1>3, <1>4, <1>5, <1>6, PasoQuieto DEF disco, memoria, sistema, historia

LEMMA LeerMetadataOrden ==
  ASSUME Tipos, Orden, NEW h \in Hilos, LeerMetadata(h), ~Morir("segfault")
  PROVE  Orden'
<1>1. /\ vivo = "si" /\ pc[h] = "leer"
      /\ meta[Archivo(h)].existe = "si" /\ meta[Archivo(h)].abierto = "N"
      /\ vista' = [vista EXCEPT ![h] = meta[Archivo(h)]]
      /\ lista' = [lista EXCEPT ![h] = meta[Archivo(h)].bloques]
      /\ pc' = [pc EXCEPT ![h] = "abrir"]
      /\ UNCHANGED <<disco, memoria, sigue, creando, lineas, tomado, valor, hizo, mensajes,
                     sistema, historia>>
  BY DEF LeerMetadata
<1>2. \A k \in Hilos \ {h} : Igual(k)
  BY <1>1 DEF Tipos, Igual, mensajes
<1>3. /\ vista'[h] = meta[Archivo(h)] /\ lista'[h] = meta[Archivo(h)].bloques /\ pc'[h] = "abrir"
      /\ creando'[h] = creando[h] /\ tomado'[h] = tomado[h] /\ hizo'[h] = hizo[h]
  BY <1>1 DEF Tipos
<1>4. Lugar(h) /\ Creacion(h)
  BY DEF Orden, EnSuLugar
<1>5. EnSuLugar(h)'
  BY <1>1, <1>3, <1>4 DEF EnSuLugar, Creacion, Lugar, PorGuardar, SinRepetir, ConLista
<1>6. ~ConElAbierto(h)' /\ EnMano(h)' = {} /\ ~ConElAbierto(h)
  BY <1>1, <1>3 DEF ConElAbierto, EnMano, ConLista, ConTomado
<1>7. QED
  BY <1>1, <1>2, <1>3, <1>5, <1>6, PasoQuieto DEF disco, memoria, sistema, historia

LEMMA OperateNewOrden ==
  ASSUME Tipos, Orden, NEW h \in Hilos, OperateNew(h)
  PROVE  Orden'
<1>1. PICK l \in {"final", "pedir", "escribir"} : pc' = [pc EXCEPT ![h] = l]
  BY DEF OperateNew
<1>2. /\ vivo = "si" /\ pc[h] = "bloques" /\ Pedido(h).op = "NEW"
      /\ \A k \in Hilos \ {h} : lineas'[k] = lineas[k]
      /\ UNCHANGED <<meta, bitmap, config, sigue, creando, vista, lista, tomado, valor, hizo,
                     bandeja, actual, vivo, reinicios>>
  BY DEF OperateNew, Tipos, disco, memoria, mensajes, sistema, historia
<1>3. /\ \A k \in Hilos \ {h} : Igual(k)
      /\ Pedido(h)' = Pedido(h) /\ Archivo(h)' = Archivo(h) /\ pc'[h] = l
  BY <1>1, <1>2, Avance DEF Lugares
<1>4. Creacion(h) /\ Lugar(h) /\ SinRepetir(h)
  BY DEF Orden, EnSuLugar
<1>5. ~creando[h] /\ ConLista(h) /\ ConLista(h)' /\ Soltado(h) = {} /\ Soltado(h)' = {}
  BY <1>2, <1>3, <1>4 DEF Creacion, Lugar, ConLista, Soltado
<1>6. EnSuLugar(h)'
  BY <1>2, <1>3, <1>4, <1>5 DEF EnSuLugar, Creacion, Lugar, PorGuardar, SinRepetir
<1>7. ConElAbierto(h)' /\ ConElAbierto(h)
  BY <1>2, <1>3, <1>4, <1>5 DEF ConElAbierto, Lugar
<1>8. EnMano(h)' = EnMano(h)
  BY <1>2, <1>5 DEF EnMano
<1>9. QED
  BY <1>2, <1>3, <1>6, <1>7, <1>8, PasoQuieto

LEMMA OperateGetOrden ==
  ASSUME Tipos, Orden, NEW h \in Hilos, OperateGet(h)
  PROVE  Orden'
<1>1. pc' = [pc EXCEPT ![h] = "cerrar"]
  BY DEF OperateGet
<1>2. /\ vivo = "si" /\ pc[h] = "bloques" /\ Pedido(h).op = "GET"
      /\ \A k \in Hilos \ {h} : lineas'[k] = lineas[k]
      /\ UNCHANGED <<meta, bitmap, config, sigue, creando, vista, lista, tomado, valor, hizo,
                     bandeja, actual, vivo, reinicios>>
  BY DEF OperateGet, Tipos, disco, memoria, mensajes, sistema, historia
<1>3. /\ \A k \in Hilos \ {h} : Igual(k)
      /\ Pedido(h)' = Pedido(h) /\ Archivo(h)' = Archivo(h) /\ pc'[h] = "cerrar"
  BY <1>1, <1>2, Avance DEF Lugares
<1>4. Creacion(h) /\ Lugar(h) /\ SinRepetir(h)
  BY DEF Orden, EnSuLugar
<1>5. ~creando[h] /\ ConLista(h) /\ ConLista(h)' /\ Soltado(h) = {} /\ Soltado(h)' = {}
  BY <1>2, <1>3, <1>4 DEF Creacion, Lugar, ConLista, Soltado
<1>6. EnSuLugar(h)'
  BY <1>2, <1>3, <1>4, <1>5 DEF EnSuLugar, Creacion, Lugar, PorGuardar, SinRepetir
<1>7. ConElAbierto(h)' /\ ConElAbierto(h)
  BY <1>2, <1>3, <1>4, <1>5 DEF ConElAbierto, Lugar
<1>8. EnMano(h)' = EnMano(h)
  BY <1>2, <1>5 DEF EnMano
<1>9. QED
  BY <1>2, <1>3, <1>6, <1>7, <1>8, PasoQuieto

LEMMA EscribirBlockOrden ==
  ASSUME Tipos, Orden, NEW h \in Hilos, EscribirBlock(h)
  PROVE  Orden'
<1>1. PICK l \in {"escribir", "metadata"} : pc' = [pc EXCEPT ![h] = l]
  BY DEF EscribirBlock
<1>2. /\ vivo = "si" /\ pc[h] = "escribir"
      /\ \A k \in Hilos \ {h} : hizo'[k] = hizo[k]
      /\ Pedido(h).op = "NEW" => hizo'[h] = "guardado"
      /\ UNCHANGED <<meta, bitmap, config, sigue, creando, vista, lista, lineas, tomado, valor,
                     bandeja, actual, vivo, reinicios>>
  BY DEF EscribirBlock, Tipos, disco, memoria, mensajes, sistema, historia
<1>3. /\ \A k \in Hilos \ {h} : Igual(k)
      /\ Pedido(h)' = Pedido(h) /\ Archivo(h)' = Archivo(h) /\ pc'[h] = l
  BY <1>1, <1>2, Avance DEF Lugares
<1>4. Creacion(h) /\ Lugar(h) /\ SinRepetir(h)
  BY DEF Orden, EnSuLugar
<1>5. ConLista(h) /\ ConLista(h)' /\ Soltado(h)' = Soltado(h)
  BY <1>2, <1>3 DEF ConLista, Soltado
<1>6. EnSuLugar(h)'
  BY <1>2, <1>3, <1>4, <1>5 DEF EnSuLugar, Creacion, Lugar, PorGuardar, SinRepetir
<1>7. ConElAbierto(h)' <=> ConElAbierto(h)
  BY <1>2, <1>3 DEF ConElAbierto
<1>8. EnMano(h)' = EnMano(h)
  BY <1>2, <1>5 DEF EnMano, ConTomado
<1>9. QED
  BY <1>2, <1>3, <1>6, <1>7, <1>8, PasoQuieto

LEMMA OperateCatchOrden ==
  ASSUME Tipos, Orden, NEW h \in Hilos, OperateCatch(h)
  PROVE  Orden'
<1> DEFINE bs == lista[h]
           esta == CoordinateExists(Pedido(h).pos, LineasDe(Archivo(h), bs, bloque))
<1>1. /\ vivo = "si" /\ pc[h] = "bloques" /\ Pedido(h).op = "CATCH"
      /\ \A k \in Hilos \ {h} : lineas'[k] = lineas[k]
      /\ UNCHANGED <<meta, bitmap, config, sigue, creando, vista, valor, bandeja, actual, vivo,
                     reinicios>>
  BY DEF OperateCatch, Tipos, disco, memoria, mensajes, sistema, historia
<1>2. PICK l \in {"cerrar", "metadata", "escribir"} : pc' = [pc EXCEPT ![h] = l]
  BY DEF OperateCatch
<1>3. /\ \A k \in Hilos \ {h} : Igual(k)
      /\ Pedido(h)' = Pedido(h) /\ Archivo(h)' = Archivo(h) /\ pc'[h] = l
  BY <1>1, <1>2 DEF OperateCatch, Tipos, Igual, Pedido, Archivo
<1>4. Creacion(h) /\ Lugar(h) /\ SinRepetir(h)
  BY DEF Orden, EnSuLugar
<1>5. /\ ~creando[h] /\ ConLista(h) /\ ConLista(h)' /\ ConTomado(h)
      /\ tomado[h] = -1 /\ hizo[h] = "nada" /\ vista[h].bloques = bs /\ IsInjective(bs)
  BY <1>1, <1>3, <1>4 DEF Creacion, Lugar, ConLista, ConTomado, SinRepetir
<1>6. bs \in Seq(Bloques) /\ Archivo(h) \in Archivos
  BY <1>1, PedidoValido DEF Tipos
<1>7. CASE ~esta
  <2>1. /\ lista'[h] = bs /\ tomado'[h] = -1 /\ hizo'[h] = "nada" /\ pc'[h] = "cerrar"
    BY <1>1, <1>5, <1>7 DEF OperateCatch, Tipos
  <2>2. Soltado(h)' = {} /\ EnMano(h)' \subseteq EnMano(h)
    BY <1>5, <2>1 DEF Soltado, EnMano
  <2>3. EnSuLugar(h)'
    BY <1>1, <1>3, <1>4, <1>5, <2>1, <2>2 DEF EnSuLugar, Creacion, Lugar, PorGuardar, SinRepetir
  <2>4. ConElAbierto(h)' /\ ConElAbierto(h)
    BY <1>1, <1>3, <1>5 DEF ConElAbierto
  <2>5. QED
    BY <1>1, <1>3, <2>1, <2>2, <2>3, <2>4, PasoQuieto
<1>8. CASE esta
  <2>1. bs # <<>>
    BY <1>6, <1>8, AtrapaDeAlgunBloque
  <2>2. /\ bs[1] \in Range(bs) /\ Last(bs) \in Range(bs) /\ Range(Front(bs)) \subseteq Range(bs)
        /\ IsInjective(Front(bs)) /\ Last(bs) \notin Range(Front(bs))
    BY <1>5, <1>6, <2>1, FrontInyectiva
  <2>3. IsInjective(<<>>) /\ Range(<<>>) = {}
    BY EmptySeq, LenProperties DEF IsInjective, Range
  <2>4. \/ lista'[h] = <<>> /\ tomado'[h] = bs[1]
        \/ lista'[h] = Front(bs) /\ tomado'[h] = Last(bs)
        \/ lista'[h] = bs /\ tomado'[h] = -1
    <3> DEFINE ls == ConUnoMenos(Pedido(h).pos, LineasDe(Archivo(h), bs, bloque))
               suelta == ls = <<>> \/ BlocksOcupados(Archivo(h), Len(ls)) < Len(bs)
    <3>1. /\ tomado' = [tomado EXCEPT ![h] = IF ls = <<>> THEN bs[1]
                                             ELSE IF suelta THEN Last(bs) ELSE -1]
          /\ lista' = [lista EXCEPT ![h] = IF ls = <<>> THEN <<>>
                                           ELSE IF suelta THEN Front(bs) ELSE bs]
      BY <1>8 DEF OperateCatch
    <3> HIDE DEF ls, suelta
    <3>2. QED
      BY <3>1 DEF Tipos
  <2>5. l \in {"metadata", "escribir"}
    BY <1>2, <1>8 DEF OperateCatch, Tipos
  <2>6. IsInjective(lista'[h]) /\ Soltado(h)' \cap Range(lista'[h]) = {}
    BY <2>2, <2>3, <2>4, <1>5 DEF Soltado
  <2>7. EnMano(h)' \subseteq EnMano(h)
    BY <1>5, <2>2, <2>3, <2>4 DEF EnMano, Soltado
  <2>8. EnSuLugar(h)'
    BY <1>1, <1>3, <1>5, <2>5, <2>6 DEF EnSuLugar, Creacion, Lugar, PorGuardar, SinRepetir
  <2>9. ConElAbierto(h)' /\ ConElAbierto(h)
    BY <1>1, <1>3, <1>5 DEF ConElAbierto
  <2>10. QED
    BY <1>1, <1>3, <2>5, <2>7, <2>8, <2>9, PasoQuieto
<1>9. QED
  BY <1>7, <1>8

LEMMA BuscarLibreOrden ==
  ASSUME Tipos, Orden, NEW h \in Hilos, BuscarLibre(h)
  PROVE  Orden'
<1>1. /\ vivo = "si" /\ pc[h] = "pedir" /\ pc' = [pc EXCEPT ![h] = "marcar"]
      /\ \E b : tomado' = [tomado EXCEPT ![h] = b]
      /\ UNCHANGED <<meta, bitmap, config, sigue, creando, vista, lista, lineas, valor, hizo,
                     bandeja, actual, vivo, reinicios>>
  BY DEF BuscarLibre, disco, memoria, mensajes, sistema, historia
<1>2. /\ \A k \in Hilos \ {h} : Igual(k)
      /\ Pedido(h)' = Pedido(h) /\ Archivo(h)' = Archivo(h) /\ pc'[h] = "marcar"
  BY <1>1 DEF Tipos, Igual, Pedido, Archivo
<1>3. Creacion(h) /\ Lugar(h) /\ SinRepetir(h)
  BY DEF Orden, EnSuLugar
<1>4. ConLista(h) /\ ConLista(h)' /\ Soltado(h) = {} /\ Soltado(h)' = {}
  BY <1>1, <1>2, <1>3 DEF Lugar, ConLista, Soltado
<1>5. EnSuLugar(h)'
  BY <1>1, <1>2, <1>3, <1>4 DEF EnSuLugar, Creacion, Lugar, PorGuardar, SinRepetir
<1>6. ConElAbierto(h)' <=> ConElAbierto(h)
  BY <1>1, <1>2 DEF ConElAbierto
<1>7. EnMano(h)' = EnMano(h)
  BY <1>1, <1>4 DEF EnMano
<1>8. QED
  BY <1>1, <1>2, <1>5, <1>6, <1>7, PasoQuieto

LEMMA ConfBloqueOrden ==
  ASSUME Tipos, Orden, NEW h \in Hilos, ConfBloque(h), carreras' = {}
  PROVE  Orden'
<1> DEFINE b == tomado[h]
<1>1. PICK l \in {"pedir", "escribir"} : pc' = [pc EXCEPT ![h] = l]
  BY DEF ConfBloque
<1>2. /\ vivo = "si" /\ pc[h] = "marcar" /\ bitmap' = bitmap \cup {b} /\ b \notin bitmap
      /\ lista' = [lista EXCEPT ![h] = Append(lista[h], b)]
      /\ tomado' = [tomado EXCEPT ![h] = -1]
      /\ UNCHANGED <<meta, config, sigue, creando, vista, lineas, valor, hizo, bandeja, actual,
                     vivo, reinicios>>
  BY DEF ConfBloque, memoria, mensajes, sistema
<1>3. /\ \A k \in Hilos \ {h} : Igual(k)
      /\ Pedido(h)' = Pedido(h) /\ Archivo(h)' = Archivo(h) /\ pc'[h] = l
      /\ lista'[h] = Append(lista[h], b) /\ tomado'[h] = -1
  BY <1>1, <1>2 DEF Tipos, Igual, Pedido, Archivo
<1>4. Creacion(h) /\ Lugar(h) /\ SinRepetir(h) /\ EnMano(h) \subseteq bitmap
  BY DEF Orden, EnSuLugar, BloquesConDueno
<1>5. ConLista(h) /\ ConLista(h)' /\ Soltado(h) = {} /\ Soltado(h)' = {}
  BY <1>2, <1>3, <1>4 DEF Lugar, ConLista, Soltado
<1>6. lista[h] \in Seq(Bloques) /\ b \in Bloques /\ IsInjective(lista[h]) /\ b \notin Range(lista[h])
  BY <1>2, <1>4, <1>5 DEF Tipos, SinRepetir, EnMano
<1>7. IsInjective(lista'[h]) /\ Range(lista'[h]) = Range(lista[h]) \cup {b}
  BY <1>3, <1>6, AppendInyectiva
<1>8. EnSuLugar(h)'
  BY <1>2, <1>3, <1>4, <1>5, <1>7 DEF EnSuLugar, Creacion, Lugar, PorGuardar, SinRepetir
<1>9. ConElAbierto(h)' <=> ConElAbierto(h)
  BY <1>2, <1>3 DEF ConElAbierto
<1>10. EnMano(h) = Range(lista[h]) /\ EnMano(h)' = Range(lista'[h])
  BY <1>5 DEF EnMano
<1>11. /\ {} \in SUBSET EnMano(h) /\ {b} \cap bitmap = {} /\ bitmap' = (bitmap \ {}) \cup {b}
       /\ EnMano(h)' \subseteq (EnMano(h) \ {}) \cup {b}
  BY <1>2, <1>7, <1>10
<1>12. QED
  BY <1>2, <1>3, <1>8, <1>9, <1>11, PasoLocal

LEMMA LiberarBloqueOrden ==
  ASSUME Tipos, Orden, NEW h \in Hilos, LiberarBloque(h)
  PROVE  Orden'
<1>1. /\ vivo = "si" /\ pc[h] = "soltar" /\ bitmap' = bitmap \ {tomado[h]}
      /\ pc' = [pc EXCEPT ![h] = IF lineas[h] = <<>> THEN "publicar" ELSE "vaciar"]
      /\ UNCHANGED <<meta, config, sigue, creando, vista, lista, lineas, tomado, valor, hizo,
                     bandeja, actual, vivo, reinicios>>
  BY DEF LiberarBloque, memoria, operacion, mensajes, sistema, historia
<1>2. /\ \A k \in Hilos \ {h} : Igual(k)
      /\ Pedido(h)' = Pedido(h) /\ Archivo(h)' = Archivo(h)
      /\ pc'[h] = IF lineas[h] = <<>> THEN "publicar" ELSE "vaciar"
  BY <1>1 DEF Tipos, Igual, Pedido, Archivo
<1>3. Creacion(h) /\ Lugar(h) /\ EnMano(h) \subseteq bitmap
  BY DEF Orden, EnSuLugar, BloquesConDueno
<1>4. ~ConLista(h) /\ ~ConLista(h)' /\ ConTomado(h) /\ ~ConTomado(h)'
      /\ ~ConElAbierto(h) /\ ~ConElAbierto(h)'
  BY <1>1, <1>2 DEF ConLista, ConTomado, ConElAbierto
<1>5. EnMano(h) = {tomado[h]} \ {-1} /\ EnMano(h)' = {}
  BY <1>1, <1>3, <1>4 DEF EnMano, Soltado, Lugar
<1>6. bitmap' = (bitmap \ EnMano(h)) \cup {}
  BY <1>1, <1>5, BloquesNaturales DEF Tipos
<1>7. EnSuLugar(h)'
  BY <1>1, <1>2, <1>3, <1>4 DEF EnSuLugar, Creacion, Lugar, PorGuardar, SinRepetir
<1>8. \A k \in Hilos \ {h} : Igual(k)
  BY <1>2
<1>9. /\ EnMano(h) \in SUBSET EnMano(h) /\ {} \cap bitmap = {}
      /\ EnMano(h)' \subseteq (EnMano(h) \ EnMano(h)) \cup {}
      /\ pc[h] # "guardar" /\ pc'[h] # "guardar"
      /\ ConElAbierto(h)' <=> ConElAbierto(h)
      /\ ConElAbierto(h) => vista'[h] = vista[h] /\ Archivo(h)' = Archivo(h)
      /\ EnMano(h) # {} => ~ConElAbierto(h)
      /\ meta' = meta /\ config' = config /\ reinicios' = reinicios /\ vivo' = vivo /\ vivo = "si"
  BY <1>1, <1>2, <1>4, <1>5
<1>10. QED
  BY <1>6, <1>7, <1>8, <1>9, PasoLocal, Zenon

LEMMA VaciarBloqueOrden ==
  ASSUME Tipos, Orden, NEW h \in Hilos, VaciarBloque(h)
  PROVE  Orden'
<1>1. /\ vivo = "si" /\ pc[h] = "vaciar"
      /\ pc' = [pc EXCEPT ![h] = IF lineas[h] = <<>> THEN "soltar" ELSE "publicar"]
      /\ UNCHANGED <<meta, bitmap, config, sigue, creando, vista, lista, lineas, tomado, valor,
                     hizo, bandeja, actual, vivo, reinicios>>
  BY DEF VaciarBloque, memoria, operacion, mensajes, sistema, historia
<1>2. /\ \A k \in Hilos \ {h} : Igual(k)
      /\ Pedido(h)' = Pedido(h) /\ Archivo(h)' = Archivo(h)
      /\ pc'[h] = IF lineas[h] = <<>> THEN "soltar" ELSE "publicar"
  BY <1>1 DEF Tipos, Igual, Pedido, Archivo
<1>3. Creacion(h) /\ Lugar(h)
  BY DEF Orden, EnSuLugar
<1>4. /\ ~ConLista(h) /\ ~ConLista(h)' /\ (ConTomado(h)' => ConTomado(h))
      /\ ~ConElAbierto(h) /\ ~ConElAbierto(h)'
  BY <1>1, <1>2 DEF ConLista, ConTomado, ConElAbierto
<1>5. EnMano(h)' \subseteq EnMano(h)
  BY <1>1, <1>2, <1>4 DEF EnMano, Soltado
<1>6. EnSuLugar(h)'
  BY <1>1, <1>2, <1>3, <1>4 DEF EnSuLugar, Creacion, Lugar, PorGuardar, SinRepetir
<1>7. QED
  BY <1>1, <1>2, <1>4, <1>5, <1>6, PasoQuieto

LEMMA PublicarOrden ==
  ASSUME Tipos, Orden, NEW h \in Hilos, Publicar(h)
  PROVE  Orden'
<1>1. /\ vivo = "si" /\ pc[h] = "publicar" /\ Reposo(h)
      /\ actual' = [actual EXCEPT ![h] = 0]
      /\ UNCHANGED <<meta, bitmap, config, bandeja, vivo, reinicios>>
  BY DEF Publicar, disco, memoria, sistema
<1>2. \A k \in Hilos \ {h} : Igual(k)
  BY <1>1 DEF Reposo, Tipos, Igual
<1>3. /\ pc'[h] = "espera" /\ ~creando'[h] /\ lista'[h] = <<>> /\ tomado'[h] = -1
      /\ hizo'[h] = "nada"
  BY <1>1 DEF Reposo, Tipos
<1>4. ~ConLista(h)' /\ ~ConTomado(h)' /\ ~ConElAbierto(h) /\ ~ConElAbierto(h)'
  BY <1>1, <1>3 DEF ConLista, ConTomado, ConElAbierto
<1>5. EnMano(h)' = {} /\ EnSuLugar(h)'
  BY <1>3, <1>4 DEF EnMano, EnSuLugar, Creacion, Lugar, PorGuardar, SinRepetir
<1>6. QED
  BY <1>1, <1>2, <1>3, <1>4, <1>5, PasoQuieto

------------------------------------------------------------------------------
(* A Metadata.bin is truncated. *)

LEMMA TruncarHecho ==
  ASSUME Tipos, NEW h \in Hilos, pc[h] # "espera", NEW v, NEW luego, Truncar(h, v, luego)
  PROVE  /\ \A k \in Hilos \ {h} : Igual(k)
         /\ Pedido(h)' = Pedido(h) /\ Archivo(h)' = Archivo(h)
         /\ pc'[h] = "guardar" /\ sigue'[h] = luego /\ valor'[h] = v
         /\ creando'[h] = creando[h] /\ lista'[h] = lista[h] /\ tomado'[h] = tomado[h]
         /\ hizo'[h] = hizo[h] /\ vista'[h] = vista[h] /\ Soltado(h)' = Soltado(h)
         /\ meta'[Archivo(h)] = Roto
         /\ \A f \in Archivos \ {Archivo(h)} : meta'[f] = meta[f]
         /\ config' = Archivo(h) /\ bitmap' = bitmap /\ vivo' = vivo /\ reinicios' = reinicios
         /\ carreras' = {} => meta[Archivo(h)] = vista[h] /\ config = Ninguno
<1>1. Archivo(h) \in Archivos
  BY PedidoValido
<1>2. /\ \A k \in Hilos \ {h} : Igual(k)
      /\ Pedido(h)' = Pedido(h) /\ Archivo(h)' = Archivo(h)
  BY DEF Truncar, Tipos, Igual, Pedido, Archivo, mensajes
<1>3. Soltado(h)' = Soltado(h)
  BY <1>2 DEF Truncar, Soltado
<1>4. /\ pc'[h] = "guardar" /\ sigue'[h] = luego /\ valor'[h] = v
      /\ creando'[h] = creando[h] /\ lista'[h] = lista[h] /\ tomado'[h] = tomado[h]
      /\ hizo'[h] = hizo[h] /\ vista'[h] = vista[h]
  BY DEF Truncar, Tipos
<1>5. /\ meta'[Archivo(h)] = Roto
      /\ \A f \in Archivos \ {Archivo(h)} : meta'[f] = meta[f]
  BY <1>1 DEF Truncar, Tipos
<1>6. /\ config' = Archivo(h) /\ bitmap' = bitmap /\ vivo' = vivo /\ reinicios' = reinicios
      /\ carreras' = {} => meta[Archivo(h)] = vista[h] /\ config = Ninguno
  BY DEF Truncar, sistema
<1>7. QED
  BY <1>2, <1>3, <1>4, <1>5, <1>6

\* Who truncates a file has it open, or nobody has: it saw OPEN=N, or no file, a moment ago and
\* the file is as it was.  The blocks of the file, if not in its hand yet, come to it.
LEMMA TruncarOrden ==
  ASSUME Tipos, Orden, NEW h \in Hilos, pc[h] # "espera", pc[h] # "guardar", vivo = "si",
         NEW v, NEW luego, Truncar(h, v, luego), carreras' = {},
         Creacion(h)', PorGuardar(h)',
         ~ConElAbierto(h) => vista[h].existe # "si" \/ vista[h].abierto = "N",
         ConLista(h) \/ (Soltado(h) = {} /\ (lista[h] = <<>> \/ vista[h].bloques = lista[h]))
  PROVE  Orden'
<1> DEFINE f0 == Archivo(h)
<1>1. /\ \A k \in Hilos \ {h} : Igual(k)
      /\ Pedido(h)' = Pedido(h) /\ Archivo(h)' = f0
      /\ pc'[h] = "guardar" /\ lista'[h] = lista[h] /\ vista'[h] = vista[h]
      /\ Soltado(h)' = Soltado(h)
      /\ meta'[f0] = Roto /\ \A f \in Archivos \ {f0} : meta'[f] = meta[f]
      /\ config' = f0 /\ bitmap' = bitmap /\ vivo' = vivo /\ reinicios' = reinicios
      /\ meta[f0] = vista[h] /\ config = Ninguno /\ f0 \in Archivos
  BY TruncarHecho, PedidoValido
<1>2. \A k \in Hilos \ {h} : /\ EnMano(k)' = EnMano(k) /\ Archivo(k)' = Archivo(k)
                             /\ ConElAbierto(k)' = ConElAbierto(k) /\ pc'[k] = pc[k]
                             /\ vista'[k] = vista[k] /\ EnSuLugar(k)' = EnSuLugar(k)
  BY <1>1, IgualIgual DEF Igual
<1>3. \A k \in Hilos : pc[k] # "guardar"
  <2> SUFFICES ASSUME NEW k \in Hilos, pc[k] = "guardar" PROVE FALSE
    OBVIOUS
  <2>1. config = Archivo(k) /\ Archivo(k) \in Archivos
    BY PedidoValido DEF Orden, MetadataConDueno
  <2>2. QED
    BY <1>1, <2>1, GameCardAssumption
<1>4. \A k \in Hilos \ {h} : ConElAbierto(k) => Archivo(k) # f0
  <2> SUFFICES ASSUME NEW k \in Hilos \ {h}, ConElAbierto(k), Archivo(k) = f0 PROVE FALSE
    OBVIOUS
  <2>1. vista[h].existe = "si" /\ vista[h].abierto = "Y"
    BY <1>1 DEF Orden, MetadataConDueno, Abierto
  <2>2. ConElAbierto(h)
    BY <2>1
  <2>3. QED
    BY <2>2 DEF Orden, MetadataConDueno, UnoSolo
<1>5. ConLista(h)' /\ ConTomado(h)' /\ ~ConElAbierto(h)'
  BY <1>1 DEF ConLista, ConTomado, ConElAbierto
<1>6. EnMano(h)' = Range(lista[h]) \cup Soltado(h)
  BY <1>1, <1>5 DEF EnMano
<1>7. /\ SinCompartir
      /\ \A k \in Hilos : EnMano(k) \subseteq bitmap
      /\ \A g, k \in Hilos : g # k => EnMano(g) \cap EnMano(k) = {}
      /\ \A k \in Hilos, f \in Archivos :
           EnMano(k) \cap Range(meta[f].bloques) # {} => f = Archivo(k) /\ ConElAbierto(k)
      /\ \A f \in Archivos : Range(meta[f].bloques) \subseteq bitmap
  BY DEF Orden, BloquesConDueno
<1>8. Range(<<>>) = {} /\ IsInjective(<<>>)
  BY EmptySeq, LenProperties DEF Range, IsInjective
\* The blocks in hand were so already, or are those of the file.
<1>9. EnMano(h)' \subseteq EnMano(h) \/ EnMano(h)' \subseteq Range(meta[f0].bloques)
  <2>1. CASE ConLista(h)
    BY <1>6, <2>1 DEF EnMano, ConTomado
  <2>2. CASE ~ConLista(h)
    BY <1>1, <1>6, <1>8, <2>2
  <2>3. QED
    BY <2>1, <2>2
<1>10. IsInjective(lista[h]) /\ Soltado(h) \cap Range(lista[h]) = {}
  <2>1. CASE ConLista(h)
    BY <2>1 DEF Orden, EnSuLugar, SinRepetir
  <2>2. IsInjective(meta[f0].bloques)
    BY <1>1, <1>7 DEF SinCompartir, IsInjective
  <2>3. QED
    BY <1>1, <1>8, <2>1, <2>2
<1>11. EnSuLugar(h)'
  BY <1>1, <1>10 DEF EnSuLugar, Lugar, SinRepetir
<1>12. MetadataConDueno'
  <2>1. \A g \in Hilos : pc'[g] = "guardar" =>
          /\ config' = Archivo(g)' /\ meta'[Archivo(g)'] = Roto
          /\ \A k \in Hilos : pc'[k] = "guardar" => k = g
    BY <1>1, <1>2, <1>3
  <2>2. ASSUME NEW g \in Hilos, ConElAbierto(g)'
        PROVE  meta'[Archivo(g)'] = vista'[g] /\ Abierto(Archivo(g))'
    <3>1. g # h /\ ConElAbierto(g) /\ Archivo(g) # f0
      BY <1>2, <1>4, <1>5, <2>2
    <3>2. Archivo(g) \in Archivos
      BY <3>1, PedidoValido DEF ConElAbierto
    <3>3. meta'[Archivo(g)] = meta[Archivo(g)] /\ meta[Archivo(g)] = vista[g] /\ Abierto(Archivo(g))
      BY <1>1, <3>1, <3>2 DEF Orden, MetadataConDueno
    <3>4. QED
      BY <1>2, <3>1, <3>3 DEF Abierto
  <2>3. UnoSolo'
    BY <1>2, <1>5 DEF UnoSolo, Orden, MetadataConDueno
  <2>4. ASSUME reinicios' = 0, NEW f \in Archivos
        PROVE  /\ Abierto(f)' => \E g \in Hilos : Trabaja(g, f)' /\ ConElAbierto(g)'
               /\ meta'[f].existe = "roto" => \E g \in Hilos : Trabaja(g, f)' /\ pc'[g] = "guardar"
    <3>1. CASE f = f0
      <4>1. Trabaja(h, f)'
        BY <1>1, <3>1 DEF Trabaja
      <4>2. ~Abierto(f)'
        BY <1>1, <3>1 DEF Abierto, Roto
      <4>3. QED
        BY <1>1, <4>1, <4>2
    <3>2. CASE f # f0
      <4>1. meta'[f] = meta[f]
        BY <1>1, <3>2
      <4>2. meta[f].existe # "roto"
        BY <1>1, <1>3, <2>4 DEF Orden, MetadataConDueno
      <4>3. ASSUME Abierto(f)
            PROVE  \E g \in Hilos : Trabaja(g, f)' /\ ConElAbierto(g)'
        <5>1. PICK g \in Hilos : Trabaja(g, f) /\ ConElAbierto(g)
          BY <1>1, <2>4, <4>3 DEF Orden, MetadataConDueno
        <5>2. g # h
          BY <3>2, <5>1 DEF Trabaja
        <5>3. QED
          BY <1>1, <1>2, <5>1, <5>2, IgualIgual
      <4>4. QED
        BY <4>1, <4>2, <4>3 DEF Abierto
    <3>3. QED
      BY <3>1, <3>2
  <2>5. QED
    BY <1>1, <2>1, <2>2, <2>3, <2>4 DEF MetadataConDueno
<1>13. BloquesConDueno'
  <2>1. Range(meta'[f0].bloques) = {} /\ DOMAIN meta'[f0].bloques = {}
    BY <1>1, EmptySeq, LenProperties DEF Roto, Range
  <2>2. SinCompartir'
    <3>1. \A f \in Archivos : f = f0 \/ meta'[f] = meta[f]
      BY <1>1
    <3>2. QED
      BY <1>7, <2>1, <3>1 DEF SinCompartir
  <2>3. \A f \in Archivos : Range(meta'[f].bloques) \subseteq bitmap'
    BY <1>1, <1>7, <2>1
  <2>4. \A k \in Hilos : EnMano(k)' \subseteq bitmap'
    BY <1>1, <1>2, <1>7, <1>9
  <2>5. \A k \in Hilos \ {h} : EnMano(k) \cap EnMano(h)' = {}
    BY <1>1, <1>4, <1>7, <1>9
  <2>6. \A g, k \in Hilos : g # k => EnMano(g)' \cap EnMano(k)' = {}
    BY <1>2, <1>7, <2>5
  <2>7. ASSUME NEW k \in Hilos, NEW f \in Archivos, EnMano(k)' \cap Range(meta'[f].bloques) # {}
        PROVE  f = Archivo(k)' /\ ConElAbierto(k)'
    <3>1. f # f0 /\ meta'[f] = meta[f]
      BY <1>1, <2>1, <2>7
    <3>2. CASE k # h
      BY <1>2, <1>7, <2>7, <3>1, <3>2
    <3>3. CASE k = h
      <4>1. CASE EnMano(h)' \subseteq EnMano(h)
        BY <1>7, <2>7, <3>1, <3>3, <4>1
      <4>2. CASE EnMano(h)' \subseteq Range(meta[f0].bloques)
        <5>1. PICK b \in Range(meta[f0].bloques) : b \in Range(meta[f].bloques)
          BY <2>7, <3>1, <3>3, <4>2
        <5>2. QED
          BY <1>1, <1>7, <3>1, <5>1 DEF SinCompartir, Range
      <4>3. QED
        BY <1>9, <4>1, <4>2
    <3>4. QED
      BY <3>2, <3>3
  <2>8. QED
    BY <2>2, <2>3, <2>4, <2>6, <2>7 DEF BloquesConDueno
<1>14. FaltaExplicada'
  BY <1>1 DEF FaltaExplicada
<1>15. QED
  BY <1>2, <1>11, <1>12, <1>13, <1>14 DEF Orden

\* The steps that truncate.
LEMMA CrearArchivoOrden ==
  ASSUME Tipos, Orden, NEW h \in Hilos, CrearArchivo(h), carreras' = {}
  PROVE  Orden'
<1>1. vivo = "si" /\ pc[h] = "crear" /\ HayLugarParaUno(h) \in {"pedir", "publicar"}
  BY DEF CrearArchivo, HayLugarParaUno
<1>2. Creacion(h) /\ Lugar(h) /\ creando[h] /\ lista[h] = <<>> /\ Pedido(h).op = "NEW"
  BY <1>1 DEF Orden, EnSuLugar, Lugar, Creacion
<1>3. ~ConElAbierto(h) /\ ~ConLista(h) /\ Soltado(h) = {}
  BY <1>1, <1>2 DEF ConElAbierto, ConLista, Soltado
<1>4. CASE Truncar(h, Metadata(<<>>, "N"), HayLugarParaUno(h))
  <2>1. /\ Pedido(h)' = Pedido(h) /\ pc'[h] = "guardar" /\ sigue'[h] = HayLugarParaUno(h)
        /\ valor'[h] = Metadata(<<>>, "N") /\ creando'[h] = creando[h] /\ lista'[h] = lista[h]
        /\ hizo'[h] = hizo[h] /\ vista'[h] = vista[h]
    BY <1>1, <1>4, TruncarHecho
  <2>2. Creacion(h)' /\ PorGuardar(h)'
    BY <1>1, <1>2, <2>1 DEF Creacion, PorGuardar
  <2>3. vista[h].existe # "si" \/ vista[h].abierto = "N"
    BY <1>2 DEF Creacion
  <2>4. QED
    BY <1>1, <1>2, <1>3, <1>4, <2>2, <2>3, TruncarOrden
<1>5. CASE /\ pc' = [pc EXCEPT ![h] = HayLugarParaUno(h)]
           /\ UNCHANGED <<disco, memoria, operacion, mensajes, sistema, historia>>
  <2>1. /\ \A k \in Hilos \ {h} : Igual(k)
        /\ Pedido(h)' = Pedido(h) /\ pc'[h] \in {"pedir", "publicar"}
    BY <1>1, <1>5, Avance DEF Lugares, operacion, mensajes
  <2>2. UNCHANGED <<meta, bitmap, config, sigue, creando, vista, lista, tomado, valor, hizo, vivo, reinicios>>
    BY <1>5 DEF disco, memoria, operacion, sistema, historia
  <2>3. ~ConElAbierto(h)' /\ Soltado(h)' = {} /\ Range(<<>>) = {} /\ IsInjective(<<>>)
    BY <1>2, <2>1, <2>2, EmptySeq, LenProperties DEF ConElAbierto, Soltado, Range, IsInjective
  <2>4. EnMano(h)' = {}
    BY <1>2, <2>2, <2>3 DEF EnMano
  <2>5. EnSuLugar(h)'
    BY <1>2, <2>1, <2>2, <2>3 DEF EnSuLugar, Creacion, Lugar, PorGuardar, SinRepetir
  <2>6. QED
    BY <1>1, <1>3, <2>1, <2>2, <2>3, <2>4, <2>5, PasoQuieto
<1>6. QED
  BY <1>4, <1>5 DEF CrearArchivo

LEMMA AbrirOrden ==
  ASSUME Tipos, Orden, NEW h \in Hilos, Abrir(h), carreras' = {}
  PROVE  Orden'
<1>1. vivo = "si" /\ pc[h] = "abrir"
  BY DEF Abrir
<1>2. Truncar(h, Metadata(meta[Archivo(h)].bloques, "Y"), "bloques")
  BY DEF Abrir, UpdateOpenFileState
<1>3. Creacion(h) /\ Lugar(h)
  BY DEF Orden, EnSuLugar
<1>4. /\ ~creando[h] /\ ~ConElAbierto(h) /\ tomado[h] = -1 /\ Soltado(h) = {}
      /\ hizo[h] = "nada" /\ vista[h].abierto = "N" /\ vista[h].bloques = lista[h]
  BY <1>1, <1>3 DEF Creacion, Lugar, ConElAbierto, Soltado
<1>5. /\ pc'[h] = "guardar" /\ sigue'[h] = "bloques" /\ valor'[h] = Metadata(lista[h], "Y")
      /\ creando'[h] = creando[h] /\ lista'[h] = lista[h] /\ tomado'[h] = tomado[h]
      /\ hizo'[h] = hizo[h]
  BY <1>1, <1>2, <1>4, TruncarHecho
<1>6. Creacion(h)' /\ PorGuardar(h)'
  BY <1>4, <1>5 DEF Creacion, PorGuardar
<1>7. QED
  BY <1>1, <1>2, <1>4, <1>6, TruncarOrden

LEMMA CerrarOrden ==
  ASSUME Tipos, Orden, NEW h \in Hilos, Cerrar(h), carreras' = {}
  PROVE  Orden'
<1>1. vivo = "si" /\ pc[h] = "cerrar"
  BY DEF Cerrar
<1>2. Truncar(h, Metadata(meta[Archivo(h)].bloques, "N"), "publicar")
  BY DEF Cerrar, UpdateOpenFileState
<1>3. Creacion(h) /\ Lugar(h)
  BY DEF Orden, EnSuLugar
<1>4. ~creando[h] /\ ConElAbierto(h) /\ ConLista(h) /\ vista[h].bloques = lista[h]
  BY <1>1, <1>3 DEF Creacion, Lugar, ConElAbierto, ConLista
<1>5. /\ pc'[h] = "guardar" /\ sigue'[h] = "publicar" /\ valor'[h] = Metadata(lista[h], "N")
      /\ creando'[h] = creando[h] /\ lista'[h] = lista[h]
  BY <1>1, <1>2, <1>4, TruncarHecho
<1>6. Creacion(h)' /\ PorGuardar(h)'
  BY <1>4, <1>5 DEF Creacion, PorGuardar
<1>7. QED
  BY <1>1, <1>2, <1>4, <1>6, TruncarOrden

LEMMA ActualizarMetadataOrden ==
  ASSUME Tipos, Orden, NEW h \in Hilos, ActualizarMetadata(h), carreras' = {}
  PROVE  Orden'
<1> DEFINE luego == DespuesDeActualizar(h)
<1>1. vivo = "si" /\ pc[h] = "metadata" /\ Truncar(h, Metadata(lista[h], "N"), luego)
  BY DEF ActualizarMetadata
<1>2. Creacion(h) /\ Lugar(h)
  BY DEF Orden, EnSuLugar
<1>3. Pedido(h).op = "NEW" \/ Pedido(h).op = "CATCH"
  BY <1>1, <1>2, PedidoValido DEF Lugar
<1>4. /\ creando[h] => luego = "publicar"
      /\ luego \in {"publicar", "final", "soltar", "vaciar"}
      /\ luego = "final" => Pedido(h).op = "NEW" /\ hizo[h] = "guardado"
      /\ luego \in {"soltar", "vaciar"} => Pedido(h).op = "CATCH"
  BY <1>1, <1>2, <1>3 DEF DespuesDeActualizar, Lugar
<1>5. ConLista(h) /\ (ConElAbierto(h) \/ creando[h])
  BY <1>1 DEF ConLista, ConElAbierto
<1>6. /\ pc'[h] = "guardar" /\ sigue'[h] = luego /\ valor'[h] = Metadata(lista[h], "N")
      /\ creando'[h] = creando[h] /\ lista'[h] = lista[h] /\ hizo'[h] = hizo[h]
      /\ vista'[h] = vista[h] /\ Pedido(h)' = Pedido(h)
  BY <1>1, TruncarHecho
<1>7. Creacion(h)' /\ PorGuardar(h)'
  BY <1>2, <1>4, <1>6 DEF Creacion, PorGuardar
<1>8. ~ConElAbierto(h) => vista[h].existe # "si" \/ vista[h].abierto = "N"
  BY <1>2, <1>5 DEF Creacion
<1>9. QED
  BY <1>1, <1>5, <1>7, <1>8, TruncarOrden

LEMMA ActualizarOtraVezOrden ==
  ASSUME Tipos, Orden, NEW h \in Hilos, ActualizarOtraVez(h), carreras' = {}
  PROVE  Orden'
<1>1. vivo = "si" /\ pc[h] = "final" /\ Truncar(h, Metadata(lista[h], "N"), "publicar")
  BY DEF ActualizarOtraVez
<1>2. Creacion(h) /\ Lugar(h)
  BY DEF Orden, EnSuLugar
<1>3. /\ ~creando[h] /\ vista[h].bloques = lista[h] /\ Soltado(h) = {}
      /\ ConElAbierto(h) \/ vista[h].abierto = "N"
  BY <1>1, <1>2 DEF Creacion, Lugar, Soltado, ConElAbierto
<1>4. /\ pc'[h] = "guardar" /\ sigue'[h] = "publicar" /\ valor'[h] = Metadata(lista[h], "N")
      /\ creando'[h] = creando[h] /\ lista'[h] = lista[h]
  BY <1>1, TruncarHecho
<1>5. Creacion(h)' /\ PorGuardar(h)'
  BY <1>3, <1>4 DEF Creacion, PorGuardar
<1>6. QED
  BY <1>1, <1>3, <1>5, TruncarOrden

------------------------------------------------------------------------------
(* A Metadata.bin is filled. *)

LEMMA GuardarOrden ==
  ASSUME Tipos, Orden, NEW h \in Hilos, Guardar(h), carreras = {}
  PROVE  Orden'
<1> DEFINE f0 == Archivo(h)
<1>1. /\ vivo = "si" /\ pc[h] = "guardar" /\ f0 \in Archivos
      /\ config = f0 /\ meta[f0] = Roto /\ \A k \in Hilos : pc[k] = "guardar" => k = h
      /\ Creacion(h) /\ PorGuardar(h) /\ SinRepetir(h)
  BY PedidoValido DEF Guardar, Orden, MetadataConDueno, EnSuLugar
<1>2. /\ meta' = [meta EXCEPT ![f0] = valor[h]] /\ config' = Ninguno
      /\ vista' = [vista EXCEPT ![h] = valor[h]] /\ valor' = [valor EXCEPT ![h] = Roto]
      /\ pc' = [pc EXCEPT ![h] = sigue[h]]
      /\ UNCHANGED <<bitmap, sigue, creando, lista, lineas, tomado, hizo, bandeja, actual, vivo,
                     reinicios>>
  BY <1>1, GameCardAssumption DEF Guardar, mensajes, sistema, historia
<1>3. /\ \A k \in Hilos \ {h} : Igual(k)
      /\ Pedido(h)' = Pedido(h) /\ Archivo(h)' = f0 /\ Soltado(h)' = Soltado(h)
      /\ pc'[h] = sigue[h] /\ vista'[h] = valor[h]
      /\ meta'[f0] = valor[h] /\ \A f \in Archivos \ {f0} : meta'[f] = meta[f]
  BY <1>1, <1>2 DEF Tipos, Igual, Pedido, Archivo, Soltado
<1>4. \A k \in Hilos \ {h} : /\ EnMano(k)' = EnMano(k) /\ Archivo(k)' = Archivo(k)
                             /\ ConElAbierto(k)' = ConElAbierto(k) /\ pc'[k] = pc[k]
                             /\ vista'[k] = vista[k] /\ EnSuLugar(k)' = EnSuLugar(k)
  BY <1>3, IgualIgual DEF Igual
<1>5. /\ valor[h].existe = "si" /\ valor[h].bloques = lista[h]
      /\ valor[h].abierto = IF sigue[h] = "bloques" THEN "Y" ELSE "N"
      /\ sigue[h] \in {"bloques", "pedir", "publicar", "final", "soltar", "vaciar"}
      /\ sigue[h] = "bloques" => ~creando[h] /\ tomado[h] = -1 /\ hizo[h] = "nada"
      /\ sigue[h] = "pedir"   => creando[h] /\ lista[h] = <<>> /\ Pedido(h).op = "NEW"
      /\ sigue[h] = "final"   => Pedido(h).op = "NEW" /\ hizo[h] = "guardado"
      /\ sigue[h] \in {"soltar", "vaciar"} => Pedido(h).op = "CATCH"
  BY <1>1 DEF PorGuardar, Metadata, Creacion
<1>6. ConElAbierto(h)' <=> sigue[h] = "bloques"
  BY <1>2, <1>3, <1>5 DEF ConElAbierto
<1>7. ~ConElAbierto(h) /\ ConLista(h) /\ ConTomado(h)
  BY <1>1 DEF ConElAbierto, ConLista, ConTomado
<1>8. IsInjective(lista[h]) /\ Soltado(h) \cap Range(lista[h]) = {}
  BY <1>1, <1>7 DEF SinRepetir
<1>9. Range(<<>>) = {}
  BY EmptySeq, LenProperties DEF Range
<1>10. EnMano(h) = Range(lista[h]) \cup Soltado(h)
  BY <1>7 DEF EnMano
<1>11. /\ EnMano(h)' \subseteq EnMano(h)
       /\ sigue[h] # "bloques" => EnMano(h)' \cap Range(lista[h]) = {}
  <2>1. ConLista(h)' => sigue[h] \in {"bloques", "pedir"}
    BY <1>2, <1>3, <1>5 DEF ConLista
  <2>2. EnMano(h)' = (IF ConLista(h)' THEN Range(lista[h]) ELSE {})
                       \cup (IF ConTomado(h)' THEN Soltado(h) ELSE {})
    BY <1>2, <1>3 DEF EnMano
  <2>3. QED
    BY <1>5, <1>8, <1>9, <1>10, <2>1, <2>2
<1>12. EnSuLugar(h)'
  <2>1. Creacion(h)'
    BY <1>1, <1>2, <1>3, <1>5 DEF Creacion
  <2>2. Lugar(h)'
    BY <1>2, <1>3, <1>5 DEF Lugar
  <2>3. PorGuardar(h)' /\ SinRepetir(h)'
    BY <1>2, <1>3, <1>5, <1>8 DEF PorGuardar, SinRepetir
  <2>4. QED
    BY <2>1, <2>2, <2>3 DEF EnSuLugar
<1>13. /\ SinCompartir
       /\ \A k \in Hilos : EnMano(k) \subseteq bitmap
       /\ \A g, k \in Hilos : g # k => EnMano(g) \cap EnMano(k) = {}
       /\ \A k \in Hilos, f \in Archivos :
            EnMano(k) \cap Range(meta[f].bloques) # {} => f = Archivo(k) /\ ConElAbierto(k)
       /\ \A f \in Archivos : Range(meta[f].bloques) \subseteq bitmap
  BY DEF Orden, BloquesConDueno
<1>14. \A k \in Hilos \ {h} : pc[k] # "guardar" /\ (ConElAbierto(k) => Archivo(k) # f0)
  BY <1>1 DEF Orden, MetadataConDueno, Abierto, Roto
<1>15. MetadataConDueno'
  <2>1. \A g \in Hilos : pc'[g] # "guardar"
    BY <1>3, <1>4, <1>5, <1>14
  <2>2. ASSUME NEW g \in Hilos, ConElAbierto(g)'
        PROVE  meta'[Archivo(g)'] = vista'[g] /\ Abierto(Archivo(g))'
    <3>1. CASE g = h
      BY <1>3, <1>5, <1>6, <2>2, <3>1 DEF Abierto
    <3>2. CASE g # h
      <4>1. ConElAbierto(g) /\ Archivo(g) # f0
        BY <1>4, <1>14, <2>2, <3>2
      <4>2. Archivo(g) \in Archivos
        BY <4>1, PedidoValido DEF ConElAbierto
      <4>3. meta'[Archivo(g)] = meta[Archivo(g)] /\ meta[Archivo(g)] = vista[g] /\ Abierto(Archivo(g))
        BY <1>3, <4>1, <4>2 DEF Orden, MetadataConDueno
      <4>4. QED
        BY <1>4, <3>2, <4>3 DEF Abierto
    <3>3. QED
      BY <3>1, <3>2
  <2>3. UnoSolo'
    BY <1>3, <1>4, <1>14 DEF UnoSolo, Orden, MetadataConDueno
  <2>4. ASSUME reinicios' = 0, NEW f \in Archivos
        PROVE  /\ Abierto(f)' => \E g \in Hilos : Trabaja(g, f)' /\ ConElAbierto(g)'
               /\ meta'[f].existe = "roto" => \E g \in Hilos : Trabaja(g, f)' /\ pc'[g] = "guardar"
    <3>1. CASE f = f0
      <4>1. meta'[f].existe # "roto"
        BY <1>3, <1>5, <3>1
      <4>2. Abierto(f)' => sigue[h] = "bloques"
        BY <1>3, <1>5, <3>1 DEF Abierto
      <4>3. sigue[h] = "bloques" => Trabaja(h, f)'
        BY <1>3, <3>1 DEF Trabaja
      <4>4. QED
        BY <1>6, <4>1, <4>2, <4>3
    <3>2. CASE f # f0
      <4>1. meta'[f] = meta[f]
        BY <1>3, <3>2
      <4>2. meta[f].existe # "roto"
        BY <1>1, <1>2, <2>4, <3>2 DEF Orden, MetadataConDueno, Trabaja
      <4>3. ASSUME Abierto(f)
            PROVE  \E g \in Hilos : Trabaja(g, f)' /\ ConElAbierto(g)'
        <5>1. PICK g \in Hilos : Trabaja(g, f) /\ ConElAbierto(g)
          BY <1>1, <1>2, <2>4, <4>3 DEF Orden, MetadataConDueno
        <5>2. g # h
          BY <1>7, <5>1
        <5>3. QED
          BY <1>3, <5>1, <5>2, IgualIgual
      <4>4. QED
        BY <4>1, <4>2, <4>3 DEF Abierto
    <3>3. QED
      BY <3>1, <3>2
  <2>5. QED
    BY <1>1, <1>2, <2>1, <2>2, <2>3, <2>4 DEF MetadataConDueno
<1>16. BloquesConDueno'
  <2>1. \A f \in Archivos \ {f0} : EnMano(h) \cap Range(meta[f].bloques) = {}
    BY <1>13
  <2>2. \A f \in Archivos \ {f0} : Range(lista[h]) \cap Range(meta[f].bloques) = {}
    BY <1>10, <2>1
  <2>3. SinCompartir'
    <3> SUFFICES ASSUME NEW f \in Archivos, NEW g \in Archivos,
                        NEW i \in DOMAIN meta'[f].bloques, NEW j \in DOMAIN meta'[g].bloques,
                        meta'[f].bloques[i] = meta'[g].bloques[j]
                 PROVE  f = g /\ i = j
      BY DEF SinCompartir
    <3>1. CASE f = f0 /\ g = f0
      BY <1>3, <1>5, <1>8, <3>1 DEF IsInjective
    <3>2. CASE f = f0 /\ g # f0
      <4>1. meta'[f].bloques[i] \in Range(lista[h]) /\ meta'[g].bloques[j] \in Range(meta[g].bloques)
        BY <1>3, <1>5, <3>2 DEF Range
      <4>2. QED
        BY <2>2, <3>2, <4>1
    <3>3. CASE f # f0 /\ g = f0
      <4>1. meta'[f].bloques[i] \in Range(meta[f].bloques) /\ meta'[g].bloques[j] \in Range(lista[h])
        BY <1>3, <1>5, <3>3 DEF Range
      <4>2. QED
        BY <2>2, <3>3, <4>1
    <3>4. CASE f # f0 /\ g # f0
      BY <1>3, <1>13, <3>4 DEF SinCompartir
    <3>5. QED
      BY <3>1, <3>2, <3>3, <3>4
  <2>4. \A f \in Archivos : Range(meta'[f].bloques) \subseteq bitmap'
    BY <1>2, <1>3, <1>5, <1>10, <1>13
  <2>5. \A k \in Hilos : EnMano(k)' \subseteq bitmap'
    BY <1>2, <1>4, <1>11, <1>13
  <2>6. \A g, k \in Hilos : g # k => EnMano(g)' \cap EnMano(k)' = {}
    <3>1. \A k \in Hilos \ {h} : EnMano(k) \cap EnMano(h)' = {}
      BY <1>11, <1>13
    <3>2. QED
      BY <1>4, <1>13, <3>1
  <2>7. ASSUME NEW k \in Hilos, NEW f \in Archivos, EnMano(k)' \cap Range(meta'[f].bloques) # {}
        PROVE  f = Archivo(k)' /\ ConElAbierto(k)'
    <3>1. CASE k = h
      <4>1. f = f0
        BY <1>3, <1>11, <2>1, <2>7, <3>1
      <4>2. sigue[h] = "bloques"
        BY <1>3, <1>5, <1>11, <2>7, <3>1, <4>1
      <4>3. QED
        BY <1>3, <1>6, <3>1, <4>1, <4>2
    <3>2. CASE k # h
      <4>1. EnMano(k) \cap Range(lista[h]) = {}
        BY <1>10, <1>13, <3>2
      <4>2. f # f0
        BY <1>3, <1>4, <1>5, <2>7, <3>2, <4>1
      <4>3. QED
        BY <1>3, <1>4, <1>13, <2>7, <3>2, <4>2
    <3>3. QED
      BY <3>1, <3>2
  <2>8. QED
    BY <2>3, <2>4, <2>5, <2>6, <2>7 DEF BloquesConDueno
<1>17. FaltaExplicada'
  BY <1>1, <1>2 DEF FaltaExplicada
<1>18. QED
  BY <1>4, <1>12, <1>15, <1>16, <1>17 DEF Orden

------------------------------------------------------------------------------
(* The invariant. *)

\* The history of races only grows.
LEMMA CarrerasCrecen ==
  ASSUME NEW h \in Hilos, Paso(h)
  PROVE  carreras \subseteq carreras'
<1>1. ASSUME NEW v, NEW luego, Truncar(h, v, luego)
      PROVE  carreras \subseteq carreras'
  BY <1>1 DEF Truncar
<1>2. ASSUME NEW o, NEW luego, UpdateOpenFileState(h, o, luego)
      PROVE  carreras \subseteq carreras'
  BY <1>1, <1>2 DEF UpdateOpenFileState
<1>3. CASE Abrir(h) \/ Cerrar(h)
  BY <1>2, <1>3 DEF Abrir, Cerrar
<1>4. CASE ActualizarMetadata(h) \/ ActualizarOtraVez(h)
  BY <1>1, <1>4 DEF ActualizarMetadata, ActualizarOtraVez
<1>5. CASE CrearArchivo(h)
  BY <1>1, <1>5 DEF CrearArchivo, historia
<1>6. CASE Empezar(h) \/ LeerMetadata(h) \/ Guardar(h) \/ Publicar(h)
  BY <1>6 DEF Empezar, LeerMetadata, Guardar, Publicar, historia
<1>7. CASE OperateNew(h) \/ OperateGet(h) \/ OperateCatch(h)
  BY <1>7 DEF OperateNew, OperateGet, OperateCatch, historia
<1>8. CASE BuscarLibre(h) \/ ConfBloque(h) \/ EscribirBlock(h) \/ LiberarBloque(h) \/ VaciarBloque(h)
  BY <1>8 DEF BuscarLibre, ConfBloque, EscribirBlock, LiberarBloque, VaciarBloque, historia
<1>9. QED
  BY <1>3, <1>4, <1>5, <1>6, <1>7, <1>8 DEF Paso

\* A fault without a race: a Metadata.bin that nobody is filling, so an earlier death left it.
LEMMA LeerRoto ==
  ASSUME Tipos, Orden, NEW h \in Hilos, LeerMetadata(h), Morir("segfault"), carreras' = {}
  PROVE  Orden'
<1>1. vivo = "si" /\ pc[h] = "leer" /\ Archivo(h) \in Archivos
  BY PedidoValido DEF LeerMetadata
<1>2. vivo' = "segfault"
  BY DEF Morir
<1>3. meta[Archivo(h)].existe = "roto" /\ \A k \in Hilos : pc[k] # "guardar"
  BY <1>1, <1>2 DEF LeerMetadata, sistema
<1>4. reinicios # 0
  BY <1>1, <1>3 DEF Orden, MetadataConDueno
<1>5. reinicios > 0
  BY <1>4 DEF Tipos
<1>6. QED
  BY <1>1, <1>3, <1>5, MorirOrden

LEMMA OrdenPaso ==
  ASSUME Tipos, Orden, NEW h \in Hilos, Paso(h), carreras = {}, carreras' = {}
  PROVE  Orden'
<1>1. CASE Guardar(h)
  BY <1>1, GuardarOrden
<1>2. CASE LeerMetadata(h)
  BY <1>2, LeerMetadataOrden, LeerRoto
<1>3. CASE Abrir(h) \/ Cerrar(h)
  BY <1>3, AbrirOrden, CerrarOrden
<1>4. CASE ActualizarMetadata(h) \/ ActualizarOtraVez(h) \/ CrearArchivo(h)
  BY <1>4, ActualizarMetadataOrden, ActualizarOtraVezOrden, CrearArchivoOrden
<1>5. CASE Empezar(h) \/ Publicar(h)
  BY <1>5, EmpezarOrden, PublicarOrden
<1>6. CASE OperateNew(h) \/ OperateGet(h) \/ OperateCatch(h)
  BY <1>6, OperateNewOrden, OperateGetOrden, OperateCatchOrden
<1>7. CASE BuscarLibre(h) \/ ConfBloque(h) \/ EscribirBlock(h)
  BY <1>7, BuscarLibreOrden, ConfBloqueOrden, EscribirBlockOrden
<1>8. CASE LiberarBloque(h) \/ VaciarBloque(h)
  BY <1>8, LiberarBloqueOrden, VaciarBloqueOrden
<1>9. QED
  BY <1>1, <1>2, <1>3, <1>4, <1>5, <1>6, <1>7, <1>8 DEF Paso

\* What the invariant reads.
visto == <<meta, bitmap, config, pc, sigue, creando, vista, valor, lista, lineas, tomado, hizo,
           bandeja, actual, vivo, reinicios>>

LEMMA VistoIgual ==
  ASSUME Orden, UNCHANGED visto
  PROVE  Orden'
<1>1. \A k \in Hilos : Igual(k)
  BY DEF visto, Igual
<1>2. \A k \in Hilos : /\ EnSuLugar(k)' = EnSuLugar(k) /\ EnMano(k)' = EnMano(k)
                       /\ Archivo(k)' = Archivo(k) /\ ConElAbierto(k)' = ConElAbierto(k)
                       /\ \A f : Trabaja(k, f)' = Trabaja(k, f)
  BY <1>1, IgualIgual
<1>3. MetadataConDueno'
  BY <1>2 DEF visto, Orden, MetadataConDueno, UnoSolo, Abierto
<1>4. BloquesConDueno' /\ FaltaExplicada'
  BY <1>2 DEF visto, Orden, BloquesConDueno, SinCompartir, FaltaExplicada
<1>5. QED
  BY <1>2, <1>3, <1>4 DEF Orden

LEMMA PasoInductivo == IInv /\ [Next]_vars => IInv'
<1> SUFFICES ASSUME IInv, [Next]_vars PROVE IInv'
  OBVIOUS
<1> USE DEF IInv
<1>1. ASSUME NEW h \in Hilos, Paso(h)
      PROVE  IInv'
  BY <1>1, TiposPaso, OrdenPaso, CarrerasCrecen
<1>2. ASSUME NEW h \in Hilos, EnviarAck(h) \/ PerderConexion(h)
      PROVE  IInv'
  <2>1. UNCHANGED visto /\ UNCHANGED <<quedan, carreras>>
    BY <1>2 DEF EnviarAck, PerderConexion, visto, disco, memoria, operacion, sistema, historia
  <2>2. QED
    BY <2>1, VistoIgual DEF Tipos, visto
<1>3. CASE Caer
  <2>1. Morir("matado") /\ carreras' = carreras
    BY <1>3 DEF Caer
  <2>2. QED
    BY <2>1, MorirTipos, MorirOrden
<1>4. CASE Reiniciar
  <2>1. /\ vivo # "si" /\ vivo' = "si" /\ reinicios' = reinicios + 1 /\ quedan' = quedan - 1 /\ quedan > 0
        /\ UNCHANGED <<meta, bitmap, config, pc, sigue, creando, vista, valor, lista, lineas,
                       tomado, hizo, bandeja, actual, carreras>>
    BY <1>4 DEF Reiniciar, disco, memoria, operacion, mensajes, historia
  <2>2. Tipos'
    BY <2>1 DEF Tipos
  <2>3. ASSUME Orden
        PROVE  Orden'
    <3>1. \A k \in Hilos : Igual(k)
      BY <2>1 DEF Igual
    <3>2. \A k \in Hilos : /\ EnSuLugar(k)' = EnSuLugar(k) /\ EnMano(k)' = EnMano(k)
                           /\ Archivo(k)' = Archivo(k) /\ ConElAbierto(k)' = ConElAbierto(k)
                           /\ \A f : Trabaja(k, f)' = Trabaja(k, f)
      BY <3>1, IgualIgual
    <3>3. reinicios' # 0
      BY <2>1 DEF Tipos
    <3>4. MetadataConDueno'
      BY <2>1, <2>3, <3>2, <3>3 DEF Orden, MetadataConDueno, UnoSolo, Abierto
    <3>5. BloquesConDueno' /\ FaltaExplicada'
      BY <2>1, <2>3, <3>2 DEF Orden, BloquesConDueno, SinCompartir, FaltaExplicada
    <3>6. QED
      BY <2>3, <3>2, <3>4, <3>5 DEF Orden
  <2>4. QED
    BY <2>1, <2>2, <2>3
<1>5. CASE UNCHANGED vars
  <2>1. UNCHANGED visto /\ UNCHANGED <<quedan, carreras>>
    BY <1>5 DEF vars, visto, disco, memoria, operacion, mensajes, sistema, historia
  <2>2. QED
    BY <2>1, VistoIgual DEF Tipos, visto
<1>6. QED
  BY <1>1, <1>2, <1>3, <1>4, <1>5 DEF Next

THEOREM Invariante == Spec => []IInv
BY Inicio, PasoInductivo, PTL DEF Spec

\* Whatever the threads and the messages do, and wherever the process dies: until a race happens
\* no block is in two files, nor twice in one, and the bitmap has all of them (requestFreeBlocks,
\* operateCatchPokemonFile, actualizar_pokemon_metadata).
THEOREM BloquesDeUnSolo == Spec => []BloqueDeUnSolo
<1>1. IInv => BloqueDeUnSolo
  <2> SUFFICES ASSUME IInv, carreras = {} PROVE BloqueDeUnSolo
    BY DEF BloqueDeUnSolo
  <2>1. SinCompartir /\ \A f \in Archivos : Range(meta[f].bloques) \subseteq bitmap
    BY DEF IInv, Orden, BloquesConDueno
  <2>2. \A f \in Archivos : \A i \in DOMAIN meta[f].bloques : meta[f].bloques[i] \in bitmap
    BY <2>1 DEF Range
  <2>3. QED
    BY <2>1, <2>2 DEF SinCompartir, BloqueDeUnSolo
<1>2. QED
  BY <1>1, Invariante, PTL

\* Until a race happens the OPEN flag works as a mutex although it is read without one, and
\* OPEN=Y or a truncated Metadata.bin is left behind only by a death of the process
\* (leer_metadata_pokemon, updateOpenFileState, actualizar_pokemon_metadata).
THEOREM AbiertosConDueno == Spec => []AbiertoConDueno
<1>1. IInv => AbiertoConDueno
  <2> SUFFICES ASSUME IInv, carreras = {} PROVE AbiertoConDueno
    BY DEF AbiertoConDueno
  <2>1. MetadataConDueno /\ Tipos
    BY DEF IInv, Orden
  <2>2. UnoSolo
    BY <2>1 DEF MetadataConDueno
  <2>3. ASSUME reinicios = 0, vivo = "si", NEW f \in Archivos
        PROVE  /\ meta[f].existe = "si" /\ meta[f].abierto = "Y" <=>
                    \E h \in Hilos : Trabaja(h, f) /\ ConElAbierto(h)
               /\ meta[f].existe = "roto" <=> \E h \in Hilos : Trabaja(h, f) /\ pc[h] = "guardar"
    <3>1. /\ Abierto(f) => \E h \in Hilos : Trabaja(h, f) /\ ConElAbierto(h)
          /\ meta[f].existe = "roto" => \E h \in Hilos : Trabaja(h, f) /\ pc[h] = "guardar"
      BY <2>1, <2>3 DEF MetadataConDueno
    <3>2. \A h \in Hilos : Trabaja(h, f) /\ ConElAbierto(h) => Abierto(f)
      BY <2>1 DEF MetadataConDueno, Trabaja
    <3>3. \A h \in Hilos : Trabaja(h, f) /\ pc[h] = "guardar" => meta[f].existe = "roto"
      BY <2>1 DEF MetadataConDueno, Trabaja, Roto
    <3>4. QED
      BY <3>1, <3>2, <3>3 DEF Abierto
  <2>4. QED
    BY <2>2, <2>3 DEF AbiertoConDueno
<1>2. QED
  BY <1>1, Invariante, PTL

\* A fault without a race comes from a Metadata.bin truncated by an earlier death
\* (leer_metadata_pokemon, gm_filesystem.c).
THEOREM SegfaultsExplicados == Spec => []SegfaultExplicado
<1>1. IInv => SegfaultExplicado
  BY DEF IInv, Orden, FaltaExplicada, SegfaultExplicado
<1>2. QED
  BY <1>1, Invariante, PTL

------------------------------------------------------------------------------
(* Lines and blocks. *)

LEMMA EsLista ==
  ASSUME NEW T, NEW n \in Nat, NEW s \in [1..n -> T]
  PROVE  s \in Seq(T) /\ Len(s) = n
OBVIOUS

LEMMA Division ==
  ASSUME NEW n \in Nat, NEW d \in Nat \ {0}
  PROVE  /\ n \div d \in Nat /\ d * (n \div d) <= n /\ n < d * ((n \div d) + 1)
OBVIOUS

LEMMA LineasTipo ==
  ASSUME NEW f \in Archivos, NEW b \in [Bloques -> Seq(Linea)], NEW bs \in Seq(Bloques)
  PROVE  LineasDe(f, bs, b) \in Seq(Linea)
<1> DEFINE k == BLOQUES_POR_LINEA[f]
           n == Len(bs) \div k
           ss == [g \in 1..n |-> b[bs[g * k]]]
<1>1. /\ Len(bs) \in Nat /\ DOMAIN bs = 1..Len(bs) /\ \A i \in 1..Len(bs) : bs[i] \in Bloques
      /\ k \in Nat \ {0}
  BY LenProperties, ElementOfSeq, GameCardAssumption
<1> HIDE DEF k
<1>2. n \in Nat /\ n * k <= Len(bs)
  <2>1. n \in Nat /\ k * n <= Len(bs)
    BY <1>1, Division
  <2> HIDE DEF n
  <2>2. QED
    BY <1>1, <2>1
<1>3. ss \in [1..n -> Seq(Linea)]
  <2> HIDE DEF n
  <2>1. ASSUME NEW g \in 1..n
        PROVE  bs[g * k] \in Bloques
    <3> DEFINE x == (g - 1) * k
               y == (n - g) * k
               z == g * k
    <3>1. z = x + k /\ n * k = z + y /\ x \in Nat /\ y \in Nat
      BY <1>1, <1>2
    <3> HIDE DEF x, y, z
    <3>2. z \in 1..Len(bs)
      BY <1>1, <1>2, <3>1
    <3>3. bs[z] \in Bloques
      BY <1>1, <3>2
    <3>4. QED
      BY <3>3 DEF z
  <2>2. QED
    BY <2>1
<1>4. ss \in Seq(Seq(Linea))
  <2> HIDE DEF ss
  <2>1. QED
    BY <1>2, <1>3, EsLista
<1>5. FlattenSeq(ss) \in Seq(Linea)
  <2> HIDE DEF ss
  <2>1. QED
    BY <1>4, AplanarTipo
<1>6. QED
  BY <1>5 DEF LineasDe, k

LEMMA ConUnoMasTipo ==
  ASSUME NEW ls \in Seq(Linea), NEW p \in Posiciones
  PROVE  ConUnoMas(p, ls) \in Seq(Linea)
<1>1. Len(ls) \in Nat /\ DOMAIN ls = 1..Len(ls) /\ \A i \in 1..Len(ls) : ls[i] \in Linea
  BY LenProperties, ElementOfSeq
<1>2. [pos |-> p, cantidad |-> 1] \in Linea
  BY DEF Linea
<1>3. CASE CoordinateExists(p, ls)
  <2> DEFINE t == [i \in DOMAIN ls |->
                     IF ls[i].pos = p THEN [ls[i] EXCEPT !.cantidad = ls[i].cantidad + 1] ELSE ls[i]]
  <2>1. ASSUME NEW i \in 1..Len(ls)
        PROVE  t[i] \in Linea
    BY <1>1 DEF Linea
  <2>2. t \in [1..Len(ls) -> Linea]
    BY <1>1, <2>1
  <2>3. t \in Seq(Linea)
    <3> HIDE DEF t
    <3>1. QED
      BY <1>1, <2>2, EsLista
  <2>4. ConUnoMas(p, ls) = t
    BY <1>3 DEF ConUnoMas
  <2>5. QED
    BY <2>3, <2>4
<1>4. CASE ~CoordinateExists(p, ls)
  BY <1>2, <1>4, AppendProperties DEF ConUnoMas
<1>5. QED
  BY <1>3, <1>4

LEMMA ConUnoMenosTipo ==
  ASSUME NEW ls \in Seq(Linea), NEW p
  PROVE  ConUnoMenos(p, ls) \in Seq(Linea)
<1>1. Len(ls) \in Nat /\ DOMAIN ls = 1..Len(ls) /\ \A i \in 1..Len(ls) : ls[i] \in Linea
  BY LenProperties, ElementOfSeq
<1>2. PICK sal : ConUnoMenos(p, ls) =
        FlattenSeq([i \in DOMAIN ls |->
          IF ls[i].pos # p \/ sal[i] THEN <<ls[i]>>
          ELSE IF ls[i].cantidad = 1 THEN <<>>
          ELSE <<[ls[i] EXCEPT !.cantidad = ls[i].cantidad - 1]>>])
  BY DEF ConUnoMenos
<1> DEFINE ss == [i \in DOMAIN ls |->
          IF ls[i].pos # p \/ sal[i] THEN <<ls[i]>>
          ELSE IF ls[i].cantidad = 1 THEN <<>>
          ELSE <<[ls[i] EXCEPT !.cantidad = ls[i].cantidad - 1]>>]
<1>3. ASSUME NEW i \in 1..Len(ls)
      PROVE  ss[i] \in Seq(Linea)
  <2>1. ls[i].cantidad # 1 => [ls[i] EXCEPT !.cantidad = ls[i].cantidad - 1] \in Linea
    BY <1>1 DEF Linea
  <2>2. <<>> \in Seq(Linea)
    BY EmptySeq
  <2>3. <<ls[i]>> \in Seq(Linea)
    BY <1>1
  <2>4. ls[i].cantidad # 1 => <<[ls[i] EXCEPT !.cantidad = ls[i].cantidad - 1]>> \in Seq(Linea)
    BY <2>1
  <2>5. QED
    BY <1>1, <2>2, <2>3, <2>4
<1>4. ss \in Seq(Seq(Linea))
  <2>1. ss \in [1..Len(ls) -> Seq(Linea)]
    BY <1>1, <1>3
  <2> HIDE DEF ss
  <2>2. QED
    BY <1>1, <2>1, EsLista
<1>5. FlattenSeq(ss) \in Seq(Linea)
  <2> HIDE DEF ss
  <2>1. QED
    BY <1>4, AplanarTipo
<1>6. QED
  BY <1>2, <1>5

LEMMA TrozoTipo ==
  ASSUME NEW f \in Archivos, NEW ls \in Seq(Linea), NEW i \in Nat \ {0}
  PROVE  Trozo(f, ls, i) \in Seq(Linea)
<1> DEFINE grupo == 1 + (i - 1) \div BLOQUES_POR_LINEA[f]
           hasta == grupo * LineasPorGrupo(f)
           m == hasta - LineasPorGrupo(f) + 1
           n == IF hasta < Len(ls) THEN hasta ELSE Len(ls)
<1>1. Len(ls) \in Nat /\ \A k \in 1..Len(ls) : ls[k] \in Linea
  BY LenProperties, ElementOfSeq
<1>2. hasta \in Nat /\ hasta >= LineasPorGrupo(f) /\ LineasPorGrupo(f) \in Nat
  <2>1. LineasPorGrupo(f) \in Nat /\ BLOQUES_POR_LINEA[f] \in Nat \ {0}
    BY GameCardAssumption DEF LineasPorGrupo
  <2>2. i - 1 \in Nat
    OBVIOUS
  <2>3. (i - 1) \div BLOQUES_POR_LINEA[f] \in Nat
    BY <2>1, <2>2
  <2>4. grupo - 1 \in Nat /\ grupo \in Nat
    BY <2>3
  <2> HIDE DEF grupo
  <2>5. hasta = (grupo - 1) * LineasPorGrupo(f) + LineasPorGrupo(f) /\ (grupo - 1) * LineasPorGrupo(f) \in Nat
    BY <2>1, <2>4
  <2>6. QED
    BY <2>1, <2>5
<1>3. m \in Int /\ n \in Int /\ m >= 1 /\ n <= Len(ls)
  <2> HIDE DEF hasta
  <2>1. QED
    BY <1>1, <1>2
<1>4. \A k \in m..n : ls[k] \in Linea
  <2> HIDE DEF m, n
  <2>1. QED
    BY <1>1, <1>3
<1>5. SubSeq(ls, m, n) \in Seq(Linea)
  <2> HIDE DEF m, n
  <2>1. QED
    BY <1>3, <1>4, SubSeqProperties
<1>6. QED
  BY <1>5 DEF Trozo

LEMMA QuedanDelDisco ==
  ASSUME NEW b
  PROVE  /\ Cardinality(b \cap 0..(BLOCKS - 1)) \in Nat
         /\ BLOCKS - Cardinality(b \cap 0..(BLOCKS - 1)) \in 0..BLOCKS
<1> DEFINE x == b \cap 0..(BLOCKS - 1)
           d == 0..(BLOCKS - 1)
<1>1. BLOCKS \in Nat
  BY GameCardAssumption
<1>2. IsFiniteSet(d) /\ Cardinality(d) = BLOCKS
  BY <1>1, FS_Interval
<1>3. x \subseteq d
  OBVIOUS
<1> HIDE DEF x, d
<1>4. IsFiniteSet(x) /\ Cardinality(x) <= Cardinality(d)
  BY <1>2, <1>3, FS_Subset
<1>5. Cardinality(x) \in Nat
  BY <1>4, FS_CardinalityType
<1>6. BLOCKS - Cardinality(x) \in 0..BLOCKS
  BY <1>1, <1>2, <1>4, <1>5
<1>7. QED
  BY <1>5, <1>6 DEF x

LEMMA LiberarBlocksTipo == LiberarBlocks \in 0..BLOCKS /\ LiberarBlocks' \in 0..BLOCKS
BY QuedanDelDisco DEF LiberarBlocks

\* The sum over at most one line.
LEMMA CantidadTipo ==
  ASSUME NEW ls \in Seq(Linea), NEW p
  PROVE  Cantidad(p, ls) \in Int
<1> DEFINE S == {i \in DOMAIN ls : ls[i].pos = p}
           D(k) == {s \in SUBSET S : Cardinality(s) <= k}
           x(s) == CHOOSE y \in s : TRUE
           Ec(it, d) == it = [s \in d |-> IF s = {} THEN 0 ELSE ls[x(s)].cantidad + it[s \ {x(s)}]]
           M == {k \in Nat : \E it \in [D(k) -> Int] : Ec(it, D(k))}
<1>1. IsFiniteSet(S) /\ \A i \in S : ls[i].cantidad \in Int
  <2>1. DOMAIN ls = 1..Len(ls) /\ Len(ls) \in Nat /\ \A i \in 1..Len(ls) : ls[i] \in Linea
    BY LenProperties, ElementOfSeq
  <2>2. IsFiniteSet(1..Len(ls))
    BY <2>1, FS_Interval
  <2>3. S \subseteq 1..Len(ls)
    BY <2>1
  <2>4. QED
    BY <2>1, <2>2, <2>3, FS_Subset DEF Linea
<1> HIDE DEF S
<1>2. \A s \in SUBSET S : IsFiniteSet(s) /\ Cardinality(s) \in Nat /\ (Cardinality(s) = 0 <=> s = {})
  BY <1>1, FS_Subset, FS_CardinalityType, FS_EmptySet
<1>3. ASSUME NEW s \in SUBSET S, s # {}
      PROVE  /\ x(s) \in s /\ s \ {x(s)} \in SUBSET S
             /\ Cardinality(s \ {x(s)}) = Cardinality(s) - 1
  BY <1>2, <1>3, FS_RemoveElement
<1>4. 0 \in M
  <2> DEFINE it == [s \in D(0) |-> 0]
  <2>1. \A s \in D(0) : s = {}
    BY <1>2
  <2>2. it \in [D(0) -> Int] /\ Ec(it, D(0))
    BY <2>1
  <2>3. QED
    BY <2>2
<1>5. ASSUME NEW k \in Nat, k \in M
      PROVE  k + 1 \in M
  <2>1. PICK it \in [D(k) -> Int] : Ec(it, D(k))
    BY <1>5
  <2> DEFINE g == [s \in D(k + 1) |-> IF s = {} THEN 0 ELSE ls[x(s)].cantidad + it[s \ {x(s)}]]
  <2>2. ASSUME NEW s \in D(k + 1), s # {}
        PROVE  s \ {x(s)} \in D(k) /\ s \ {x(s)} \in D(k + 1) /\ ls[x(s)].cantidad \in Int
    <3>1. s \in SUBSET S /\ Cardinality(s) <= k + 1 /\ Cardinality(s) \in Nat
      BY <1>2
    <3>2. /\ x(s) \in s /\ s \ {x(s)} \in SUBSET S
          /\ Cardinality(s \ {x(s)}) = Cardinality(s) - 1
      BY <1>3, <2>2, <3>1
    <3> HIDE DEF x
    <3>3. QED
      BY <1>1, <3>1, <3>2
  <2>3. ASSUME NEW s \in D(k), s \in D(k + 1)
        PROVE  g[s] = it[s]
    BY <2>1, <2>3
  <2>4. g \in [D(k + 1) -> Int]
    <3>1. ASSUME NEW s \in D(k + 1)
          PROVE  (IF s = {} THEN 0 ELSE ls[x(s)].cantidad + it[s \ {x(s)}]) \in Int
      <4>1. CASE s = {}
        BY <4>1
      <4>2. CASE s # {}
        <5>1. it[s \ {x(s)}] \in Int /\ ls[x(s)].cantidad \in Int
          BY <2>2, <4>2
        <5>2. QED
          BY <4>2, <5>1
      <4>3. QED
        BY <4>1, <4>2
    <3>2. QED
      BY <3>1
  <2>5. Ec(g, D(k + 1))
    <3>1. ASSUME NEW s \in D(k + 1)
          PROVE  g[s] = IF s = {} THEN 0 ELSE ls[x(s)].cantidad + g[s \ {x(s)}]
      <4>1. CASE s = {}
        BY <4>1
      <4>2. CASE s # {}
        <5>1. g[s \ {x(s)}] = it[s \ {x(s)}]
          BY <2>2, <2>3, <4>2
        <5>2. g[s] = ls[x(s)].cantidad + it[s \ {x(s)}]
          BY <4>2
        <5> HIDE DEF g
        <5>3. QED
          BY <4>2, <5>1, <5>2
      <4>3. QED
        BY <4>1, <4>2
    <3>2. g = [s \in D(k + 1) |-> g[s]]
      OBVIOUS
    <3> HIDE DEF g
    <3>3. QED
      BY <3>1, <3>2
  <2> HIDE DEF g, D, Ec
  <2>6. QED
    BY <2>4, <2>5
<1>6. Nat \subseteq M
  <2> HIDE DEF M
  <2>1. QED
    BY <1>4, <1>5, Induccion
<1>7. PICK n \in Nat : n = Cardinality(S)
  BY <1>2
<1>8. D(n) = SUBSET S
  <2>1. \A s \in SUBSET S : Cardinality(s) <= n
    BY <1>1, <1>7, FS_Subset
  <2>2. QED
    BY <2>1
<1>9. PICK it \in [SUBSET S -> Int] : Ec(it, SUBSET S)
  <2> HIDE DEF D, Ec
  <2>1. QED
    BY <1>6, <1>7, <1>8
<1> DEFINE c == CHOOSE f : Ec(f, SUBSET S)
<1>10. Cantidad(p, ls) = c[S]
  BY DEF Cantidad, MapThenSumSet, MapThenFoldSet, S
<1>11. Ec(c, SUBSET S)
  <2> HIDE DEF Ec
  <2>1. QED
    BY <1>9
<1> HIDE DEF c
<1> DEFINE Q == {k \in Nat : \A s \in D(k) : c[s] \in Int}
<1>12. 0 \in Q
  BY <1>2, <1>11
<1>13. ASSUME NEW k \in Nat, k \in Q
       PROVE  k + 1 \in Q
  <2>1. ASSUME NEW s \in D(k + 1)
        PROVE  c[s] \in Int
    <3>1. CASE s = {}
      BY <1>11, <3>1
    <3>2. CASE s # {}
      <4>1. /\ x(s) \in s /\ s \ {x(s)} \in SUBSET S /\ Cardinality(s) \in Nat
            /\ Cardinality(s \ {x(s)}) = Cardinality(s) - 1
        BY <1>2, <1>3, <3>2
      <4>2. c[s] = ls[x(s)].cantidad + c[s \ {x(s)}]
        BY <1>11, <3>2
      <4> HIDE DEF x
      <4>3. s \ {x(s)} \in D(k) /\ ls[x(s)].cantidad \in Int
        BY <1>1, <4>1
      <4>4. QED
        BY <1>13, <4>2, <4>3
    <3>3. QED
      BY <3>1, <3>2
  <2>2. QED
    BY <2>1
<1>14. Nat \subseteq Q
  <2> HIDE DEF Q
  <2>1. QED
    BY <1>12, <1>13, Induccion
<1>15. S \in D(n)
  BY <1>8
<1>16. QED
  BY <1>10, <1>14, <1>15

LEMMA CantidadDeUno ==
  ASSUME NEW ls, UnaPorPosicion(ls), NEW p
  PROVE  /\ ~CoordinateExists(p, ls) => Cantidad(p, ls) = 0
         /\ \A i \in DOMAIN ls : ls[i].pos = p /\ ls[i].cantidad \in Nat => Cantidad(p, ls) = ls[i].cantidad
<1> DEFINE S == {i \in DOMAIN ls : ls[i].pos = p}
<1>1. ASSUME ~CoordinateExists(p, ls)
      PROVE  Cantidad(p, ls) = 0
  <2>1. S = {}
    BY <1>1 DEF CoordinateExists
  <2>2. Cantidad(p, ls) = 0
    BY <2>1 DEF Cantidad, MapThenSumSet, MapThenFoldSet
  <2>3. QED
    BY <2>2
<1>2. ASSUME NEW i \in DOMAIN ls, ls[i].pos = p, ls[i].cantidad \in Nat
      PROVE  Cantidad(p, ls) = ls[i].cantidad
  <2>1. S = {i}
    BY <1>2 DEF UnaPorPosicion
  <2> DEFINE n == ls[i].cantidad
             Ec(it) == it = [s \in SUBSET S |->
                               IF s = {} THEN 0
                               ELSE ls[CHOOSE x \in s : TRUE].cantidad + it[s \ {CHOOSE x \in s : TRUE}]]
             c == CHOOSE it : Ec(it)
             g == [s \in SUBSET S |-> IF s = {} THEN 0 ELSE n]
  <2>2. Cantidad(p, ls) = c[S]
    BY DEF Cantidad, MapThenSumSet, MapThenFoldSet
  <2>3. \A s \in SUBSET S : s # {} => (CHOOSE x \in s : TRUE) = i
    BY <2>1
  <2>4. Ec(g)
    <3>1. ASSUME NEW s \in SUBSET S
          PROVE  g[s] = IF s = {} THEN 0
                        ELSE ls[CHOOSE x \in s : TRUE].cantidad + g[s \ {CHOOSE x \in s : TRUE}]
      <4>1. CASE s = {}
        BY <4>1
      <4>2. CASE s # {}
        <5>1. (CHOOSE x \in s : TRUE) = i /\ s \ {i} = {} /\ {} \in SUBSET S
          BY <2>1, <2>3, <4>2
        <5>2. g[s \ {i}] = 0 /\ g[s] = n
          BY <4>2, <5>1
        <5>3. n + 0 = n
          BY <1>2
        <5>4. QED
          BY <4>2, <5>1, <5>2, <5>3
      <4>3. QED
        BY <4>1, <4>2
    <3> HIDE DEF g
    <3>2. g = [s \in SUBSET S |-> g[s]]
      BY DEF g
    <3>3. QED
      BY <3>1, <3>2
  <2>5. Ec(c)
    <3> HIDE DEF Ec, g
    <3>1. QED
      BY <2>4
  <2> HIDE DEF c
  <2>6. c[S] = n + c[S \ {i}] /\ c[{}] = 0 /\ S \ {i} = {}
    <3>1. S # {} /\ S \in SUBSET S /\ {} \in SUBSET S /\ S \ {i} = {} /\ (CHOOSE x \in S : TRUE) = i
      BY <2>1, <2>3
    <3> HIDE DEF S
    <3>2. QED
      BY <2>5, <3>1
  <2>7. c[S] = n
    <3>1. c[S \ {i}] = 0 /\ n \in Nat
      BY <1>2, <2>6
    <3>2. c[S] = n + c[S \ {i}]
      BY <2>6
    <3> HIDE DEF S, n
    <3>3. QED
      BY <3>1, <3>2
  <2>8. QED
    BY <2>2, <2>7
<1>3. QED
  BY <1>1, <1>2

------------------------------------------------------------------------------
(* The types of the other variables. *)

Estados == {"falta", "procesado", "confirmado", "perdido"}
Respuestas ==
  /\ DOMAIN estado = Hilos
  /\ \A h \in Hilos : /\ estado[h] \in [DOMAIN bandeja[h] -> Estados]
                      /\ pc[h] = "espera" => actual[h] = 0
                      /\ pc[h] = "guardar" => sigue[h] # "espera"
Cuentas == hecho \in [Archivos -> [Posiciones -> Int]]
Datos ==
  /\ bloque \in [Bloques -> Seq(Linea)] /\ mArchivo \in [Archivos -> Hilos \cup {Ninguno}]
  /\ libres \in [Hilos -> 0..BLOCKS] /\ lineas \in [Hilos -> Seq(Linea)]
  /\ escritos \in [Hilos -> Nat] /\ cortes \in Nat
  /\ carreras \subseteq {"archivo", "config", "bitmap", "bloque"} /\ tomadores \subseteq Hilos
Resto == Datos /\ Respuestas /\ Cuentas

LEMMA MorirResto ==
  ASSUME Tipos, Resto, NEW como, Morir(como), carreras' \subseteq carreras \cup {"archivo"}
  PROVE  Resto'
<1>1. <<>> \in Seq(Linea) /\ 0 \in 0..BLOCKS /\ 0 \in Nat
  BY EmptySeq, GameCardAssumption
<1>2. Datos'
  <2>1. /\ bloque' = bloque /\ mArchivo' = [f \in Archivos |-> Ninguno]
        /\ libres' = [h \in Hilos |-> 0] /\ lineas' = [h \in Hilos |-> <<>>]
        /\ escritos' = [h \in Hilos |-> 0] /\ cortes' = cortes /\ tomadores' = tomadores
    BY DEF Morir, disco
  <2>2. QED
    BY <1>1, <2>1 DEF Resto, Datos
<1>3. Respuestas'
  <2>1. /\ pc' = [h \in Hilos |-> "espera"]
        /\ estado' = [h \in Hilos |-> [i \in DOMAIN bandeja[h] |->
                         IF h \in DelBroker THEN "falta"
                         ELSE IF i = actual[h] THEN "perdido" ELSE estado[h][i]]]
        /\ actual' = [h \in Hilos |-> 0] /\ bandeja' = bandeja
    BY DEF Morir
  <2>2. ASSUME NEW h \in Hilos
        PROVE  /\ estado'[h] \in [DOMAIN bandeja'[h] -> Estados] /\ actual'[h] = 0
               /\ pc'[h] # "guardar"
    BY <2>1 DEF Resto, Respuestas, Estados
  <2>3. QED
    BY <2>1, <2>2 DEF Respuestas
<1>4. QED
  BY <1>2, <1>3 DEF Resto, Cuentas, Morir

LEMMA TruncarResto ==
  ASSUME Tipos, Resto, NEW h \in Hilos, pc[h] # "espera", NEW v, NEW luego,
         luego # "espera", Truncar(h, v, luego)
  PROVE  Resto'
<1>1. Archivo(h) \in Archivos
  BY PedidoValido
<1>2. /\ mArchivo' = IF creando[h] THEN mArchivo ELSE [mArchivo EXCEPT ![Archivo(h)] = h]
      /\ carreras' \subseteq carreras \cup {"archivo", "config"}
      /\ pc' = [pc EXCEPT ![h] = "guardar"] /\ sigue' = [sigue EXCEPT ![h] = luego]
      /\ UNCHANGED <<bloque, libres, lineas, escritos, bandeja, estado, actual, cortes, tomadores, hecho>>
  BY DEF Truncar, mensajes, sistema
<1>3. Datos'
  BY <1>1, <1>2 DEF Resto, Datos
<1>4. Respuestas'
  BY <1>2 DEF Resto, Respuestas, Tipos
<1>5. QED
  BY <1>2, <1>3, <1>4 DEF Resto, Cuentas

LEMMA UpdateResto ==
  ASSUME Tipos, Resto, NEW h \in Hilos, pc[h] # "espera", NEW open, NEW luego,
         luego # "espera", UpdateOpenFileState(h, open, luego)
  PROVE  Resto'
<1>1. CASE meta[Archivo(h)].existe = "si"
  BY <1>1, TruncarResto DEF UpdateOpenFileState
<1>2. CASE meta[Archivo(h)].existe # "si"
  BY <1>2, MorirResto DEF UpdateOpenFileState
<1>3. QED
  BY <1>1, <1>2

\* A step that leaves the thread at a message, and the messages as they were.
LEMMA SigueConEl ==
  ASSUME Tipos, Resto, NEW h \in Hilos, NEW l \in Lugares \ {"espera", "guardar"},
         pc' = [pc EXCEPT ![h] = l], UNCHANGED <<sigue, bandeja, estado, actual>>
  PROVE  Respuestas'
BY DEF Resto, Respuestas, Tipos

LEMMA EmpezarResto ==
  ASSUME Tipos, Resto, NEW h \in Hilos, Empezar(h)
  PROVE  Resto'
<1>1. PICK i \in DOMAIN bandeja[h] :
           /\ libres' = [libres EXCEPT ![h] = IF bandeja[h][i].op = "NEW" THEN LiberarBlocks ELSE 0]
           /\ lineas' = [lineas EXCEPT ![h] =
                           IF bandeja[h][i].op = "NEW" /\ ~(meta[bandeja[h][i].archivo].existe # "no")
                           THEN ConUnoMas(bandeja[h][i].pos, <<>>) ELSE <<>>]
           /\ actual' = [actual EXCEPT ![h] = i]
           /\ \E l \in {"leer", "crear", "publicar"} : pc' = [pc EXCEPT ![h] = l]
           /\ UNCHANGED <<disco, memoria, sigue, escritos, bandeja, estado, sistema, historia>>
  BY DEF Empezar
<1>2. i \in Nat /\ bandeja[h][i] \in Mensaje
  <2>1. bandeja[h] \in Seq(Mensaje)
    BY DEF Tipos
  <2>2. QED
    BY <2>1, LenProperties, ElementOfSeq
<1>3. <<>> \in Seq(Linea) /\ ConUnoMas(bandeja[h][i].pos, <<>>) \in Seq(Linea)
  <2>1. <<>> \in Seq(Linea) /\ bandeja[h][i].pos \in Posiciones
    BY <1>2, EmptySeq DEF Mensaje
  <2>2. QED
    BY <2>1, ConUnoMasTipo
<1>4. libres' \in [Hilos -> 0..BLOCKS] /\ lineas' \in [Hilos -> Seq(Linea)]
  <2>1. LiberarBlocks \in 0..BLOCKS /\ 0 \in 0..BLOCKS
    BY LiberarBlocksTipo, GameCardAssumption
  <2>2. QED
    BY <1>1, <1>3, <2>1 DEF Resto, Datos
<1>5. Datos'
  BY <1>1, <1>4 DEF Resto, Datos, disco, memoria, sistema, historia
<1>6. Respuestas'
  BY <1>1, <1>2 DEF Resto, Respuestas, Tipos
<1>7. QED
  BY <1>1, <1>5, <1>6 DEF Resto, Cuentas, historia

LEMMA OperateResto ==
  ASSUME Tipos, Resto, NEW h \in Hilos, OperateNew(h) \/ OperateGet(h) \/ OperateCatch(h)
  PROVE  Resto'
<1> DEFINE antes == LineasDe(Archivo(h), lista[h], bloque)
           p == Pedido(h).pos
<1>1. pc[h] = "bloques"
  BY DEF OperateNew, OperateGet, OperateCatch
<1>2. antes \in Seq(Linea) /\ p \in Posiciones
  <2>1. Pedido(h) \in Mensaje
    BY <1>1, PedidoValido
  <2>2. lista[h] \in Seq(Bloques) /\ bloque \in [Bloques -> Seq(Linea)]
    BY DEF Tipos, Resto, Datos
  <2>3. Archivo(h) \in Archivos
    BY <1>1, PedidoValido
  <2>4. antes \in Seq(Linea)
    BY <2>2, <2>3, LineasTipo
  <2>5. QED
    BY <2>1, <2>4 DEF Mensaje
<1>3. ConUnoMas(p, antes) \in Seq(Linea) /\ ConUnoMenos(p, antes) \in Seq(Linea)
  <2> HIDE DEF antes, p
  <2>1. QED
    BY <1>2, ConUnoMasTipo, ConUnoMenosTipo
<1>4. /\ lineas' \in [Hilos -> Seq(Linea)]
      /\ \E l \in Lugares \ {"espera", "guardar"} : pc' = [pc EXCEPT ![h] = l]
      /\ UNCHANGED <<disco, memoria, sigue, libres, escritos, mensajes, sistema, historia>>
  <2>1. CASE OperateNew(h)
    <3>1. lineas' = [lineas EXCEPT ![h] = ConUnoMas(p, antes)]
      BY <2>1 DEF OperateNew
    <3>2. lineas' \in [Hilos -> Seq(Linea)]
      <4> HIDE DEF antes, p
      <4>1. QED
        BY <1>3, <3>1 DEF Resto, Datos
    <3>3. QED
      BY <2>1, <3>2 DEF OperateNew, Lugares
  <2>2. CASE OperateGet(h)
    <3>1. lineas' = [lineas EXCEPT ![h] = antes]
      BY <2>2 DEF OperateGet
    <3>2. lineas' \in [Hilos -> Seq(Linea)]
      <4> HIDE DEF antes
      <4>1. QED
        BY <1>2, <3>1 DEF Resto, Datos
    <3>3. QED
      BY <2>2, <3>2 DEF OperateGet, Lugares
  <2>3. CASE OperateCatch(h)
    <3>1. lineas' = lineas \/ lineas' = [lineas EXCEPT ![h] = ConUnoMenos(p, antes)]
      BY <2>3 DEF OperateCatch
    <3>2. lineas' \in [Hilos -> Seq(Linea)]
      <4> HIDE DEF antes, p
      <4>1. QED
        BY <1>3, <3>1 DEF Resto, Datos
    <3>3. \E l \in Lugares \ {"espera", "guardar"} : pc' = [pc EXCEPT ![h] = l]
      BY <2>3 DEF OperateCatch, Lugares
    <3>4. UNCHANGED <<disco, memoria, sigue, libres, escritos, mensajes, sistema, historia>>
      BY <2>3 DEF OperateCatch
    <3>5. QED
      BY <3>2, <3>3, <3>4
  <2>4. QED
    BY <2>1, <2>2, <2>3
<1>5. Datos'
  BY <1>4 DEF Resto, Datos, disco, memoria, sistema, historia
<1>6. Respuestas'
  BY <1>4, SigueConEl DEF mensajes
<1>7. QED
  BY <1>4, <1>5, <1>6 DEF Resto, Cuentas, historia

LEMMA EscribirResto ==
  ASSUME Tipos, Resto, NEW h \in Hilos, EscribirBlock(h)
  PROVE  Resto'
<1> DEFINE t == Trozo(Archivo(h), lineas[h], escritos[h] + 1)
<1>1. escritos[h] \in Nat /\ lineas[h] \in Seq(Linea) /\ Archivo(h) \in Archivos
  BY PedidoValido DEF Resto, Datos, EscribirBlock
<1>2. t \in Seq(Linea)
  <2>1. escritos[h] + 1 \in Nat \ {0}
    BY <1>1
  <2>2. QED
    BY <1>1, <2>1, TrozoTipo
<1>3. /\ bloque' = [bloque EXCEPT ![lista[h][escritos[h] + 1]] = t]
      /\ escritos' = [escritos EXCEPT ![h] = escritos[h] + 1]
      /\ \E l \in Lugares \ {"espera", "guardar"} : pc' = [pc EXCEPT ![h] = l]
      /\ UNCHANGED <<memoria, sigue, libres, lineas, mensajes, sistema, historia>>
  BY DEF EscribirBlock, Lugares
<1>4. bloque' \in [Bloques -> Seq(Linea)] /\ escritos' \in [Hilos -> Nat]
  <2> DEFINE k == lista[h][escritos[h] + 1]
  <2>1. bloque' = [bloque EXCEPT ![k] = t]
    BY <1>3
  <2>2. escritos' \in [Hilos -> Nat]
    BY <1>1, <1>3 DEF Resto, Datos
  <2> HIDE DEF t, k
  <2>3. QED
    BY <1>2, <2>1, <2>2 DEF Resto, Datos
<1>5. Datos'
  BY <1>3, <1>4 DEF Resto, Datos, memoria, sistema, historia
<1>6. Respuestas'
  BY <1>3, SigueConEl DEF mensajes
<1>7. QED
  BY <1>3, <1>5, <1>6 DEF Resto, Cuentas, historia

LEMMA PublicarResto ==
  ASSUME Tipos, Resto, NEW h \in Hilos, Publicar(h)
  PROVE  Resto'
<1> DEFINE suma == IF hizo[h] = "guardado" THEN 1 ELSE IF hizo[h] = "atrapado" THEN -1 ELSE 0
           p == Pedido(h)
<1>1. p \in Mensaje /\ actual[h] \in DOMAIN bandeja[h]
  BY PedidoValido DEF Publicar, Tipos
<1>2. hecho' = [hecho EXCEPT ![p.archivo][p.pos] = hecho[p.archivo][p.pos] + suma]
  BY DEF Publicar
<1>3. Cuentas'
  <2>1. suma \in Int /\ p.archivo \in Archivos /\ p.pos \in Posiciones
    BY <1>1 DEF Mensaje
  <2> HIDE DEF suma, p
  <2>2. QED
    BY <1>2, <2>1 DEF Resto, Cuentas
<1>4. /\ estado' = [estado EXCEPT ![h] = [estado[h] EXCEPT ![actual[h]] = "procesado"]]
      /\ actual' = [actual EXCEPT ![h] = 0] /\ pc' = [pc EXCEPT ![h] = "espera"]
      /\ sigue' = [sigue EXCEPT ![h] = "espera"]
      /\ libres' = [libres EXCEPT ![h] = 0] /\ lineas' = [lineas EXCEPT ![h] = <<>>]
      /\ escritos' = [escritos EXCEPT ![h] = 0]
      /\ UNCHANGED <<disco, memoria, bandeja, sistema, carreras, tomadores>>
  BY DEF Publicar, Reposo
<1>5. Datos'
  <2>1. <<>> \in Seq(Linea) /\ 0 \in 0..BLOCKS
    BY EmptySeq, GameCardAssumption
  <2>2. QED
    BY <1>4, <2>1 DEF Resto, Datos, disco, memoria, sistema
<1>6. Respuestas'
  BY <1>1, <1>4 DEF Resto, Respuestas, Estados, Tipos
<1>7. QED
  BY <1>3, <1>5, <1>6 DEF Resto

LEMMA GuardarResto ==
  ASSUME Tipos, Resto, NEW h \in Hilos, Guardar(h)
  PROVE  Resto'
<1>1. CASE config = Ninguno
  BY <1>1, MorirResto DEF Guardar
<1>2. CASE config # Ninguno
  <2>1. /\ mArchivo' = IF creando[h] THEN mArchivo ELSE [mArchivo EXCEPT ![Archivo(h)] = Ninguno]
        /\ pc' = [pc EXCEPT ![h] = sigue[h]] /\ pc[h] = "guardar"
        /\ UNCHANGED <<bloque, sigue, libres, lineas, escritos, mensajes, sistema, historia>>
    BY <1>2 DEF Guardar
  <2>2. Datos'
    BY <2>1 DEF Resto, Datos, sistema, historia
  <2>3. Respuestas'
    BY <2>1 DEF Resto, Respuestas, Tipos, mensajes
  <2>4. QED
    BY <2>1, <2>2, <2>3 DEF Resto, Cuentas, historia
<1>3. QED
  BY <1>1, <1>2

\* The steps that touch neither lines nor messages.
LEMMA QuietoResto ==
  ASSUME Tipos, Resto, NEW h \in Hilos,
         \/ LeerMetadata(h) /\ ~Morir("segfault")
         \/ BuscarLibre(h) \/ ConfBloque(h) \/ LiberarBloque(h)
  PROVE  Resto'
<1>1. /\ \E l \in Lugares \ {"espera", "guardar"} : pc' = [pc EXCEPT ![h] = l]
      /\ carreras' \subseteq carreras \cup {"bitmap", "bloque"} /\ tomadores' \subseteq tomadores \cup {h}
      /\ UNCHANGED <<bloque, memoria, sigue, libres, lineas, escritos, mensajes, sistema, hecho>>
  <2>1. CASE LeerMetadata(h) /\ ~Morir("segfault")
    BY <2>1 DEF LeerMetadata, Lugares, disco, historia
  <2>2. CASE BuscarLibre(h)
    BY <2>2 DEF BuscarLibre, Lugares, disco, historia
  <2>3. CASE ConfBloque(h)
    BY <2>3 DEF ConfBloque, Lugares
  <2>4. CASE LiberarBloque(h)
    BY <2>4 DEF LiberarBloque, Lugares, operacion, historia
  <2>5. QED
    BY <2>1, <2>2, <2>3, <2>4
<1>2. Datos'
  BY <1>1 DEF Resto, Datos, memoria, sistema
<1>3. Respuestas'
  BY <1>1, SigueConEl DEF mensajes
<1>4. QED
  BY <1>1, <1>2, <1>3 DEF Resto, Cuentas

LEMMA VaciarResto ==
  ASSUME Tipos, Resto, NEW h \in Hilos, VaciarBloque(h)
  PROVE  Resto'
<1>1. /\ bloque' = [bloque EXCEPT ![tomado[h]] = <<>>]
      /\ \E l \in Lugares \ {"espera", "guardar"} : pc' = [pc EXCEPT ![h] = l]
      /\ UNCHANGED <<memoria, sigue, libres, lineas, escritos, mensajes, sistema, historia>>
  BY DEF VaciarBloque, Lugares, operacion
<1>2. bloque' \in [Bloques -> Seq(Linea)]
  <2>1. <<>> \in Seq(Linea)
    BY EmptySeq
  <2>2. QED
    BY <1>1, <2>1 DEF Resto, Datos
<1>3. Datos'
  BY <1>1, <1>2 DEF Resto, Datos, memoria, sistema, historia
<1>4. Respuestas'
  BY <1>1, SigueConEl DEF mensajes
<1>5. QED
  BY <1>1, <1>3, <1>4 DEF Resto, Cuentas, historia

LEMMA RestoPaso ==
  ASSUME Tipos, Resto, NEW h \in Hilos, Paso(h)
  PROVE  Resto'
<1>1. CASE Empezar(h) \/ Publicar(h) \/ Guardar(h)
  BY <1>1, EmpezarResto, PublicarResto, GuardarResto
<1>2. CASE OperateNew(h) \/ OperateGet(h) \/ OperateCatch(h) \/ EscribirBlock(h)
  BY <1>2, OperateResto, EscribirResto
<1>3. CASE BuscarLibre(h) \/ ConfBloque(h) \/ LiberarBloque(h) \/ VaciarBloque(h)
  BY <1>3, QuietoResto, VaciarResto
<1>4. CASE LeerMetadata(h)
  <2>1. CASE Morir("segfault")
    <3>1. carreras' \subseteq carreras \cup {"archivo"}
      BY <1>4 DEF LeerMetadata, historia
    <3>2. QED
      BY <2>1, <3>1, MorirResto
  <2>2. CASE ~Morir("segfault")
    BY <1>4, <2>2, QuietoResto
  <2>3. QED
    BY <2>1, <2>2
<1>5. CASE Abrir(h) \/ Cerrar(h)
  BY <1>5, UpdateResto DEF Abrir, Cerrar
<1>6. CASE ActualizarMetadata(h) \/ ActualizarOtraVez(h)
  <2>1. DespuesDeActualizar(h) # "espera"
    BY DEF DespuesDeActualizar
  <2>2. QED
    BY <1>6, <2>1, TruncarResto DEF ActualizarMetadata, ActualizarOtraVez
<1>7. CASE CrearArchivo(h)
  <2>1. HayLugarParaUno(h) \in Lugares \ {"espera", "guardar"}
    BY DEF HayLugarParaUno, Lugares
  <2>2. CASE meta[Archivo(h)].existe = "no"
    BY <1>7, <2>1, <2>2, TruncarResto DEF CrearArchivo
  <2>3. CASE meta[Archivo(h)].existe # "no"
    <3>1. /\ pc' = [pc EXCEPT ![h] = HayLugarParaUno(h)]
          /\ UNCHANGED <<disco, memoria, operacion, mensajes, sistema, historia>>
      BY <1>7, <2>3 DEF CrearArchivo
    <3>2. Respuestas'
      BY <2>1, <3>1, SigueConEl DEF mensajes, operacion
    <3>3. QED
      BY <3>1, <3>2 DEF Resto, Datos, Cuentas, disco, memoria, operacion, sistema, historia
  <2>4. QED
    BY <2>2, <2>3
<1>8. QED
  BY <1>1, <1>2, <1>3, <1>4, <1>5, <1>6, <1>7 DEF Paso

LEMMA RestoInicio == Init => Resto
<1> SUFFICES ASSUME Init PROVE Resto
  OBVIOUS
<1>1. PICK c \in Casos :
        /\ meta = c.meta /\ bloque = c.bloque /\ bandeja = c.bandeja /\ cortes = c.cortes
        /\ estado = [h \in Hilos |-> [i \in DOMAIN c.bandeja[h] |-> "falta"]]
        /\ hecho = Guardado(c.meta, c.bloque)
  BY DEF Init
<1>2. /\ mArchivo = [f \in Archivos |-> Ninguno] /\ pc = [h \in Hilos |-> "espera"]
      /\ libres = [h \in Hilos |-> 0] /\ lineas = [h \in Hilos |-> <<>>]
      /\ escritos = [h \in Hilos |-> 0] /\ actual = [h \in Hilos |-> 0]
      /\ carreras = {} /\ tomadores = {}
  BY DEF Init
<1>3. DiscoEnOrden(meta, bloque) /\ cortes \in Nat
  BY <1>1, CasosAssumption
<1>4. Datos
  <2>1. <<>> \in Seq(Linea) /\ 0 \in 0..BLOCKS
    BY EmptySeq, GameCardAssumption
  <2>2. bloque \in [Bloques -> Seq(Linea)]
    BY <1>3 DEF DiscoEnOrden
  <2>3. QED
    BY <1>2, <1>3, <2>1, <2>2 DEF Datos
<1>5. Respuestas
  BY <1>1, <1>2 DEF Respuestas, Estados
<1>6. Cuentas
  <2>1. ASSUME NEW f \in Archivos, NEW p \in Posiciones
        PROVE  Cantidad(p, LineasDe(f, meta[f].bloques, bloque)) \in Int
    <3> DEFINE ls == LineasDe(f, meta[f].bloques, bloque)
    <3>1. meta[f].bloques \in Seq(Bloques) /\ bloque \in [Bloques -> Seq(Linea)]
      BY <1>3 DEF DiscoEnOrden, MetadataBin
    <3>2. ls \in Seq(Linea)
      BY <3>1, LineasTipo
    <3> HIDE DEF ls
    <3>3. QED
      BY <3>2, CantidadTipo DEF ls
  <2>2. hecho = Guardado(meta, bloque)
    BY <1>1
  <2>3. QED
    BY <2>1, <2>2 DEF Cuentas, Guardado
<1>7. QED
  BY <1>4, <1>5, <1>6 DEF Resto

LEMMA RestoInductivo ==
  ASSUME Tipos, Resto, [Next]_vars
  PROVE  Resto'
<1>1. ASSUME NEW h \in Hilos, Paso(h)
      PROVE  Resto'
  BY <1>1, RestoPaso
<1>2. ASSUME NEW h \in Hilos, EnviarAck(h)
      PROVE  Resto'
  <2>1. PICK i \in DOMAIN estado[h] :
             estado' = [estado EXCEPT ![h] = [estado[h] EXCEPT ![i] = "confirmado"]]
    BY <1>2 DEF EnviarAck
  <2>2. UNCHANGED <<disco, memoria, pc, operacion, bandeja, actual, sistema, historia>>
    BY <1>2 DEF EnviarAck
  <2>3. Respuestas'
    BY <2>1, <2>2 DEF Resto, Respuestas, Estados, operacion
  <2>4. QED
    BY <2>2, <2>3 DEF Resto, Datos, Cuentas, disco, memoria, operacion, sistema, historia
<1>3. ASSUME NEW h \in Hilos, PerderConexion(h)
      PROVE  Resto'
  <2>1. /\ estado' = [estado EXCEPT ![h] =
                        [i \in DOMAIN estado[h] |->
                           IF estado[h][i] = "procesado" THEN "falta" ELSE estado[h][i]]]
        /\ cortes' = cortes - 1 /\ cortes > 0
        /\ UNCHANGED <<disco, memoria, pc, operacion, bandeja, actual, historia>>
    BY <1>3 DEF PerderConexion
  <2>2. Respuestas'
    BY <2>1 DEF Resto, Respuestas, Estados, operacion
  <2>3. QED
    BY <2>1, <2>2 DEF Resto, Datos, Cuentas, disco, memoria, operacion, historia
<1>4. CASE Caer
  BY <1>4, MorirResto DEF Caer
<1>5. CASE Reiniciar
  BY <1>5 DEF Reiniciar, Resto, Datos, Respuestas, Cuentas, disco, memoria, operacion, mensajes
<1>6. CASE UNCHANGED vars
  BY <1>6 DEF vars, Resto, Datos, Respuestas, Cuentas, disco, memoria, operacion, mensajes, sistema, historia
<1>7. QED
  BY <1>1, <1>2, <1>3, <1>4, <1>5, <1>6 DEF Next

\* The variables of the model have their types, with any number of threads, messages and blocks,
\* also after a race: the code keeps reading and writing lists of blocks and lines.
THEOREM TiposCorrectos == Spec => []TypeOK
<1>1. IInv /\ Resto => TypeOK
  <2> SUFFICES ASSUME IInv, Resto PROVE TypeOK
    OBVIOUS
  <2>1. \A h \in Hilos :
          /\ bandeja[h] \in Seq(Mensaje)
          /\ estado[h] \in [DOMAIN bandeja[h] -> {"falta", "procesado", "confirmado", "perdido"}]
          /\ actual[h] \in DOMAIN bandeja[h] \cup {0} /\ (actual[h] = 0 <=> pc[h] = "espera")
    <3> SUFFICES ASSUME NEW h \in Hilos
                 PROVE  /\ bandeja[h] \in Seq(Mensaje)
                        /\ estado[h] \in [DOMAIN bandeja[h] -> {"falta", "procesado", "confirmado", "perdido"}]
                        /\ actual[h] \in DOMAIN bandeja[h] \cup {0} /\ (actual[h] = 0 <=> pc[h] = "espera")
      OBVIOUS
    <3>1. bandeja[h] \in Seq(Mensaje) /\ (pc[h] # "espera" => actual[h] \in DOMAIN bandeja[h])
      BY DEF IInv, Tipos
    <3>2. 0 \notin DOMAIN bandeja[h]
      BY <3>1, LenProperties
    <3>3. QED
      BY <3>1, <3>2 DEF Resto, Respuestas, Estados
  <2>2. {cortes, quedan, reinicios} \subseteq Nat
    BY DEF IInv, Tipos, Resto, Datos
  <2>3. QED
    BY <2>1, <2>2 DEF IInv, Tipos, Resto, Datos, Cuentas, TypeOK
<1>2. Init => Resto
  BY RestoInicio
<1>3. IInv /\ Resto /\ [Next]_vars => Resto'
  BY RestoInductivo DEF IInv
<1>4. QED
  BY <1>1, <1>2, <1>3, Invariante, PTL DEF Spec

------------------------------------------------------------------------------
(* The blocks of the disk are enough for one thread that takes them. *)

Disco == 0..(BLOCKS - 1)

LEMMA BlocksOcupadosTipo ==
  ASSUME NEW f \in Archivos, NEW n \in Nat
  PROVE  BlocksOcupados(f, n) \in Nat \ {0}
<1> DEFINE k == BLOQUES_POR_LINEA[f]
<1>1. LineasPorGrupo(f) \in Nat \ {0} /\ k \in Nat \ {0}
  BY GameCardAssumption DEF LineasPorGrupo
<1>2. CASE n = 0
  BY <1>2 DEF BlocksOcupados
<1>3. CASE n # 0
  <2>1. n - 1 \in Nat
    BY <1>3
  <2>2. (n - 1) \div LineasPorGrupo(f) \in Nat
    BY <1>1, <2>1
  <2> DEFINE d == 1 + (n - 1) \div LineasPorGrupo(f)
  <2>3. d \in Nat \ {0}
    BY <2>2
  <2>4. BlocksOcupados(f, n) = k * d
    BY <1>3 DEF BlocksOcupados
  <2> HIDE DEF k, d
  <2>5. k * d \in Nat /\ 1 <= k * d
    <3> DEFINE x == (k - 1) * d
               y == k * d
    <3>1. y = x + d /\ x \in Nat
      BY <1>1, <2>3
    <3> HIDE DEF x, y
    <3>2. y \in Nat /\ 1 <= y
      BY <1>1, <2>3, <3>1
    <3>3. QED
      BY <3>2 DEF y
  <2>6. QED
    BY <2>4, <2>5
<1>4. QED
  BY <1>2, <1>3

\* What h counted is there still, but for what it has taken; and it takes what is on the disk.
Contando(h) ==
  \/ pc[h] \in {"crear", "leer", "abrir", "bloques"}
  \/ pc[h] = "guardar" /\ sigue[h] \in {"bloques", "pedir"}
Alcanza(h) ==
  /\ Contando(h) => libres[h] <= LiberarBlocks
  /\ pc[h] \in {"pedir", "marcar"} => /\ Len(lista[h]) < BlocksOcupados(Archivo(h), Len(lineas[h]))
                                      /\ BlocksOcupados(Archivo(h), Len(lineas[h])) < libres[h]
                                      /\ libres[h] <= LiberarBlocks + Len(lista[h])
  /\ pc[h] = "marcar" => tomado[h] \in Disco
\* The file it creates needs a block, and has none yet.
PorCrear(h) == pc[h] = "guardar" /\ sigue[h] = "pedir"
EnBlanco(h) ==
  /\ pc[h] \in {"espera", "crear"} \/ PorCrear(h) => lista[h] = <<>>
  /\ pc[h] = "crear" \/ PorCrear(h) => Len(lineas[h]) = 1
  /\ PorCrear(h) => BlocksOcupados(Archivo(h), 1) < libres[h]
  /\ pc[h] = "guardar" => sigue[h] \in {"bloques", "pedir", "publicar", "final", "soltar", "vaciar"}

UnTomador == \A g, k \in tomadores : g = k
EnElDisco ==
  /\ \A h \in Hilos : EnBlanco(h)
  /\ UnTomador => bitmap \subseteq Disco
  /\ \A h \in Hilos : tomadores \subseteq {h} => Alcanza(h)

MismaCuenta(k) ==
  /\ pc'[k] = pc[k] /\ sigue'[k] = sigue[k] /\ lista'[k] = lista[k] /\ lineas'[k] = lineas[k]
  /\ libres'[k] = libres[k] /\ tomado'[k] = tomado[k]
  /\ bandeja'[k] = bandeja[k] /\ actual'[k] = actual[k]

LEMMA MismoArchivo ==
  ASSUME NEW k, bandeja'[k] = bandeja[k], actual'[k] = actual[k]
  PROVE  Archivo(k)' = Archivo(k)
BY DEF Archivo, Pedido

\* Blocks given back are more blocks free.
LEMMA LiberarCrece ==
  ASSUME bitmap' \subseteq bitmap
  PROVE  LiberarBlocks <= LiberarBlocks'
<1> DEFINE x == bitmap \cap 0..(BLOCKS - 1)
           y == bitmap' \cap 0..(BLOCKS - 1)
           d == 0..(BLOCKS - 1)
<1>1. y \subseteq x /\ x \subseteq d
  OBVIOUS
<1>2. IsFiniteSet(d) /\ BLOCKS \in Nat
  BY FS_Interval, GameCardAssumption
<1>3. LiberarBlocks = BLOCKS - Cardinality(x) /\ LiberarBlocks' = BLOCKS - Cardinality(y)
  BY DEF LiberarBlocks
<1> HIDE DEF x, y, d
<1>4. IsFiniteSet(x) /\ IsFiniteSet(y)
  BY <1>1, <1>2, FS_Subset
<1>5. Cardinality(y) <= Cardinality(x) /\ Cardinality(x) \in Nat /\ Cardinality(y) \in Nat
  BY <1>1, <1>4, FS_Subset, FS_CardinalityType
<1>6. QED
  BY <1>2, <1>3, <1>5

\* A block taken is one less.
LEMMA LiberarToma ==
  ASSUME NEW b, bitmap' = bitmap \cup {b}
  PROVE  LiberarBlocks - 1 <= LiberarBlocks'
<1> DEFINE x == bitmap \cap 0..(BLOCKS - 1)
           y == bitmap' \cap 0..(BLOCKS - 1)
           d == 0..(BLOCKS - 1)
<1>1. y \subseteq x \cup {b} /\ x \subseteq d
  OBVIOUS
<1>2. IsFiniteSet(d) /\ BLOCKS \in Nat
  BY FS_Interval, GameCardAssumption
<1>3. LiberarBlocks = BLOCKS - Cardinality(x) /\ LiberarBlocks' = BLOCKS - Cardinality(y)
  BY DEF LiberarBlocks
<1> HIDE DEF x, y, d
<1>4. IsFiniteSet(x) /\ IsFiniteSet(x \cup {b})
  BY <1>1, <1>2, FS_Subset, FS_AddElement
<1>5. /\ Cardinality(x) \in Nat /\ Cardinality(y) \in Nat
      /\ Cardinality(x \cup {b}) <= Cardinality(x) + 1 /\ Cardinality(y) <= Cardinality(x \cup {b})
      /\ Cardinality(x \cup {b}) \in Nat
  <2>1. Cardinality(x) \in Nat /\ Cardinality(x \cup {b}) \in Nat
    BY <1>4, FS_CardinalityType
  <2>2. Cardinality(x \cup {b}) = IF b \in x THEN Cardinality(x) ELSE Cardinality(x) + 1
    BY <1>4, FS_AddElement
  <2>3. IsFiniteSet(y) /\ Cardinality(y) <= Cardinality(x \cup {b})
    BY <1>1, <1>4, FS_Subset
  <2>4. QED
    BY <2>1, <2>2, <2>3, FS_CardinalityType
<1>6. QED
  BY <1>2, <1>3, <1>5

\* If some block is free on the disk, the first free one is on the disk.
LEMMA PrimeroDelDisco ==
  ASSUME LiberarBlocks > 0, NEW b, PrimerLibre(b)
  PROVE  b \in Disco
<1>1. BLOCKS \in Nat /\ Cardinality(Hilos) \in Nat
  BY GameCardAssumption, FS_CardinalityType
<1>2. Disco \subseteq Bloques /\ Bloques \subseteq Nat
  BY <1>1 DEF Disco, Bloques
<1>3. PICK x \in Disco : x \notin bitmap
  <2> SUFFICES ASSUME Disco \subseteq bitmap PROVE FALSE
    OBVIOUS
  <2>1. bitmap \cap 0..(BLOCKS - 1) = 0..(BLOCKS - 1)
    BY DEF Disco
  <2>2. Cardinality(0..(BLOCKS - 1)) = BLOCKS
    BY <1>1, FS_Interval
  <2>3. LiberarBlocks = BLOCKS - BLOCKS
    BY <2>1, <2>2 DEF LiberarBlocks
  <2>4. QED
    BY <1>1, <2>3
<1>4. b \in Bloques /\ b <= x
  BY <1>2, <1>3 DEF PrimerLibre
<1>5. QED
  BY <1>1, <1>2, <1>3, <1>4 DEF Disco

LEMMA OtroAlcanza ==
  ASSUME Tipos, Resto, NEW k \in Hilos, Alcanza(k), MismaCuenta(k), LiberarBlocks <= LiberarBlocks'
  PROVE  Alcanza(k)'
<1>1. LiberarBlocks \in Int /\ LiberarBlocks' \in Int
  BY LiberarBlocksTipo
<1>2. Len(lista[k]) \in Int /\ libres[k] \in Int
  BY LenProperties DEF Tipos, Resto, Datos
<1>3. Contando(k)' = Contando(k)
  BY DEF MismaCuenta, Contando
<1>4. /\ Contando(k) => libres[k] <= LiberarBlocks'
      /\ libres[k] <= LiberarBlocks + Len(lista[k]) => libres[k] <= LiberarBlocks' + Len(lista[k])
  BY <1>1, <1>2 DEF Alcanza
<1>5. Archivo(k)' = Archivo(k)
  BY MismoArchivo DEF MismaCuenta
<1>6. QED
  BY <1>3, <1>4, <1>5 DEF Alcanza, MismaCuenta

LEMMA PasoDisco ==
  ASSUME Tipos, Resto, EnElDisco, NEW h \in Hilos, \A k \in Hilos \ {h} : MismaCuenta(k),
         tomadores \subseteq tomadores',
         EnBlanco(h)', tomadores \subseteq {h} => Alcanza(h)',
         \/ bitmap' \subseteq bitmap
         \/ h \in tomadores' /\ (tomadores \subseteq {h} => bitmap' \subseteq Disco)
  PROVE  EnElDisco'
<1>1. ASSUME NEW k \in Hilos
      PROVE  EnBlanco(k)'
  <2>1. CASE k = h
    BY <2>1
  <2>2. CASE k # h
    <3>1. MismaCuenta(k) /\ EnBlanco(k) /\ Archivo(k)' = Archivo(k)
      BY <2>2, MismoArchivo DEF EnElDisco, MismaCuenta
    <3>2. QED
      BY <3>1 DEF EnBlanco, PorCrear, MismaCuenta
  <2>3. QED
    BY <2>1, <2>2
<1>2. ASSUME UnTomador'
      PROVE  bitmap' \subseteq Disco
  <2>1. UnTomador
    BY <1>2 DEF UnTomador
  <2>2. h \in tomadores' => tomadores \subseteq {h}
    BY <1>2 DEF UnTomador
  <2>3. QED
    BY <2>1, <2>2 DEF EnElDisco
<1>3. ASSUME NEW k \in Hilos, tomadores' \subseteq {k}
      PROVE  Alcanza(k)'
  <2>1. CASE k = h
    BY <1>3, <2>1
  <2>2. CASE k # h
    <3>1. bitmap' \subseteq bitmap /\ tomadores \subseteq {k}
      BY <1>3, <2>2
    <3>2. LiberarBlocks <= LiberarBlocks' /\ Alcanza(k)
      BY <3>1, LiberarCrece DEF EnElDisco
    <3>3. QED
      BY <2>2, <3>2, OtroAlcanza
  <2>3. QED
    BY <2>1, <2>2
<1>4. QED
  BY <1>1, <1>2, <1>3 DEF EnElDisco

\* Where nothing is counted nor taken, nothing is asked.
LEMMA SinContar ==
  ASSUME NEW h \in Hilos,
         \/ pc'[h] \in {"publicar", "cerrar", "escribir", "metadata", "final", "soltar", "vaciar"}
         \/ pc'[h] = "espera" /\ lista'[h] = <<>>
         \/ pc'[h] = "guardar" /\ sigue'[h] \in {"publicar", "final", "soltar", "vaciar"}
  PROVE  EnBlanco(h)' /\ Alcanza(h)'
BY DEF EnBlanco, PorCrear, Alcanza, Contando

LEMMA MorirDisco ==
  ASSUME Tipos, Resto, EnElDisco, NEW como, Morir(como)
  PROVE  EnElDisco'
<1>1. /\ pc' = [h \in Hilos |-> "espera"] /\ lista' = [h \in Hilos |-> <<>>]
      /\ bitmap' = bitmap /\ tomadores' = tomadores
  BY DEF Morir, disco
<1>2. \A h \in Hilos : pc'[h] = "espera" /\ lista'[h] = <<>>
  BY <1>1
<1>3. \A h \in Hilos : EnBlanco(h)' /\ Alcanza(h)'
  BY <1>2, SinContar
<1>4. QED
  BY <1>1, <1>3 DEF EnElDisco, UnTomador

\* A step that takes no block and after which the thread counts none.
LEMMA SinContarPaso ==
  ASSUME Tipos, Resto, EnElDisco, NEW h \in Hilos, \A k \in Hilos \ {h} : MismaCuenta(k),
         bitmap' \subseteq bitmap, tomadores' = tomadores,
         \/ pc'[h] \in {"publicar", "cerrar", "escribir", "metadata", "final", "soltar", "vaciar"}
         \/ pc'[h] = "espera" /\ lista'[h] = <<>>
         \/ pc'[h] = "guardar" /\ sigue'[h] \in {"publicar", "final", "soltar", "vaciar"}
  PROVE  EnElDisco'
<1>1. EnBlanco(h)' /\ Alcanza(h)'
  BY SinContar
<1>2. QED
  BY <1>1, PasoDisco

\* A step that changes no count, of a thread that had counted and goes on.
LEMMA CuentaPaso ==
  ASSUME Tipos, Resto, EnElDisco, NEW h \in Hilos, \A k \in Hilos \ {h} : MismaCuenta(k),
         UNCHANGED <<bitmap, tomadores, libres, lineas>>, Contando(h),
         \/ pc'[h] \in {"abrir", "bloques"}
         \/ pc'[h] = "guardar" /\ sigue'[h] = "bloques"
  PROVE  EnElDisco'
<1>1. EnBlanco(h)'
  BY DEF EnBlanco, PorCrear
<1>2. tomadores \subseteq {h} => Alcanza(h)'
  BY DEF EnElDisco, Alcanza, LiberarBlocks
<1>3. QED
  BY <1>1, <1>2, PasoDisco

LEMMA TruncarCuenta ==
  ASSUME Tipos, Resto, NEW h \in Hilos, NEW v, NEW luego, Truncar(h, v, luego)
  PROVE  /\ \A k \in Hilos \ {h} : MismaCuenta(k)
         /\ UNCHANGED <<bitmap, tomadores, libres, lineas, lista, bandeja, actual>>
         /\ pc'[h] = "guardar" /\ sigue'[h] = luego
BY DEF mensajes, Truncar, MismaCuenta, Tipos

LEMMA EmpezarDisco ==
  ASSUME Tipos, Resto, EnElDisco, NEW h \in Hilos, Empezar(h)
  PROVE  EnElDisco'
<1>1. PICK i \in DOMAIN bandeja[h] :
           /\ libres' = [libres EXCEPT ![h] = IF bandeja[h][i].op = "NEW" THEN LiberarBlocks ELSE 0]
           /\ lineas' = [lineas EXCEPT ![h] =
                           IF bandeja[h][i].op = "NEW" /\ ~(meta[bandeja[h][i].archivo].existe # "no")
                           THEN ConUnoMas(bandeja[h][i].pos, <<>>) ELSE <<>>]
           /\ \/ pc' = [pc EXCEPT ![h] = "leer"]
              \/ pc' = [pc EXCEPT ![h] = "publicar"]
              \/ /\ pc' = [pc EXCEPT ![h] = "crear"]
                 /\ bandeja[h][i].op = "NEW" /\ ~(meta[bandeja[h][i].archivo].existe # "no")
           /\ pc[h] = "espera"
           /\ UNCHANGED <<disco, sigue, lista, tomado, historia>>
  BY DEF Empezar
<1>2. \A k \in Hilos \ {h} : MismaCuenta(k)
  <2>1. actual' = [actual EXCEPT ![h] = actual'[h]] /\ bandeja' = bandeja
    BY DEF Empezar, Tipos
  <2>2. QED
    BY <1>1, <2>1 DEF MismaCuenta, Tipos, Resto, Datos
<1>3. lista'[h] = <<>> /\ pc'[h] \in {"leer", "crear", "publicar"}
  BY <1>1 DEF EnElDisco, EnBlanco, Tipos
<1>4. pc'[h] = "crear" => Len(lineas'[h]) = 1
  <2> SUFFICES ASSUME pc'[h] = "crear" PROVE Len(lineas'[h]) = 1
    OBVIOUS
  <2>1. lineas'[h] = ConUnoMas(bandeja[h][i].pos, <<>>)
    BY <1>1 DEF Tipos, Resto, Datos
  <2>2. ASSUME NEW p PROVE Len(ConUnoMas(p, <<>>)) = 1
    <3>1. DOMAIN <<>> = {}
      BY EmptySeq, LenProperties
    <3>2. ~CoordinateExists(p, <<>>)
      BY <3>1 DEF CoordinateExists
    <3>3. QED
      BY <3>2 DEF ConUnoMas
  <2>3. QED
    BY <2>1, <2>2
<1>5. libres'[h] <= LiberarBlocks'
  <2>1. LiberarBlocks' = LiberarBlocks /\ LiberarBlocks \in 0..BLOCKS
    BY <1>1, LiberarBlocksTipo DEF LiberarBlocks, disco
  <2>2. libres'[h] = LiberarBlocks \/ libres'[h] = 0
    BY <1>1 DEF Resto, Datos
  <2>3. QED
    BY <2>1, <2>2, GameCardAssumption
<1>6. EnBlanco(h)' /\ Alcanza(h)'
  BY <1>3, <1>4, <1>5 DEF EnBlanco, PorCrear, Alcanza
<1>7. QED
  BY <1>1, <1>2, <1>6, PasoDisco DEF disco, historia

LEMMA CrearArchivoDisco ==
  ASSUME Tipos, Resto, EnElDisco, NEW h \in Hilos, CrearArchivo(h)
  PROVE  EnElDisco'
<1> DEFINE luego == HayLugarParaUno(h)
<1>1. pc[h] = "crear" /\ lista[h] = <<>> /\ Len(lineas[h]) = 1 /\ libres[h] \in Int
      /\ (tomadores \subseteq {h} => libres[h] <= LiberarBlocks)
  BY DEF CrearArchivo, EnElDisco, EnBlanco, Alcanza, Contando, Resto, Datos
<1>2. /\ luego \in {"pedir", "publicar"}
      /\ luego = "pedir" => BlocksOcupados(Archivo(h), 1) < libres[h]
  <2>1. BlocksOcupados(Archivo(h), 1) \in Int
    BY <1>1, PedidoValido, BlocksOcupadosTipo
  <2>2. QED
    BY <1>1, <2>1 DEF HayLugarParaUno
<1>3. CASE meta[Archivo(h)].existe = "no"
  <2>1. /\ \A k \in Hilos \ {h} : MismaCuenta(k)
        /\ UNCHANGED <<bitmap, tomadores, libres, lineas, lista>> /\ Archivo(h)' = Archivo(h)
        /\ pc'[h] = "guardar" /\ sigue'[h] = luego
    BY <1>3, TruncarCuenta, MismoArchivo DEF CrearArchivo
  <2>2. EnBlanco(h)' /\ (tomadores \subseteq {h} => Alcanza(h)')
    <3> HIDE DEF luego
    <3>1. QED
      BY <1>1, <1>2, <2>1 DEF EnBlanco, PorCrear, Alcanza, Contando, LiberarBlocks
  <2>3. QED
    BY <2>1, <2>2, PasoDisco
<1>4. CASE meta[Archivo(h)].existe # "no"
  <2>1. /\ pc' = [pc EXCEPT ![h] = luego]
        /\ UNCHANGED <<disco, operacion, mensajes, historia>>
    BY <1>4 DEF CrearArchivo
  <2>2. /\ \A k \in Hilos \ {h} : MismaCuenta(k)
        /\ UNCHANGED <<bitmap, tomadores, libres, lineas, lista>> /\ pc'[h] = luego
        /\ Archivo(h)' = Archivo(h)
    BY <2>1, MismoArchivo DEF mensajes, MismaCuenta, Tipos, disco, operacion, historia
  <2>3. Len(lista[h]) = 0 /\ 0 < BlocksOcupados(Archivo(h), 1) /\ BlocksOcupados(Archivo(h), 1) \in Int
    <3>1. Len(<<>>) = 0
      BY EmptySeq
    <3>2. BlocksOcupados(Archivo(h), 1) \in Nat \ {0}
      BY <1>1, PedidoValido, BlocksOcupadosTipo
    <3>3. QED
      BY <1>1, <3>1, <3>2
  <2>4. EnBlanco(h)'
    <3> HIDE DEF luego
    <3>1. QED
      BY <1>2, <2>2 DEF EnBlanco, PorCrear
  <2>5. ASSUME tomadores \subseteq {h}
        PROVE  Alcanza(h)'
    <3>1. libres[h] <= LiberarBlocks + 0
      BY <1>1, <2>5, LiberarBlocksTipo
    <3>2. LiberarBlocks' = LiberarBlocks
      BY <2>2 DEF LiberarBlocks
    <3> HIDE DEF luego
    <3>3. QED
      BY <1>1, <1>2, <2>2, <2>3, <3>1, <3>2 DEF Alcanza, Contando
  <2>6. QED
    BY <2>2, <2>4, <2>5, PasoDisco
<1>5. QED
  BY <1>3, <1>4

LEMMA AbrirDisco ==
  ASSUME Tipos, Resto, EnElDisco, NEW h \in Hilos, Abrir(h) \/ Cerrar(h)
  PROVE  EnElDisco'
<1>1. CASE meta[Archivo(h)].existe # "si"
  BY <1>1, MorirDisco DEF Abrir, Cerrar, UpdateOpenFileState
<1>2. CASE meta[Archivo(h)].existe = "si" /\ Abrir(h)
  <2>1. PICK v : Truncar(h, v, "bloques")
    BY <1>2 DEF Abrir, UpdateOpenFileState
  <2>2. Contando(h)
    BY <1>2 DEF Abrir, Contando
  <2>3. QED
    BY <2>1, <2>2, TruncarCuenta, CuentaPaso
<1>3. CASE meta[Archivo(h)].existe = "si" /\ Cerrar(h)
  <2>1. PICK v : Truncar(h, v, "publicar")
    BY <1>3 DEF Cerrar, UpdateOpenFileState
  <2>2. QED
    BY <2>1, TruncarCuenta, SinContarPaso
<1>4. QED
  BY <1>1, <1>2, <1>3

LEMMA ActualizarDisco ==
  ASSUME Tipos, Resto, EnElDisco, NEW h \in Hilos, ActualizarMetadata(h) \/ ActualizarOtraVez(h)
  PROVE  EnElDisco'
<1>1. PICK luego \in {"publicar", "final", "soltar", "vaciar"} : \E v : Truncar(h, v, luego)
  <2>1. DespuesDeActualizar(h) \in {"publicar", "final", "soltar", "vaciar"}
    BY DEF DespuesDeActualizar
  <2>2. CASE ActualizarMetadata(h)
    BY <2>1, <2>2 DEF ActualizarMetadata
  <2>3. CASE ActualizarOtraVez(h)
    BY <2>3 DEF ActualizarOtraVez
  <2>4. QED
    BY <2>2, <2>3
<1>2. QED
  BY <1>1, TruncarCuenta, SinContarPaso

LEMMA OperateNewDisco ==
  ASSUME Tipos, Resto, EnElDisco, NEW h \in Hilos, OperateNew(h)
  PROVE  EnElDisco'
<1> DEFINE ls == ConUnoMas(Pedido(h).pos, LineasDe(Archivo(h), lista[h], bloque))
           falta == BlocksOcupados(Archivo(h), Len(ls))
<1>1. /\ lineas' = [lineas EXCEPT ![h] = ls] /\ pc[h] = "bloques"
      /\ pc' = [pc EXCEPT ![h] = IF ~(libres[h] > falta) THEN "final"
                                 ELSE IF falta > Len(lista[h]) THEN "pedir" ELSE "escribir"]
      /\ UNCHANGED <<disco, sigue, libres, lista, tomado, mensajes, historia>>
  BY DEF OperateNew
<1>2. falta \in Nat /\ Len(lista[h]) \in Nat /\ libres[h] \in Nat
  <2>1. Resto'
    BY OperateResto
  <2>2. ls \in Seq(Linea)
    <3>1. lineas'[h] = ls
      BY <1>1 DEF Resto, Datos
    <3>2. QED
      BY <2>1, <3>1 DEF Resto, Datos
  <2>3. Len(ls) \in Nat
    <3> HIDE DEF ls
    <3>1. QED
      BY <2>2, LenProperties
  <2>4. Archivo(h) \in Archivos
    BY <1>1, PedidoValido
  <2>5. QED
    <3> HIDE DEF ls
    <3>1. QED
      BY <2>3, <2>4, BlocksOcupadosTipo, LenProperties DEF Tipos, Resto, Datos
<1> HIDE DEF ls
<1>3. lineas'[h] = ls
  BY <1>1 DEF Resto, Datos
<1>4. CASE libres[h] > falta /\ falta > Len(lista[h])
  <2>1. pc'[h] = "pedir"
    BY <1>1, <1>4 DEF Tipos
  <2>2. EnBlanco(h)'
    BY <2>1 DEF EnBlanco, PorCrear
  <2>3. ASSUME tomadores \subseteq {h}
        PROVE  Alcanza(h)'
    <3>1. libres[h] <= LiberarBlocks
      BY <1>1, <2>3 DEF EnElDisco, Alcanza, Contando
    <3>2. LiberarBlocks' = LiberarBlocks /\ LiberarBlocks \in Int
      BY <1>1, LiberarBlocksTipo DEF LiberarBlocks, disco
    <3>3. libres[h] <= LiberarBlocks' + Len(lista[h]) /\ Len(lista[h]) < falta /\ falta < libres[h]
      <4> HIDE DEF falta
      <4>1. QED
        BY <1>2, <1>4, <3>1, <3>2
    <3>4. Archivo(h)' = Archivo(h) /\ lista'[h] = lista[h] /\ libres'[h] = libres[h]
      BY <1>1, MismoArchivo DEF mensajes
    <3>5. QED
      BY <1>3, <2>1, <3>3, <3>4 DEF Alcanza, Contando
  <2>4. \A k \in Hilos \ {h} : MismaCuenta(k)
    BY <1>1 DEF mensajes, MismaCuenta, Tipos, Resto, Datos
  <2>5. QED
    BY <1>1, <2>2, <2>3, <2>4, PasoDisco DEF disco, historia
<1>5. CASE ~(libres[h] > falta /\ falta > Len(lista[h]))
  <2>1. pc'[h] \in {"final", "escribir"}
    <3> HIDE DEF falta
    <3>1. QED
      BY <1>1, <1>5 DEF Tipos
  <2>2. \A k \in Hilos \ {h} : MismaCuenta(k)
    BY <1>1 DEF mensajes, MismaCuenta, Tipos, Resto, Datos
  <2>3. QED
    BY <1>1, <2>1, <2>2, SinContarPaso DEF disco, historia
<1>6. QED
  BY <1>4, <1>5

\* The steps that take no block, and leave the thread where nothing is counted.
LEMMA SinContarDisco ==
  ASSUME Tipos, Resto, EnElDisco, NEW h \in Hilos,
         \/ OperateGet(h) \/ OperateCatch(h) \/ EscribirBlock(h)
         \/ LiberarBloque(h) \/ VaciarBloque(h) \/ Publicar(h)
  PROVE  EnElDisco'
<1>1. /\ \/ pc'[h] \in {"publicar", "cerrar", "escribir", "metadata", "final", "soltar", "vaciar"}
         \/ pc'[h] = "espera" /\ lista'[h] = <<>>
      /\ bitmap' \subseteq bitmap /\ tomadores' = tomadores
      /\ \A k \in Hilos \ {h} : MismaCuenta(k)
  <2>1. CASE OperateGet(h)
    BY <2>1 DEF mensajes, OperateGet, disco, historia, MismaCuenta, Tipos, Resto, Datos
  <2>2. CASE OperateCatch(h)
    BY <2>2 DEF mensajes, OperateCatch, disco, historia, MismaCuenta, Tipos, Resto, Datos
  <2>3. CASE EscribirBlock(h)
    BY <2>3 DEF mensajes, EscribirBlock, historia, MismaCuenta, Tipos, Resto, Datos
  <2>4. CASE LiberarBloque(h)
    BY <2>4 DEF mensajes, LiberarBloque, operacion, historia, MismaCuenta, Tipos, Resto, Datos
  <2>5. CASE VaciarBloque(h)
    BY <2>5 DEF mensajes, VaciarBloque, operacion, historia, MismaCuenta, Tipos, Resto, Datos
  <2>6. CASE Publicar(h)
    BY <2>6 DEF mensajes, Publicar, Reposo, disco, MismaCuenta, Tipos, Resto, Datos
  <2>7. QED
    BY <2>1, <2>2, <2>3, <2>4, <2>5, <2>6
<1>2. QED
  BY <1>1, SinContarPaso

LEMMA LeerMetadataDisco ==
  ASSUME Tipos, Resto, EnElDisco, NEW h \in Hilos, LeerMetadata(h)
  PROVE  EnElDisco'
<1>1. CASE Morir("segfault")
  BY <1>1, MorirDisco
<1>2. CASE ~Morir("segfault")
  <2>1. /\ pc' = [pc EXCEPT ![h] = "abrir"] /\ pc[h] = "leer"
        /\ lista' = [lista EXCEPT ![h] = meta[Archivo(h)].bloques]
        /\ UNCHANGED <<disco, sigue, libres, lineas, tomado, mensajes, historia>>
    BY <1>2 DEF LeerMetadata
  <2>2. /\ \A k \in Hilos \ {h} : MismaCuenta(k)
        /\ UNCHANGED <<bitmap, tomadores, libres, lineas>> /\ pc'[h] = "abrir" /\ Contando(h)
    BY <2>1 DEF mensajes, MismaCuenta, Tipos, disco, historia, Contando
  <2>3. QED
    BY <2>2, CuentaPaso
<1>3. QED
  BY <1>1, <1>2

LEMMA GuardarDisco ==
  ASSUME Tipos, Resto, EnElDisco, NEW h \in Hilos, Guardar(h)
  PROVE  EnElDisco'
<1>1. CASE config = Ninguno
  BY <1>1, MorirDisco DEF Guardar
<1>2. CASE config # Ninguno
  <2>1. /\ pc[h] = "guardar" /\ pc' = [pc EXCEPT ![h] = sigue[h]]
        /\ UNCHANGED <<bitmap, sigue, libres, lista, lineas, tomado, mensajes, historia>>
    BY <1>2 DEF Guardar
  <2>2. /\ \A k \in Hilos \ {h} : MismaCuenta(k)
        /\ UNCHANGED <<bitmap, tomadores, libres, lineas, lista>> /\ pc'[h] = sigue[h]
        /\ Archivo(h)' = Archivo(h)
    BY <2>1, MismoArchivo DEF mensajes, MismaCuenta, Tipos, historia
  <2>3. CASE sigue[h] = "bloques"
    <3>1. Contando(h)
      BY <2>1, <2>3 DEF Contando
    <3>2. QED
      BY <2>2, <2>3, <3>1, CuentaPaso
  <2>4. CASE sigue[h] = "pedir"
    <3>1. /\ lista[h] = <<>> /\ Len(lineas[h]) = 1 /\ BlocksOcupados(Archivo(h), 1) < libres[h] /\ libres[h] \in Int
          /\ (tomadores \subseteq {h} => libres[h] <= LiberarBlocks)
      BY <2>1, <2>4 DEF EnElDisco, EnBlanco, PorCrear, Alcanza, Contando, Resto, Datos
    <3>2. Len(lista[h]) = 0 /\ 0 < BlocksOcupados(Archivo(h), 1)
      <4>1. Len(<<>>) = 0
        BY EmptySeq
      <4>2. BlocksOcupados(Archivo(h), 1) \in Nat \ {0}
        BY <2>1, PedidoValido, BlocksOcupadosTipo
      <4>3. QED
        BY <3>1, <4>1, <4>2
    <3>3. EnBlanco(h)'
      BY <2>2, <2>4 DEF EnBlanco, PorCrear
    <3>4. ASSUME tomadores \subseteq {h}
          PROVE  Alcanza(h)'
      <4>1. libres[h] <= LiberarBlocks + 0 /\ LiberarBlocks' = LiberarBlocks
        BY <2>2, <3>1, <3>4, LiberarBlocksTipo DEF LiberarBlocks
      <4>2. QED
        BY <2>2, <2>4, <3>1, <3>2, <4>1 DEF Alcanza, Contando
    <3>5. QED
      BY <2>2, <3>3, <3>4, PasoDisco
  <2>5. CASE sigue[h] \notin {"bloques", "pedir"}
    <3>1. sigue[h] \in {"publicar", "final", "soltar", "vaciar"}
      BY <2>1, <2>5 DEF EnElDisco, EnBlanco
    <3>2. QED
      BY <2>2, <3>1, SinContarPaso
  <2>6. QED
    BY <2>3, <2>4, <2>5
<1>3. QED
  BY <1>1, <1>2

LEMMA BuscarLibreDisco ==
  ASSUME Tipos, Resto, EnElDisco, NEW h \in Hilos, BuscarLibre(h)
  PROVE  EnElDisco'
<1>1. PICK b \in Bloques : PrimerLibre(b) /\ tomado' = [tomado EXCEPT ![h] = b]
  BY DEF BuscarLibre
<1>2. /\ pc[h] = "pedir" /\ pc' = [pc EXCEPT ![h] = "marcar"]
      /\ UNCHANGED <<disco, sigue, libres, lista, lineas, mensajes, historia>>
  BY DEF BuscarLibre
<1>3. /\ \A k \in Hilos \ {h} : MismaCuenta(k)
      /\ UNCHANGED <<bitmap, tomadores, libres, lineas, lista>> /\ Archivo(h)' = Archivo(h)
      /\ pc'[h] = "marcar" /\ tomado'[h] = b
  BY <1>1, <1>2, MismoArchivo DEF mensajes, MismaCuenta, Tipos, disco, historia
<1>4. EnBlanco(h)'
  BY <1>3 DEF EnBlanco, PorCrear
<1>5. ASSUME tomadores \subseteq {h}
      PROVE  Alcanza(h)'
  <2>1. /\ Len(lista[h]) < BlocksOcupados(Archivo(h), Len(lineas[h])) /\ BlocksOcupados(Archivo(h), Len(lineas[h])) < libres[h]
        /\ libres[h] <= LiberarBlocks + Len(lista[h])
    BY <1>2, <1>5 DEF EnElDisco, Alcanza
  <2>2. /\ Len(lista[h]) \in Int /\ BlocksOcupados(Archivo(h), Len(lineas[h])) \in Int /\ libres[h] \in Int
        /\ LiberarBlocks \in Int
    <3>1. lineas[h] \in Seq(Linea) /\ lista[h] \in Seq(Bloques) /\ libres[h] \in Int
      BY DEF Tipos, Resto, Datos
    <3>2. Len(lineas[h]) \in Nat /\ Len(lista[h]) \in Int
      BY <3>1, LenProperties
    <3>3. QED
      BY <1>2, <3>1, <3>2, PedidoValido, BlocksOcupadosTipo, LiberarBlocksTipo
  <2>3. LiberarBlocks > 0
    BY <2>1, <2>2
  <2>4. b \in Disco
    BY <1>1, <2>3, PrimeroDelDisco
  <2>5. QED
    BY <1>3, <2>1, <2>4 DEF Alcanza, Contando, LiberarBlocks
<1>6. QED
  BY <1>3, <1>4, <1>5, PasoDisco

LEMMA ConfBloqueDisco ==
  ASSUME Tipos, Resto, EnElDisco, NEW h \in Hilos, ConfBloque(h)
  PROVE  EnElDisco'
<1> DEFINE b == tomado[h]
           n == BlocksOcupados(Archivo(h), Len(lineas[h]))
<1>1. /\ pc[h] = "marcar" /\ bitmap' = bitmap \cup {b} /\ tomadores' = tomadores \cup {h}
      /\ lista' = [lista EXCEPT ![h] = Append(lista[h], b)]
      /\ tomado' = [tomado EXCEPT ![h] = -1]
      /\ pc' = [pc EXCEPT ![h] = IF Len(Append(lista[h], b)) < n THEN "pedir" ELSE "escribir"]
      /\ UNCHANGED <<sigue, libres, lineas, mensajes>>
  BY DEF ConfBloque
<1>2. \A k \in Hilos \ {h} : MismaCuenta(k)
  BY <1>1 DEF mensajes, MismaCuenta, Tipos
<1>3. /\ pc'[h] = IF Len(lista'[h]) < n THEN "pedir" ELSE "escribir"
      /\ Len(lista'[h]) = Len(lista[h]) + 1
  <2>1. b \in Bloques /\ lista[h] \in Seq(Bloques)
    BY <1>1 DEF Tipos
  <2>2. Len(Append(lista[h], b)) = Len(lista[h]) + 1
    BY <2>1, AppendProperties
  <2>3. lista'[h] = Append(lista[h], b)
    BY <1>1 DEF Tipos
  <2> HIDE DEF n, b
  <2>4. QED
    BY <1>1, <2>2, <2>3 DEF Tipos
<1>4. EnBlanco(h)'
  BY <1>3 DEF EnBlanco, PorCrear
<1>5. ASSUME tomadores \subseteq {h}
      PROVE  Alcanza(h)' /\ bitmap' \subseteq Disco
  <2>1. /\ n < libres[h] /\ libres[h] <= LiberarBlocks + Len(lista[h]) /\ b \in Disco
    BY <1>1, <1>5 DEF EnElDisco, Alcanza
  <2>2. bitmap' \subseteq Disco
    BY <1>1, <1>5, <2>1 DEF EnElDisco, UnTomador
  <2>3. LiberarBlocks - 1 <= LiberarBlocks'
    <3> HIDE DEF b
    <3>1. QED
      BY <1>1, LiberarToma
  <2>4. Len(lista[h]) \in Int /\ libres[h] \in Int /\ LiberarBlocks \in Int /\ LiberarBlocks' \in Int
    BY LenProperties, LiberarBlocksTipo DEF Tipos, Resto, Datos
  <2>5. libres[h] <= LiberarBlocks' + Len(lista'[h])
    BY <1>3, <2>1, <2>3, <2>4
  <2>6. /\ lineas'[h] = lineas[h] /\ libres'[h] = libres[h] /\ Archivo(h)' = Archivo(h)
        /\ BlocksOcupados(Archivo(h), Len(lineas'[h])) = n
    BY <1>1, MismoArchivo DEF mensajes
  <2>7. pc'[h] = "pedir" => Len(lista'[h]) < n
    BY <1>3
  <2> HIDE DEF n
  <2>8. Alcanza(h)'
    BY <1>3, <2>1, <2>5, <2>6, <2>7 DEF Alcanza, Contando
  <2>9. QED
    BY <2>2, <2>8
<1>6. QED
  BY <1>1, <1>2, <1>4, <1>5, PasoDisco

LEMMA DiscoPaso ==
  ASSUME Tipos, Resto, EnElDisco, NEW h \in Hilos, Paso(h)
  PROVE  EnElDisco'
<1>1. CASE Empezar(h) \/ CrearArchivo(h) \/ LeerMetadata(h) \/ Abrir(h) \/ Cerrar(h)
  BY <1>1, EmpezarDisco, CrearArchivoDisco, LeerMetadataDisco, AbrirDisco
<1>2. CASE OperateNew(h) \/ BuscarLibre(h) \/ ConfBloque(h) \/ Guardar(h)
  BY <1>2, OperateNewDisco, BuscarLibreDisco, ConfBloqueDisco, GuardarDisco
<1>3. CASE ActualizarMetadata(h) \/ ActualizarOtraVez(h)
  BY <1>3, ActualizarDisco
<1>4. CASE \/ OperateGet(h) \/ OperateCatch(h) \/ EscribirBlock(h)
           \/ LiberarBloque(h) \/ VaciarBloque(h) \/ Publicar(h)
  BY <1>4, SinContarDisco
<1>5. QED
  BY <1>1, <1>2, <1>3, <1>4 DEF Paso

LEMMA DiscoIgual ==
  ASSUME EnElDisco, UNCHANGED <<bitmap, pc, sigue, libres, lista, lineas, tomado, tomadores, bandeja, actual>>
  PROVE  EnElDisco'
<1>1. \A k \in Hilos : Archivo(k)' = Archivo(k)
  BY MismoArchivo
<1>2. \A k \in Hilos : EnBlanco(k)' = EnBlanco(k) /\ Alcanza(k)' = Alcanza(k)
  BY <1>1 DEF EnBlanco, PorCrear, Alcanza, Contando, LiberarBlocks
<1>3. QED
  BY <1>2 DEF EnElDisco, UnTomador

LEMMA DiscoInductivo ==
  ASSUME Tipos, Resto, EnElDisco, [Next]_vars
  PROVE  EnElDisco'
<1>1. ASSUME NEW h \in Hilos, Paso(h)
      PROVE  EnElDisco'
  BY <1>1, DiscoPaso
<1>2. ASSUME NEW h \in Hilos, EnviarAck(h) \/ PerderConexion(h)
      PROVE  EnElDisco'
  BY <1>2, DiscoIgual DEF EnviarAck, PerderConexion, disco, operacion, historia
<1>3. CASE Caer
  BY <1>3, MorirDisco DEF Caer
<1>4. CASE Reiniciar \/ UNCHANGED vars
  BY <1>4, DiscoIgual DEF Reiniciar, vars, disco, operacion, mensajes, historia
<1>5. QED
  BY <1>1, <1>2, <1>3, <1>4 DEF Next

LEMMA DiscoInicio == Init => EnElDisco
<1> SUFFICES ASSUME Init PROVE EnElDisco
  OBVIOUS
<1>1. /\ pc = [h \in Hilos |-> "espera"] /\ lista = [h \in Hilos |-> <<>>] /\ tomadores = {}
  BY DEF Init
<1>2. \A h \in Hilos : EnBlanco(h) /\ Alcanza(h)
  BY <1>1 DEF EnBlanco, PorCrear, Alcanza, Contando
<1>3. bitmap \subseteq Disco
  <2>1. PICK c \in Casos : meta = c.meta /\ bloque = c.bloque
                           /\ bitmap = UNION {Range(c.meta[f].bloques) : f \in Archivos}
    BY DEF Init
  <2>2. \A f \in Archivos : Range(c.meta[f].bloques) \subseteq Disco
    BY CasosAssumption DEF DiscoEnOrden, Disco
  <2>3. QED
    BY <2>1, <2>2
<1>4. QED
  BY <1>2, <1>3 DEF EnElDisco

\* Whatever the number of threads and of blocks, a block past the end of the disk is given only
\* if two threads took blocks, each with a count of the free ones from before the other's:
\* obtener_conf_free_block needs no bound while one thread takes them, also when others give
\* theirs back and the process dies and starts again.
THEOREM BloquesDelDisco == Spec => []BloqueDelDisco
<1>1. Tipos /\ Resto /\ EnElDisco => BloqueDelDisco
  <2> SUFFICES ASSUME Resto, EnElDisco, Cardinality(tomadores) <= 1
               PROVE  bitmap \subseteq 0..(BLOCKS - 1)
    BY DEF BloqueDelDisco
  <2>1. IsFiniteSet(tomadores)
    BY GameCardAssumption, FS_Subset DEF Resto, Datos
  <2>2. Cardinality(tomadores) \in Nat
    BY <2>1, FS_CardinalityType
  <2>3. CASE Cardinality(tomadores) = 0
    <3>1. tomadores = {}
      BY <2>1, <2>3, FS_EmptySet
    <3>2. QED
      BY <3>1 DEF EnElDisco, UnTomador, Disco
  <2>4. CASE Cardinality(tomadores) = 1
    <3>1. PICK x : tomadores = {x}
      BY <2>1, <2>4, FS_Singleton
    <3>2. QED
      BY <3>1 DEF EnElDisco, UnTomador, Disco
  <2>5. QED
    BY <2>2, <2>3, <2>4
<1>2. Init => EnElDisco
  BY DiscoInicio
<1>3. Init => Resto
  BY RestoInicio
<1>4. IInv /\ Resto /\ EnElDisco /\ [Next]_vars => Resto' /\ EnElDisco'
  BY RestoInductivo, DiscoInductivo DEF IInv
<1>5. IInv => Tipos
  BY DEF IInv
<1>6. QED
  BY <1>1, <1>2, <1>3, <1>4, <1>5, Invariante, PTL DEF Spec

------------------------------------------------------------------------------
(* What NEW, CATCH and escribir_blocks make of the lines of a file. *)

LEMMA Cociente ==
  ASSUME NEW d \in Nat \ {0}, NEW a \in Nat, NEW b \in Nat, d * a < d * b
  PROVE  a < b
OBVIOUS

LEMMA DivisionSiguiente ==
  ASSUME NEW n \in Nat, NEW d \in Nat \ {0}
  PROVE  n \div d <= (n + 1) \div d /\ (n + 1) \div d <= (n \div d) + 1
<1> DEFINE a == n \div d
           b == (n + 1) \div d
<1>1. a \in Nat /\ d * a <= n /\ n < d * (a + 1)
  BY Division
<1>2. b \in Nat /\ d * b <= n + 1 /\ n + 1 < d * (b + 1)
  BY Division
<1> HIDE DEF a, b
<1>3. d * a < d * (b + 1)
  BY <1>1, <1>2
<1>4. d * b < d * (a + 2)
  BY <1>1, <1>2
<1>5. a < b + 1 /\ b < a + 2
  BY <1>1, <1>2, <1>3, <1>4, Cociente
<1>6. a <= b /\ b <= a + 1
  BY <1>1, <1>2, <1>5
<1>7. QED
  BY <1>6 DEF a, b

\* The last line that fits in i blocks.
Hasta(i, ls) == IF i * LINEAS_POR_BLOQUE < Len(ls) THEN i * LINEAS_POR_BLOQUE ELSE Len(ls)

\* Lines that fit in a block: each block has its own.
LEMMA DeCortos ==
  ASSUME NEW f \in Cortos
  PROVE  /\ f \in Archivos
         /\ \A n \in Nat : BlocksOcupados(f, n) = IF n = 0 THEN 1 ELSE 1 + (n - 1) \div LINEAS_POR_BLOQUE
         /\ \A bs \in Seq(Bloques) : \A b :
              LineasDe(f, bs, b) = FlattenSeq([i \in DOMAIN bs |-> b[bs[i]]])
         /\ \A ls : \A i \in Nat \ {0} :
              Trozo(f, ls, i) = SubSeq(ls, (i * LINEAS_POR_BLOQUE) - LINEAS_POR_BLOQUE + 1, Hasta(i, ls))
<1>1. f \in Archivos /\ BLOQUES_POR_LINEA[f] = 1 /\ LineasPorGrupo(f) = LINEAS_POR_BLOQUE
  BY DEF Cortos, LineasPorGrupo
<1>2. LINEAS_POR_BLOQUE \in Nat \ {0}
  BY GameCardAssumption
<1>3. ASSUME NEW n \in Nat
      PROVE  BlocksOcupados(f, n) = IF n = 0 THEN 1 ELSE 1 + (n - 1) \div LINEAS_POR_BLOQUE
  <2>1. CASE n = 0
    BY <2>1 DEF BlocksOcupados
  <2>2. CASE n # 0
    <3> DEFINE q == 1 + (n - 1) \div LINEAS_POR_BLOQUE
    <3>1. n - 1 \in Nat
      BY <2>2
    <3>2. q \in Int
      BY <1>2, <3>1
    <3>3. BlocksOcupados(f, n) = 1 * q
      BY <1>1, <2>2 DEF BlocksOcupados
    <3> HIDE DEF q
    <3>4. BlocksOcupados(f, n) = q
      BY <3>2, <3>3
    <3>5. QED
      BY <2>2, <3>4 DEF q
  <2>3. QED
    BY <2>1, <2>2
<1>4. ASSUME NEW bs \in Seq(Bloques), NEW b
      PROVE  LineasDe(f, bs, b) = FlattenSeq([i \in DOMAIN bs |-> b[bs[i]]])
  <2>1. Len(bs) \in Nat /\ DOMAIN bs = 1..Len(bs)
    BY LenProperties
  <2>2. Len(bs) \div 1 = Len(bs) /\ \A g \in 1..Len(bs) : g * 1 = g
    <3>1. \A n \in Nat : n \div 1 = n
      OBVIOUS
    <3>2. \A g \in 1..Len(bs) : g * 1 = g
      OBVIOUS
    <3>3. QED
      BY <2>1, <3>1, <3>2
  <2>3. [g \in 1..(Len(bs) \div 1) |-> b[bs[g * 1]]] = [i \in DOMAIN bs |-> b[bs[i]]]
    BY <2>1, <2>2
  <2>4. QED
    BY <1>1, <2>3 DEF LineasDe
<1>5. ASSUME NEW ls, NEW i \in Nat \ {0}
      PROVE  Trozo(f, ls, i) = SubSeq(ls, (i * LINEAS_POR_BLOQUE) - LINEAS_POR_BLOQUE + 1, Hasta(i, ls))
  <2>1. 1 + (i - 1) \div 1 = i
    OBVIOUS
  <2>2. QED
    BY <1>1, <2>1 DEF Trozo, Hasta
<1>6. QED
  BY <1>1, <1>3, <1>4, <1>5

LEMMA OcupaSiguiente ==
  ASSUME NEW f \in Cortos, NEW n \in Nat
  PROVE  /\ BlocksOcupados(f, n) <= BlocksOcupados(f, n + 1)
         /\ BlocksOcupados(f, n + 1) <= BlocksOcupados(f, n) + 1
<1>1. LINEAS_POR_BLOQUE \in Nat \ {0}
  BY GameCardAssumption
<1>2. BlocksOcupados(f, n) \in Nat \ {0} /\ BlocksOcupados(f, n + 1) \in Nat \ {0}
  BY DeCortos, BlocksOcupadosTipo
<1>3. CASE n = 0
  <2>1. 0 \div LINEAS_POR_BLOQUE = 0
    BY <1>1
  <2>2. BlocksOcupados(f, 1) = 1 /\ BlocksOcupados(f, 0) = 1
    BY <2>1, DeCortos
  <2>3. QED
    BY <1>3, <2>2
<1>4. CASE n # 0
  <2> DEFINE a == (n - 1) \div LINEAS_POR_BLOQUE
             b == n \div LINEAS_POR_BLOQUE
  <2>1. BlocksOcupados(f, n) = 1 + a /\ BlocksOcupados(f, n + 1) = 1 + b
    BY <1>4, DeCortos
  <2>2. n - 1 \in Nat /\ (n - 1) + 1 = n
    BY <1>4
  <2>3. a <= b /\ b <= a + 1
    BY <1>1, <2>2, DivisionSiguiente
  <2>4. a \in Nat /\ b \in Nat
    BY <1>1, <2>2, Division
  <2> HIDE DEF a, b
  <2>5. QED
    BY <2>1, <2>3, <2>4
<1>5. QED
  BY <1>3, <1>4

LEMMA OcupaAlcanza ==
  ASSUME NEW f \in Cortos, NEW n \in Nat \ {0}
  PROVE  /\ n <= BlocksOcupados(f, n) * LINEAS_POR_BLOQUE
         /\ (BlocksOcupados(f, n) - 1) * LINEAS_POR_BLOQUE < n
<1> DEFINE L == LINEAS_POR_BLOQUE
           a == (n - 1) \div L
<1>1. L \in Nat \ {0} /\ n - 1 \in Nat
  BY GameCardAssumption
<1>2. a \in Nat /\ L * a <= n - 1 /\ n - 1 < L * (a + 1)
  BY <1>1, Division
<1>3. BlocksOcupados(f, n) = 1 + a
  BY DeCortos
<1> HIDE DEF a, L
<1>4. (1 + a) * L = L * (a + 1) /\ ((1 + a) - 1) * L = L * a
  BY <1>1, <1>2
<1>5. L * (a + 1) \in Int /\ L * a \in Int
  BY <1>1, <1>2
<1>6. n <= (1 + a) * L /\ ((1 + a) - 1) * L < n
  BY <1>2, <1>4, <1>5
<1>7. QED
  BY <1>3, <1>6 DEF L

\* The lines of a list of blocks depend on those blocks alone.
LEMMA LineasIguales ==
  ASSUME NEW f \in Cortos, NEW bs \in Seq(Bloques), NEW b, NEW c, \A x \in Range(bs) : b[x] = c[x]
  PROVE  LineasDe(f, bs, b) = LineasDe(f, bs, c)
<1>1. \A i \in DOMAIN bs : b[bs[i]] = c[bs[i]]
  BY DEF Range
<1>2. [i \in DOMAIN bs |-> b[bs[i]]] = [i \in DOMAIN bs |-> c[bs[i]]]
  BY <1>1
<1>3. /\ LineasDe(f, bs, b) = FlattenSeq([i \in DOMAIN bs |-> b[bs[i]]])
      /\ LineasDe(f, bs, c) = FlattenSeq([i \in DOMAIN bs |-> c[bs[i]]])
  BY DeCortos
<1>4. QED
  BY <1>2, <1>3

\* A line more, or one that counts one more.
LEMMA UnoMas ==
  ASSUME NEW ls \in Seq(Linea), UnaPorPosicion(ls), NEW p \in Posiciones
  PROVE  /\ UnaPorPosicion(ConUnoMas(p, ls)) /\ ConUnoMas(p, ls) # <<>>
         /\ Len(ConUnoMas(p, ls)) \in {Len(ls), Len(ls) + 1}
         /\ Cantidad(p, ConUnoMas(p, ls)) = Cantidad(p, ls) + 1
         /\ \A q : q # p => Cantidad(q, ConUnoMas(p, ls)) = Cantidad(q, ls)
<1> DEFINE t == ConUnoMas(p, ls)
<1>1. Len(ls) \in Nat /\ DOMAIN ls = 1..Len(ls) /\ \A i \in 1..Len(ls) : ls[i] \in Linea
  BY LenProperties, ElementOfSeq
<1>2. CASE CoordinateExists(p, ls)
  <2>1. t = [i \in DOMAIN ls |->
               IF ls[i].pos = p THEN [ls[i] EXCEPT !.cantidad = ls[i].cantidad + 1] ELSE ls[i]]
    BY <1>2 DEF ConUnoMas
  <2> HIDE DEF t
  <2>2. DOMAIN t = DOMAIN ls
    BY <2>1
  <2>3. \A i \in DOMAIN ls : /\ t[i].pos = ls[i].pos
                             /\ t[i].cantidad = IF ls[i].pos = p THEN ls[i].cantidad + 1 ELSE ls[i].cantidad
    BY <1>1, <2>1 DEF Linea
  <2>4. UnaPorPosicion(t)
    BY <2>2, <2>3 DEF UnaPorPosicion
  <2>5. t \in Seq(Linea)
    BY ConUnoMasTipo DEF t
  <2>6. Len(t) = Len(ls)
    BY <1>1, <2>2, <2>5, LenProperties
  <2>7. \A i \in DOMAIN ls : ls[i].cantidad \in Nat /\ t[i].cantidad \in Nat
    BY <1>1, <2>3 DEF Linea
  <2>8. Cantidad(p, t) = Cantidad(p, ls) + 1
    <3>1. PICK i \in DOMAIN ls : ls[i].pos = p
      BY <1>2 DEF CoordinateExists
    <3>2. Cantidad(p, ls) = ls[i].cantidad
      BY <2>7, <3>1, CantidadDeUno
    <3>3. Cantidad(p, t) = t[i].cantidad
      BY <2>2, <2>3, <2>4, <2>7, <3>1, CantidadDeUno
    <3>4. QED
      BY <2>3, <3>1, <3>2, <3>3
  <2>9. ASSUME NEW q, q # p
        PROVE  Cantidad(q, t) = Cantidad(q, ls)
    <3>1. CASE CoordinateExists(q, ls)
      <4>1. PICK i \in DOMAIN ls : ls[i].pos = q
        BY <3>1 DEF CoordinateExists
      <4>2. Cantidad(q, ls) = ls[i].cantidad
        BY <2>7, <4>1, CantidadDeUno
      <4>3. Cantidad(q, t) = t[i].cantidad
        BY <2>2, <2>3, <2>4, <2>7, <4>1, CantidadDeUno
      <4>4. QED
        BY <2>3, <2>9, <4>1, <4>2, <4>3
    <3>2. CASE ~CoordinateExists(q, ls)
      <4>1. ~CoordinateExists(q, t)
        BY <2>2, <2>3, <3>2 DEF CoordinateExists
      <4>2. QED
        BY <2>4, <3>2, <4>1, CantidadDeUno
    <3>3. QED
      BY <3>1, <3>2
  <2>10. t # <<>>
    <3>1. DOMAIN ls # {} /\ DOMAIN <<>> = {}
      BY <1>2, EmptySeq, LenProperties DEF CoordinateExists
    <3>2. QED
      BY <2>2, <3>1
  <2>11. QED
    BY <2>4, <2>6, <2>8, <2>9, <2>10 DEF t
<1>3. CASE ~CoordinateExists(p, ls)
  <2> DEFINE l == [pos |-> p, cantidad |-> 1]
  <2>1. t = Append(ls, l) /\ l \in Linea
    BY <1>3 DEF ConUnoMas, Linea
  <2> HIDE DEF t
  <2>2. /\ Len(t) = Len(ls) + 1 /\ t[Len(ls) + 1] = l /\ \A i \in 1..Len(ls) : t[i] = ls[i]
        /\ t \in Seq(Linea)
    <3> HIDE DEF l
    <3>1. QED
      BY <2>1, AppendProperties
  <2>3. DOMAIN t = 1..(Len(ls) + 1) /\ Len(ls) + 1 \in DOMAIN t
    BY <1>1, <2>2, LenProperties
  <2>4. \A i \in DOMAIN t : i = Len(ls) + 1 \/ i \in DOMAIN ls
    BY <1>1, <2>3
  <2>5. \A i \in DOMAIN ls : i \in DOMAIN t /\ t[i] = ls[i] /\ ls[i].pos # p /\ ls[i].cantidad \in Nat
    BY <1>1, <1>3, <2>2, <2>3 DEF CoordinateExists, Linea
  <2>6. t[Len(ls) + 1].pos = p /\ t[Len(ls) + 1].cantidad = 1
    BY <2>2
  <2>7. UnaPorPosicion(t)
    <3> SUFFICES ASSUME NEW i \in DOMAIN t, NEW j \in DOMAIN t, t[i].pos = t[j].pos PROVE i = j
      BY DEF UnaPorPosicion
    <3>1. QED
      BY <2>4, <2>5, <2>6 DEF UnaPorPosicion
  <2>8. Cantidad(p, t) = 1 /\ Cantidad(p, ls) = 0
    BY <1>3, <2>3, <2>6, <2>7, CantidadDeUno
  <2>9. ASSUME NEW q, q # p
        PROVE  Cantidad(q, t) = Cantidad(q, ls)
    <3>1. CASE CoordinateExists(q, ls)
      <4>1. PICK i \in DOMAIN ls : ls[i].pos = q
        BY <3>1 DEF CoordinateExists
      <4>2. Cantidad(q, ls) = ls[i].cantidad
        BY <2>5, <4>1, CantidadDeUno
      <4>3. Cantidad(q, t) = t[i].cantidad
        BY <2>5, <2>7, <4>1, CantidadDeUno
      <4>4. QED
        BY <2>5, <4>1, <4>2, <4>3
    <3>2. CASE ~CoordinateExists(q, ls)
      <4>1. ~CoordinateExists(q, t)
        BY <2>4, <2>5, <2>6, <2>9, <3>2 DEF CoordinateExists
      <4>2. QED
        BY <2>7, <3>2, <4>1, CantidadDeUno
    <3>3. QED
      BY <3>1, <3>2
  <2>10. t # <<>>
    BY <1>1, <2>2, EmptySeq
  <2>11. QED
    BY <2>2, <2>7, <2>8, <2>9, <2>10 DEF t
<1>4. QED
  BY <1>2, <1>3

\* Flattening a list of lists of one element, but for one that is empty (none, if k is past the end).
Unos(ss, u, k) == \A i \in 1..Len(u) : ss[i] = IF i = k THEN <<>> ELSE <<u[i]>>
SinEl(t, u, k) ==
  /\ Len(t) = IF k <= Len(u) THEN Len(u) - 1 ELSE Len(u)
  /\ \A j \in 1..Len(t) : t[j] = IF j < k THEN u[j] ELSE u[j + 1]

LEMMA AplanarUnos ==
  ASSUME NEW T, NEW u \in Seq(T), NEW k \in 1..(Len(u) + 1), NEW ss \in Seq(Seq(T)), Len(ss) = Len(u),
         Unos(ss, u, k)
  PROVE  SinEl(FlattenSeq(ss), u, k)
<1> DEFINE n == Len(u)
<1>1. n \in Nat /\ \A i \in 1..n : u[i] \in T
  BY LenProperties, ElementOfSeq
<1>2. PICK g : /\ g \in [0..n -> Seq(T)] /\ g[0] = <<>>
               /\ \A i \in 1..n : g[i] = g[i - 1] \o ss[i]
               /\ FlattenSeq(ss) = g[n]
  <2> DEFINE m == Len(ss)
  <2>1. \E g : /\ g \in [0..m -> Seq(T)] /\ g[0] = <<>>
               /\ \A i \in 1..m : g[i] = g[i - 1] \o ss[i]
               /\ FlattenSeq(ss) = g[m]
    BY Aplanar
  <2>2. m = n
    OBVIOUS
  <2> HIDE DEF m
  <2>3. QED
    BY <2>1, <2>2
<1> DEFINE Bien(i) == /\ Len(g[i]) = IF k <= i THEN i - 1 ELSE i
                      /\ \A j \in 1..Len(g[i]) : g[i][j] = IF j < k THEN u[j] ELSE u[j + 1]
           M == {i \in 0..n : Bien(i)}
<1>3. 0 \in M
  <2>1. Len(g[0]) = 0 /\ ~(k <= 0)
    BY <1>1, <1>2, EmptySeq
  <2>2. QED
    BY <1>1, <2>1
<1>4. ASSUME NEW i \in 1..n, i - 1 \in M
      PROVE  i \in M
  <2>0. i - 1 \in 0..n /\ i \in 0..n /\ i \in Nat /\ k \in Nat
    BY <1>1
  <2>1. i - 1 \in 0..n /\ i \in 0..n /\ Bien(i - 1) /\ i \in Nat /\ k \in Nat
    <3>1. Bien(i - 1)
      <4> HIDE DEF Bien
      <4>1. QED
        BY <1>4
    <3>2. QED
      BY <2>0, <3>1
  <2> DEFINE a == g[i - 1]
             c == g[i]
  <2>2. a \in Seq(T) /\ c \in Seq(T) /\ u[i] \in T
    BY <1>1, <1>2, <2>1
  <2>3. CASE i = k
    <3>1. c = a
      <4>1. c = a \o <<>>
        BY <1>2, <2>3 DEF Unos
      <4> HIDE DEF a, c
      <4>2. QED
        BY <2>2, <4>1, ConcatEmptySeq
    <3>2. Len(a) = i - 1
      BY <2>1, <2>3
    <3>3. QED
      BY <2>1, <2>3, <3>1, <3>2
  <2>4. CASE i # k
    <3>1. c = Append(a, u[i])
      <4>1. c = a \o <<u[i]>>
        BY <1>2, <2>4 DEF Unos
      <4> HIDE DEF a, c
      <4>2. QED
        BY <2>2, <4>1, AppendIsConcat
    <3> HIDE DEF a, c
    <3>2. Len(c) = Len(a) + 1 /\ c[Len(a) + 1] = u[i] /\ \A j \in 1..Len(a) : c[j] = a[j]
      BY <2>2, <3>1, AppendProperties
    <3>3. Len(a) = (IF k <= i - 1 THEN (i - 1) - 1 ELSE i - 1)
          /\ \A j \in 1..Len(a) : a[j] = IF j < k THEN u[j] ELSE u[j + 1]
      BY <2>1 DEF a
    <3>4. Len(c) = IF k <= i THEN i - 1 ELSE i
      BY <2>1, <2>4, <3>2, <3>3
    <3>5. ASSUME NEW j \in 1..Len(c)
          PROVE  c[j] = IF j < k THEN u[j] ELSE u[j + 1]
      <4>1. CASE j \in 1..Len(a)
        BY <3>2, <3>3, <4>1
      <4>2. CASE j \notin 1..Len(a)
        <5>1. j = Len(a) + 1
          BY <2>1, <3>2, <3>3, <4>2
        <5>2. CASE k <= i - 1
          <6>1. j = i - 1 /\ ~(j < k) /\ j + 1 = i
            BY <2>1, <3>3, <5>1, <5>2
          <6>2. QED
            BY <3>2, <5>1, <6>1
        <5>3. CASE ~(k <= i - 1)
          <6>1. j = i /\ j < k
            BY <2>1, <2>4, <3>3, <5>1, <5>3
          <6>2. QED
            BY <3>2, <5>1, <6>1
        <5>4. QED
          BY <5>2, <5>3
      <4>3. QED
        BY <4>1, <4>2
    <3>6. QED
      BY <2>1, <3>4, <3>5 DEF c
  <2>5. QED
    BY <2>3, <2>4
<1>5. n \in M
  <2> HIDE DEF M
  <2>1. \A i \in 0..n : i \in M
    BY <1>1, <1>3, <1>4, EnCadaVuelta
  <2>2. QED
    BY <1>1, <2>1
<1>6. Bien(n) /\ g[n] \in Seq(T)
  BY <1>1, <1>2, <1>5
<1>7. QED
  BY <1>2, <1>6 DEF SinEl

\* The line of the position is not skipped.
LEMMA LoQueQueda ==
  ASSUME NEW ls \in Seq(Linea), UnaPorPosicion(ls), NEW p
  PROVE  \E ss : /\ ConUnoMenos(p, ls) = FlattenSeq(ss) /\ ss \in Seq(Seq(Linea)) /\ Len(ss) = Len(ls)
                 /\ \A i \in 1..Len(ls) :
                      ss[i] = IF ls[i].pos # p THEN <<ls[i]>>
                              ELSE IF ls[i].cantidad = 1 THEN <<>>
                              ELSE <<[ls[i] EXCEPT !.cantidad = ls[i].cantidad - 1]>>
<1> DEFINE n == Len(ls)
           S == BOOLEAN
           paso == [i \in 1..n |-> [v \in S |-> i > 1 /\ ls[i - 1].pos = p /\ ls[i - 1].cantidad = 1 /\ ~v]]
<1>1. n \in Nat /\ DOMAIN ls = 1..n /\ \A i \in 1..n : ls[i] \in Linea
  BY LenProperties, ElementOfSeq
<1>2. paso \in Pasos(S, n) /\ FALSE \in S
  BY DEF Pasos
<1>3. PICK g : EsCadena(g, S, n, FALSE, paso)
  <2> HIDE DEF paso, n, S
  <2>1. QED
    BY <1>1, <1>2, HayCadena
<1>4. /\ g \in [0..n -> S]
      /\ \A i \in 1..n : g[i] = (i > 1 /\ ls[i - 1].pos = p /\ ls[i - 1].cantidad = 1 /\ ~g[i - 1])
  <2>1. g \in [0..n -> S] /\ \A i \in 1..n : g[i] = paso[i][g[i - 1]]
    BY <1>3 DEF EsCadena
  <2>2. \A i \in 1..n : i - 1 \in 0..n
    BY <1>1
  <2>3. QED
    BY <2>1, <2>2
<1> DEFINE Ec(it) == it = [i \in DOMAIN ls |->
                             i > 1 /\ ls[i - 1].pos = p /\ ls[i - 1].cantidad = 1 /\ ~it[i - 1]]
           c == CHOOSE it : Ec(it)
           h == [i \in DOMAIN ls |-> g[i]]
           ss == [i \in DOMAIN ls |->
                    IF ls[i].pos # p \/ c[i] THEN <<ls[i]>>
                    ELSE IF ls[i].cantidad = 1 THEN <<>>
                    ELSE <<[ls[i] EXCEPT !.cantidad = ls[i].cantidad - 1]>>]
<1>5. ConUnoMenos(p, ls) = FlattenSeq(ss)
  BY DEF ConUnoMenos
<1>6. Ec(c)
  <2>1. ASSUME NEW i \in DOMAIN ls
        PROVE  g[i] = (i > 1 /\ ls[i - 1].pos = p /\ ls[i - 1].cantidad = 1 /\ ~h[i - 1])
    <3>1. CASE i > 1
      <4>1. i - 1 \in DOMAIN ls
        BY <1>1, <3>1
      <4>2. h[i - 1] = g[i - 1]
        BY <4>1
      <4> HIDE DEF h
      <4>3. QED
        BY <1>1, <1>4, <4>2
    <3>2. CASE ~(i > 1)
      <4> HIDE DEF h
      <4>1. QED
        BY <1>1, <1>4, <3>2
    <3>3. QED
      BY <3>1, <3>2
  <2>2. Ec(h)
    BY <2>1
  <2> HIDE DEF Ec, h
  <2>3. QED
    BY <2>2
<1>7. \A i \in DOMAIN ls : c[i] => i > 1 /\ ls[i - 1].pos = p
  <2> HIDE DEF c
  <2>1. QED
    BY <1>6
<1>8. \A i \in DOMAIN ls : ls[i].pos = p => ~c[i]
  <2> SUFFICES ASSUME NEW i \in DOMAIN ls, ls[i].pos = p, c[i] PROVE FALSE
    OBVIOUS
  <2> HIDE DEF c
  <2>1. i > 1 /\ ls[i - 1].pos = p
    BY <1>7
  <2>2. i - 1 \in DOMAIN ls /\ i - 1 # i
    BY <1>1, <2>1
  <2>3. QED
    BY <2>1, <2>2 DEF UnaPorPosicion
<1> HIDE DEF c
<1>9. \A i \in 1..n : ss[i] = IF ls[i].pos # p THEN <<ls[i]>>
                              ELSE IF ls[i].cantidad = 1 THEN <<>>
                              ELSE <<[ls[i] EXCEPT !.cantidad = ls[i].cantidad - 1]>>
  BY <1>1, <1>8
<1>10. ss \in Seq(Seq(Linea)) /\ Len(ss) = n
  <2>1. ASSUME NEW i \in 1..n
        PROVE  ss[i] \in Seq(Linea)
    <3>1. ls[i].cantidad # 1 => [ls[i] EXCEPT !.cantidad = ls[i].cantidad - 1] \in Linea
      BY <1>1 DEF Linea
    <3>2. <<>> \in Seq(Linea) /\ <<ls[i]>> \in Seq(Linea)
      BY <1>1, EmptySeq
    <3>3. ls[i].cantidad # 1 => <<[ls[i] EXCEPT !.cantidad = ls[i].cantidad - 1]>> \in Seq(Linea)
      BY <3>1
    <3>4. QED
      BY <1>9, <3>2, <3>3
  <2>2. ss \in [1..n -> Seq(Linea)]
    BY <1>1, <2>1
  <2> HIDE DEF ss
  <2>3. QED
    BY <1>1, <2>2, EsLista
<1> HIDE DEF ss
<1>11. QED
  BY <1>5, <1>9, <1>10

\* A line that counts one less, or a line less.
LEMMA UnoMenos ==
  ASSUME NEW ls \in Seq(Linea), UnaPorPosicion(ls), NEW p, CoordinateExists(p, ls)
  PROVE  /\ UnaPorPosicion(ConUnoMenos(p, ls))
         /\ Len(ConUnoMenos(p, ls)) \in {Len(ls), Len(ls) - 1}
         /\ Cantidad(p, ConUnoMenos(p, ls)) = Cantidad(p, ls) - 1
         /\ \A q : q # p => Cantidad(q, ConUnoMenos(p, ls)) = Cantidad(q, ls)
<1> DEFINE n == Len(ls)
           t == ConUnoMenos(p, ls)
<1>1. n \in Nat /\ DOMAIN ls = 1..n /\ \A i \in 1..n : ls[i] \in Linea /\ ls[i].cantidad \in Nat \ {0}
  <2>1. n \in Nat /\ DOMAIN ls = 1..n /\ \A i \in 1..n : ls[i] \in Linea
    BY LenProperties, ElementOfSeq
  <2>2. QED
    BY <2>1 DEF Linea
<1>2. PICK ss : /\ t = FlattenSeq(ss) /\ ss \in Seq(Seq(Linea)) /\ Len(ss) = n
                /\ \A i \in 1..n :
                     ss[i] = IF ls[i].pos # p THEN <<ls[i]>>
                             ELSE IF ls[i].cantidad = 1 THEN <<>>
                             ELSE <<[ls[i] EXCEPT !.cantidad = ls[i].cantidad - 1]>>
  BY LoQueQueda
<1>3. PICK x \in 1..n : ls[x].pos = p
  BY <1>1 DEF CoordinateExists
<1>4. \A i \in 1..n : ls[i].pos = p <=> i = x
  BY <1>1, <1>3 DEF UnaPorPosicion
<1>5. Cantidad(p, ls) = ls[x].cantidad
  BY <1>1, <1>3, CantidadDeUno
<1>6. t \in Seq(Linea)
  BY ConUnoMenosTipo
<1> HIDE DEF t
<1>7. DOMAIN t = 1..Len(t) /\ Len(t) \in Nat /\ \A i \in 1..Len(t) : t[i] \in Linea /\ t[i].cantidad \in Nat
  <2>1. DOMAIN t = 1..Len(t) /\ Len(t) \in Nat /\ \A i \in 1..Len(t) : t[i] \in Linea
    BY <1>6, LenProperties, ElementOfSeq
  <2>2. QED
    BY <2>1 DEF Linea
<1>8. CASE ls[x].cantidad # 1
  <2> DEFINE l == [ls[x] EXCEPT !.cantidad = ls[x].cantidad - 1]
             u == [i \in 1..n |-> IF i = x THEN l ELSE ls[i]]
  <2>1. l \in Linea /\ l.pos = p /\ l.cantidad = ls[x].cantidad - 1
    BY <1>1, <1>3, <1>8 DEF Linea
  <2> HIDE DEF l
  <2>2. u \in Seq(Linea) /\ Len(u) = n
    <3>1. u \in [1..n -> Linea]
      BY <1>1, <2>1
    <3> HIDE DEF u
    <3>2. QED
      BY <1>1, <3>1, EsLista
  <2>3. Unos(ss, u, n + 1)
    <3>1. ASSUME NEW i \in 1..n
          PROVE  ss[i] = <<u[i]>> /\ i # n + 1
      <4>1. CASE i = x
        <5>1. ss[i] = <<l>> /\ u[i] = l
          BY <1>2, <1>4, <1>8, <4>1 DEF l
        <5>2. QED
          BY <1>1, <5>1
      <4>2. CASE i # x
        <5>1. ss[i] = <<ls[i]>> /\ u[i] = ls[i]
          BY <1>2, <1>4, <4>2
        <5>2. QED
          BY <1>1, <5>1
      <4>3. QED
        BY <4>1, <4>2
    <3> HIDE DEF u
    <3>2. QED
      BY <2>2, <3>1 DEF Unos
  <2>4. Len(t) = n /\ \A j \in 1..n : t[j] = u[j]
    <3> HIDE DEF u
    <3> DEFINE k == n + 1
    <3>1. k \in 1..(Len(u) + 1) /\ Len(ss) = Len(u) /\ ~(k <= Len(u))
          /\ Unos(ss, u, k) /\ u \in Seq(Linea)
      BY <1>1, <1>2, <2>2, <2>3
    <3>2. \A j \in 1..n : j < k
      BY <1>1
    <3> HIDE DEF k
    <3>3. SinEl(t, u, k)
      BY <1>2, <3>1, AplanarUnos
    <3>4. QED
      BY <2>2, <3>1, <3>2, <3>3 DEF SinEl
  <2>5. DOMAIN t = DOMAIN ls
    BY <1>1, <1>7, <2>4
  <2>6. \A i \in DOMAIN ls : /\ t[i].pos = ls[i].pos
                             /\ t[i].cantidad = IF i = x THEN ls[i].cantidad - 1 ELSE ls[i].cantidad
                             /\ t[i].cantidad \in Nat
    BY <1>1, <1>3, <1>7, <2>1, <2>4, <2>5
  <2>7. UnaPorPosicion(t)
    BY <2>5, <2>6 DEF UnaPorPosicion
  <2>8. Cantidad(p, t) = Cantidad(p, ls) - 1
    <3>1. x \in DOMAIN t /\ t[x].pos = p
      BY <1>1, <1>3, <2>5, <2>6
    <3>2. Cantidad(p, t) = t[x].cantidad
      BY <2>5, <2>6, <2>7, <3>1, CantidadDeUno
    <3>3. QED
      BY <1>5, <2>5, <2>6, <3>1, <3>2
  <2>9. ASSUME NEW q, q # p
        PROVE  Cantidad(q, t) = Cantidad(q, ls)
    <3>1. CASE CoordinateExists(q, ls)
      <4>1. PICK i \in DOMAIN ls : ls[i].pos = q
        BY <3>1 DEF CoordinateExists
      <4>2. Cantidad(q, ls) = ls[i].cantidad
        BY <1>1, <4>1, CantidadDeUno
      <4>3. Cantidad(q, t) = t[i].cantidad
        BY <2>5, <2>6, <2>7, <4>1, CantidadDeUno
      <4>4. i # x
        BY <1>3, <2>9, <4>1
      <4>5. QED
        BY <2>6, <4>1, <4>2, <4>3, <4>4
    <3>2. CASE ~CoordinateExists(q, ls)
      <4>1. ~CoordinateExists(q, t)
        BY <2>5, <2>6, <3>2 DEF CoordinateExists
      <4>2. QED
        BY <2>7, <3>2, <4>1, CantidadDeUno
    <3>3. QED
      BY <3>1, <3>2
  <2>10. QED
    BY <2>4, <2>7, <2>8, <2>9 DEF t
<1>9. CASE ls[x].cantidad = 1
  <2>1. Unos(ss, ls, x)
    BY <1>2, <1>4, <1>9 DEF Unos
  <2>2. x \in 1..(n + 1) /\ x <= n /\ x \in Nat
    BY <1>1
  <2>3. Len(t) = n - 1 /\ \A j \in 1..Len(t) : t[j] = IF j < x THEN ls[j] ELSE ls[j + 1]
    BY <1>2, <2>1, <2>2, AplanarUnos DEF SinEl
  <2> DEFINE m(j) == IF j < x THEN j ELSE j + 1
  <2>4. \A j \in DOMAIN t : m(j) \in DOMAIN ls /\ m(j) # x /\ t[j] = ls[m(j)]
    BY <1>1, <1>7, <2>2, <2>3
  <2>5. \A i, j \in DOMAIN t : m(i) = m(j) => i = j
    BY <1>7, <2>2
  <2>6. \A i \in DOMAIN ls : i # x => \E j \in DOMAIN t : m(j) = i
    <3> SUFFICES ASSUME NEW i \in DOMAIN ls, i # x PROVE \E j \in DOMAIN t : m(j) = i
      OBVIOUS
    <3>1. CASE i < x
      <4>1. i \in DOMAIN t /\ m(i) = i
        BY <1>1, <1>7, <2>2, <2>3, <3>1
      <4>2. QED
        BY <4>1
    <3>2. CASE ~(i < x)
      <4>1. i - 1 \in DOMAIN t /\ m(i - 1) = i
        BY <1>1, <1>7, <2>2, <2>3, <3>2
      <4>2. QED
        BY <4>1
    <3>3. QED
      BY <3>1, <3>2
  <2> HIDE DEF m
  <2>7. UnaPorPosicion(t)
    <3> SUFFICES ASSUME NEW i \in DOMAIN t, NEW j \in DOMAIN t, t[i].pos = t[j].pos PROVE i = j
      BY DEF UnaPorPosicion
    <3>1. m(i) = m(j)
      BY <2>4 DEF UnaPorPosicion
    <3>2. QED
      BY <2>5, <3>1
  <2>8. Cantidad(p, t) = 0
    <3>1. ~CoordinateExists(p, t)
      BY <1>1, <1>4, <2>4 DEF CoordinateExists
    <3>2. QED
      BY <2>7, <3>1, CantidadDeUno
  <2>9. ASSUME NEW q, q # p
        PROVE  Cantidad(q, t) = Cantidad(q, ls)
    <3>1. CASE CoordinateExists(q, ls)
      <4>1. PICK i \in DOMAIN ls : ls[i].pos = q
        BY <3>1 DEF CoordinateExists
      <4>2. PICK j \in DOMAIN t : m(j) = i
        BY <1>3, <2>6, <2>9, <4>1
      <4>3. Cantidad(q, ls) = ls[i].cantidad
        BY <1>1, <4>1, CantidadDeUno
      <4>4. t[j] = ls[i]
        BY <2>4, <4>2
      <4>5. Cantidad(q, t) = t[j].cantidad
        BY <1>1, <2>7, <4>1, <4>4, CantidadDeUno
      <4>6. QED
        BY <4>3, <4>4, <4>5
    <3>2. CASE ~CoordinateExists(q, ls)
      <4>1. ~CoordinateExists(q, t)
        BY <2>4, <3>2 DEF CoordinateExists
      <4>2. QED
        BY <2>7, <3>2, <4>1, CantidadDeUno
    <3>3. QED
      BY <3>1, <3>2
  <2>10. QED
    BY <1>5, <1>9, <2>3, <2>7, <2>8, <2>9 DEF t
<1>10. QED
  BY <1>8, <1>9

\* Blocks that hold the pieces of some lines, one each, hold the lines.
LEMMA Trozos ==
  ASSUME NEW f \in Cortos, NEW bs \in Seq(Bloques), NEW ls \in Seq(Linea), ls # <<>>,
         Len(bs) = BlocksOcupados(f, Len(ls)),
         NEW b \in [Bloques -> Seq(Linea)], \A i \in 1..Len(bs) : b[bs[i]] = Trozo(f, ls, i)
  PROVE  LineasDe(f, bs, b) = ls
<1> DEFINE n == Len(bs)
           m == Len(ls)
           L == LINEAS_POR_BLOQUE
           ss == [i \in DOMAIN bs |-> b[bs[i]]]
<1>1. /\ n \in Nat \ {0} /\ m \in Nat \ {0} /\ L \in Nat \ {0}
      /\ DOMAIN bs = 1..n /\ \A i \in 1..n : bs[i] \in Bloques
  <2>1. Len(ls) \in Nat /\ Len(ls) # 0 /\ n \in Nat /\ DOMAIN bs = 1..n
    BY EmptySeq, LenProperties
  <2>2. \A i \in 1..n : bs[i] \in Bloques
    BY ElementOfSeq
  <2>3. BlocksOcupados(f, Len(ls)) \in Nat \ {0}
    BY <2>1, DeCortos, BlocksOcupadosTipo
  <2>4. QED
    BY <2>1, <2>2, <2>3, GameCardAssumption
<1>2. m <= n * L /\ (n - 1) * L < m
  BY <1>1, OcupaAlcanza
<1>3. ss \in Seq(Seq(Linea)) /\ Len(ss) = n
  <2>1. ss \in [1..n -> Seq(Linea)]
    BY <1>1
  <2> HIDE DEF ss
  <2>2. QED
    BY <1>1, <2>1, EsLista
<1>4. \A i \in 1..n : ss[i] = Trozo(f, ls, i)
  BY <1>1
<1>5. LineasDe(f, bs, b) = FlattenSeq(ss)
  BY DeCortos
<1> HIDE DEF ss
<1>6. PICK g : /\ g \in [0..n -> Seq(Linea)] /\ g[0] = <<>>
               /\ \A i \in 1..n : g[i] = g[i - 1] \o ss[i]
               /\ FlattenSeq(ss) = g[n]
  <2> DEFINE k == Len(ss)
  <2>1. \E g : /\ g \in [0..k -> Seq(Linea)] /\ g[0] = <<>>
               /\ \A i \in 1..k : g[i] = g[i - 1] \o ss[i]
               /\ FlattenSeq(ss) = g[k]
    BY <1>3, Aplanar
  <2>2. k = n
    BY <1>3
  <2> HIDE DEF k
  <2>3. QED
    BY <2>1, <2>2
<1> HIDE DEF n, m, L
<1> DEFINE M == {i \in 0..n : g[i] = SubSeq(ls, 1, Hasta(i, ls))}
<1>7. 0 \in M
  <2>1. 0 * L = 0 /\ 0 < m
    BY <1>1
  <2>2. Hasta(0, ls) = 0
    BY <2>1 DEF Hasta, L, m
  <2>3. SubSeq(ls, 1, 0) = <<>>
    BY SubSeqEmpty
  <2>4. QED
    BY <1>1, <1>6, <2>2, <2>3
<1>8. ASSUME NEW i \in 1..n, i - 1 \in M
      PROVE  i \in M
  <2> DEFINE x == (i - 1) * L
  <2>1. i \in Nat /\ i - 1 \in 0..n /\ i \in 0..n /\ n - 1 \in Nat /\ i - 1 \in Nat /\ i - 1 <= n - 1
    BY <1>1
  <2>2. x \in Nat /\ i * L = x + L /\ x <= (n - 1) * L
    BY <1>1, <2>1
  <2>3. (n - 1) * L \in Nat
    BY <1>1, <2>1
  <2>4. x < m /\ x < x + L
    <3> HIDE DEF x
    <3>1. QED
      BY <1>1, <1>2, <2>2, <2>3
  <2> DEFINE y == Hasta(i, ls)
  <2>5. Hasta(i - 1, ls) = x
    BY <2>4 DEF Hasta, m, L
  <2>6. y = IF x + L < m THEN x + L ELSE m
    BY <2>2 DEF Hasta, m, L
  <2>7. ss[i] = SubSeq(ls, (i * L) - L + 1, y)
    BY <1>4, <2>1, DeCortos DEF L
  <2>8. (i * L) - L + 1 = x + 1
    <3> HIDE DEF x, y
    <3>1. QED
      BY <1>1, <2>2
  <2>9. g[i - 1] = SubSeq(ls, 1, x)
    BY <1>8, <2>5
  <2>10. x <= y /\ y <= m /\ y \in Nat
    <3> HIDE DEF x, y
    <3>1. QED
      BY <1>1, <2>2, <2>4, <2>6
  <2> HIDE DEF x, y
  <2>11. SubSeq(ls, 1, x) \o SubSeq(ls, x + 1, y) = SubSeq(ls, 1, y)
    <3>1. 1 \in 1..(m + 1) /\ x \in 0..m /\ x \in 1-1..m /\ y \in x..m
      BY <1>1, <2>2, <2>10
    <3>2. QED
      BY <3>1, ConcatAdjacentSubSeq DEF m
  <2>12. g[i] = SubSeq(ls, 1, y)
    BY <1>6, <2>7, <2>8, <2>9, <2>11
  <2>13. QED
    BY <2>1, <2>12 DEF y
<1>9. n \in M
  <2> HIDE DEF M
  <2>1. n \in Nat
    BY <1>1
  <2>2. \A i \in 0..n : i \in M
    BY <1>7, <1>8, <2>1, EnCadaVuelta
  <2>3. QED
    BY <2>1, <2>2
<1>10. Hasta(n, ls) = m
  <2>1. n * L \in Nat
    BY <1>1
  <2>2. ~(n * L < m)
    BY <1>1, <1>2, <2>1
  <2>3. QED
    BY <2>2 DEF Hasta, m, L
<1>11. g[n] = SubSeq(ls, 1, m)
  BY <1>9, <1>10
<1>12. SubSeq(ls, 1, m) = ls
  BY SubSeqFull DEF m
<1>13. QED
  BY <1>5, <1>6, <1>11, <1>12

------------------------------------------------------------------------------
(* The content of the files. *)

\* The list bs of blocks holds the lines ls, in as many blocks as they need: of a file whose
\* lines fit in a block.
Contiene(f, bs, ls) == f \in Cortos => LineasDe(f, bs, bloque) = ls /\ Justos(f, bs, ls)

\* h is changing the blocks of the file it has open.
Flujo(h) == ~creando[h] /\ hizo[h] # "nada" /\ pc[h] \in {"escribir", "metadata"}
Estable(f) == meta[f].existe # "roto" /\ \A h \in Hilos : Flujo(h) => Archivo(h) # f

\* What a thread has done to the file f and has not answered yet; a file that it creates has
\* its pokemon when the Metadata.bin gets its block.
Cuenta(h, f, p, w) ==
  /\ Trabaja(h, f) /\ Pedido(h).pos = p /\ hizo[h] = w
  /\ ~(creando[h] /\ pc[h] \in {"escribir", "metadata"})
Pendientes(f, p, w) == Cardinality({h \in Hilos : Cuenta(h, f, p, w)})

\* What the thread knows of its lines and its blocks, by where it is.
Temprano(h) ==
  \/ pc[h] \in {"espera", "crear", "leer", "abrir", "bloques", "pedir", "marcar"}
  \/ pc[h] = "guardar" /\ sigue[h] \in {"bloques", "pedir"}
Escribiendo(h) ==
  /\ lineas[h] # <<>> /\ Len(lista[h]) = BlocksOcupados(Archivo(h), Len(lineas[h]))
  /\ hizo[h] = "nada" => escritos[h] = 0 /\ Pedido(h).op = "NEW"
  /\ hizo[h] = "atrapado" => Pedido(h).op # "NEW"
  /\ \A i \in 1..escritos[h] : bloque[lista[h][i]] = Trozo(Archivo(h), lineas[h], i)
ParaCrear(h) ==
  /\ creando[h]
  /\ pc[h] \in {"crear", "pedir", "marcar", "escribir", "metadata"} \/ PorCrear(h)
ParaAgregar(h) ==
  /\ ~creando[h]
  /\ pc[h] \in {"pedir", "marcar"} \/ (pc[h] = "escribir" /\ hizo[h] = "nada")
EnCorto(h) ==
  /\ pc[h] \in {"pedir", "marcar"} => Len(lista[h]) < BlocksOcupados(Archivo(h), Len(lineas[h]))
  /\ pc[h] = "escribir" => Escribiendo(h)
  /\ pc[h] = "metadata" => Contiene(Archivo(h), lista[h], lineas[h]) /\ hizo[h] # "nada"
  /\ ParaCrear(h) => vista[h].bloques = <<>> /\ lineas[h] = ConUnoMas(Pedido(h).pos, <<>>)
EnLinea(h) ==
  /\ Temprano(h) => escritos[h] = 0 /\ hizo[h] = "nada"
  /\ pc[h] = "escribir" => escritos[h] < Len(lista[h])
  /\ pc[h] = "vaciar" /\ lineas[h] # <<>> => tomado[h] \notin bitmap
  /\ pc[h] = "guardar" /\ sigue[h] = "vaciar" => lineas[h] = <<>>
  /\ Archivo(h) \in Cortos => EnCorto(h)

\* K is the content of the files, as their last change left it or is about to.
EnCurso(h, K) ==
  Archivo(h) \in Cortos =>
    /\ Flujo(h) => lineas[h] = K[Archivo(h)]
    /\ pc[h] = "guardar" => Contiene(Archivo(h), lista[h], K[Archivo(h)])
    /\ ParaAgregar(h) => lineas[h] = ConUnoMas(Pedido(h).pos, K[Archivo(h)])
Validas(K) == K \in [Archivos -> Seq(Linea)] /\ \A f \in Archivos : UnaPorPosicion(K[f])
Saldo(K) ==
  \A f \in Cortos, p \in Posiciones :
    Cantidad(p, K[f]) = hecho[f][p] + Pendientes(f, p, "guardado") - Pendientes(f, p, "atrapado")
EnArchivos(K) == \A f \in Archivos : Estable(f) => Contiene(f, meta[f].bloques, K[f])
SinArchivo == \A f \in Archivos : meta[f].existe = "no" => meta[f].bloques = <<>>
Fiel(K) ==
  /\ Validas(K) /\ Saldo(K) /\ EnArchivos(K) /\ SinArchivo
  /\ \A h \in Hilos : EnLinea(h) /\ EnCurso(h, K)

------------------------------------------------------------------------------
(* Counting what is not answered yet. *)

\* Two finite sets that differ in one element at most.
LEMMA UnElemento ==
  ASSUME NEW A, NEW B, IsFiniteSet(A), IsFiniteSet(B), NEW k,
         \A x : x # k => (x \in A <=> x \in B)
  PROVE  /\ Cardinality(A) \in Nat /\ Cardinality(B) \in Nat
         /\ Cardinality(A) + Bit(k \in B) = Cardinality(B) + Bit(k \in A)
<1>1. Cardinality(A) \in Nat /\ Cardinality(B) \in Nat
  BY FS_CardinalityType
<1>2. k \in A /\ k \notin B => A = B \cup {k}
  OBVIOUS
<1>3. k \in B /\ k \notin A => B = A \cup {k}
  OBVIOUS
<1>4. (k \in A <=> k \in B) => A = B
  OBVIOUS
<1>5. k \notin B => Cardinality(B \cup {k}) = Cardinality(B) + 1
  BY FS_AddElement
<1>6. k \notin A => Cardinality(A \cup {k}) = Cardinality(A) + 1
  BY FS_AddElement
<1>7. CASE k \in A /\ k \notin B
  <2>1. Bit(k \in A) = 1 /\ Bit(k \in B) = 0
    BY <1>7 DEF Bit
  <2>2. Cardinality(A) = Cardinality(B) + 1
    BY <1>2, <1>5, <1>7
  <2>3. QED
    BY <1>1, <2>1, <2>2
<1>8. CASE k \in B /\ k \notin A
  <2>1. Bit(k \in B) = 1 /\ Bit(k \in A) = 0
    BY <1>8 DEF Bit
  <2>2. Cardinality(B) = Cardinality(A) + 1
    BY <1>3, <1>6, <1>8
  <2>3. QED
    BY <1>1, <2>1, <2>2
<1>9. CASE k \in A <=> k \in B
  <2>1. A = B
    BY <1>4, <1>9
  <2>2. QED
    BY <1>1, <2>1
<1>10. QED
  BY <1>7, <1>8, <1>9

LEMMA CuentaCambia ==
  ASSUME NEW h \in Hilos, NEW f, NEW p, NEW w,
         \A k \in Hilos \ {h} : Cuenta(k, f, p, w)' <=> Cuenta(k, f, p, w)
  PROVE  /\ Pendientes(f, p, w) \in Nat /\ Pendientes(f, p, w)' \in Nat
         /\ Pendientes(f, p, w)' + Bit(Cuenta(h, f, p, w)) = Pendientes(f, p, w) + Bit(Cuenta(h, f, p, w)')
<1> DEFINE A == {k \in Hilos : Cuenta(k, f, p, w)'}
           B == {k \in Hilos : Cuenta(k, f, p, w)}
<1>1. IsFiniteSet(A) /\ IsFiniteSet(B)
  BY GameCardAssumption, FS_Subset
<1>2. Pendientes(f, p, w)' = Cardinality(A) /\ Pendientes(f, p, w) = Cardinality(B)
  BY DEF Pendientes
<1>3. \A x : x # h => (x \in A <=> x \in B)
  OBVIOUS
<1>4. (h \in A <=> Cuenta(h, f, p, w)') /\ (h \in B <=> Cuenta(h, f, p, w))
  OBVIOUS
<1>5. Bit(h \in A) = Bit(Cuenta(h, f, p, w)') /\ Bit(h \in B) = Bit(Cuenta(h, f, p, w))
  <2> HIDE DEF A, B
  <2>1. QED
    BY <1>4 DEF Bit
<1> HIDE DEF A, B
<1>6. /\ Cardinality(A) \in Nat /\ Cardinality(B) \in Nat
      /\ Cardinality(A) + Bit(h \in B) = Cardinality(B) + Bit(h \in A)
  BY <1>1, <1>3, UnElemento
<1>7. QED
  BY <1>2, <1>5, <1>6

\* Only h steps.
Ajenos(h) == \A k \in Hilos \ {h} : Igual(k) /\ escritos'[k] = escritos[k]

LEMMA CuentaAjena ==
  ASSUME NEW k \in Hilos, Igual(k)
  PROVE  \A f, p, w : Cuenta(k, f, p, w)' <=> Cuenta(k, f, p, w)
<1>1. Pedido(k)' = Pedido(k) /\ Archivo(k)' = Archivo(k)
  BY DEF Igual, Pedido, Archivo
<1>2. QED
  BY <1>1 DEF Igual, Cuenta, Trabaja

\* What is answered and what h has done.
Suma(h, f, p) == hecho[f][p] + Bit(Cuenta(h, f, p, "guardado")) - Bit(Cuenta(h, f, p, "atrapado"))

LEMMA Cuadra ==
  ASSUME NEW i \in Int, NEW j \in Int, NEW g \in Int, NEW g2 \in Int, NEW a \in Int, NEW a2 \in Int,
         NEW x \in Int, NEW x2 \in Int, NEW y \in Int, NEW y2 \in Int, NEW c, NEW c2,
         g2 + x = g + x2, a2 + y = a + y2, c = i + g - a, c2 = c + (j + x2 - y2) - (i + x - y)
  PROVE  c2 = j + g2 - a2
OBVIOUS

\* The content changes by what h does or answers.
LEMMA SaldoPaso ==
  ASSUME Cuentas, Cuentas', NEW K, NEW K2, Saldo(K), NEW h \in Hilos, Ajenos(h),
         \A f \in Cortos, p \in Posiciones :
           Cantidad(p, K2[f]) = Cantidad(p, K[f]) + Suma(h, f, p)' - Suma(h, f, p)
  PROVE  Saldo(K2)'
<1> SUFFICES ASSUME NEW f \in Cortos, NEW p \in Posiciones
             PROVE  Cantidad(p, K2[f]) =
                      hecho'[f][p] + Pendientes(f, p, "guardado")' - Pendientes(f, p, "atrapado")'
  BY DEF Saldo
<1>1. hecho[f][p] \in Int /\ hecho'[f][p] \in Int
  BY DeCortos DEF Cuentas
<1>2. \A w : \A k \in Hilos \ {h} : Cuenta(k, f, p, w)' <=> Cuenta(k, f, p, w)
  BY CuentaAjena DEF Ajenos
<1> DEFINE g  == Pendientes(f, p, "guardado")
           a  == Pendientes(f, p, "atrapado")
           x  == Bit(Cuenta(h, f, p, "guardado"))
           y  == Bit(Cuenta(h, f, p, "atrapado"))
           c  == Cantidad(p, K[f])
           c2 == Cantidad(p, K2[f])
<1>3. g \in Nat /\ g' \in Nat /\ g' + x = g + x'
  BY <1>2, CuentaCambia DEF Bit
<1>4. a \in Nat /\ a' \in Nat /\ a' + y = a + y'
  BY <1>2, CuentaCambia DEF Bit
<1>5. x \in Int /\ x' \in Int /\ y \in Int /\ y' \in Int
  BY DEF Bit
<1>6. c = hecho[f][p] + g - a
  BY DEF Saldo
<1>7. c2 = c + (hecho'[f][p] + x' - y') - (hecho[f][p] + x - y)
  BY DEF Suma
<1> HIDE DEF g, a, x, y, c, c2
<1>8. c2 = hecho'[f][p] + g' - a'
  <2>1. g \in Int /\ g' \in Int /\ a \in Int /\ a' \in Int
    BY <1>3, <1>4
  <2>2. QED
    BY <1>1, <1>3, <1>4, <1>5, <1>6, <1>7, <2>1, Cuadra
<1>9. QED
  BY <1>8 DEF g, a, c2

------------------------------------------------------------------------------
(* Steps of one thread and the content. *)

LEMMA ConLineaEnMano ==
  ASSUME NEW k \in Hilos, pc[k] \in {"escribir", "metadata", "guardar"}
  PROVE  Range(lista[k]) \subseteq EnMano(k)
BY DEF EnMano, ConLista

\* A step of another thread that leaves the blocks of k alone.
LEMMA AjenoFiel ==
  ASSUME Tipos, Resto, NEW K, NEW K2, NEW k \in Hilos, Igual(k), escritos'[k] = escritos[k],
         EnLinea(k), EnCurso(k, K),
         \A x \in EnMano(k) : bloque'[x] = bloque[x],
         pc[k] = "vaciar" /\ lineas[k] # <<>> => tomado[k] \notin bitmap',
         ConElAbierto(k) \/ pc[k] = "guardar" => K2[Archivo(k)] = K[Archivo(k)]
  PROVE  EnLinea(k)' /\ EnCurso(k, K2)'
<1>1. /\ Pedido(k)' = Pedido(k) /\ Archivo(k)' = Archivo(k)
      /\ pc'[k] = pc[k] /\ sigue'[k] = sigue[k] /\ creando'[k] = creando[k] /\ vista'[k] = vista[k]
      /\ lista'[k] = lista[k] /\ lineas'[k] = lineas[k] /\ tomado'[k] = tomado[k]
      /\ hizo'[k] = hizo[k] /\ escritos'[k] = escritos[k]
  BY DEF Igual, Pedido, Archivo
<1>2. pc[k] \in {"escribir", "metadata", "guardar"} => \A x \in Range(lista[k]) : bloque'[x] = bloque[x]
  BY ConLineaEnMano
<1>4. lista[k] \in Seq(Bloques) /\ escritos[k] \in Nat
  BY DEF Tipos, Resto, Datos
<1>3. ASSUME pc[k] \in {"metadata", "guardar"}, Archivo(k) \in Cortos
      PROVE  LineasDe(Archivo(k), lista[k], bloque') = LineasDe(Archivo(k), lista[k], bloque)
  BY <1>2, <1>3, <1>4, LineasIguales
<1>5. ASSUME pc[k] = "escribir", Archivo(k) \in Cortos
      PROVE  Escribiendo(k)'
  <2>1. Escribiendo(k) /\ escritos[k] < Len(lista[k])
    BY <1>5 DEF EnLinea, EnCorto
  <2>2. ASSUME NEW i \in 1..escritos[k]
        PROVE  bloque'[lista[k][i]] = Trozo(Archivo(k), lineas[k], i)
    <3>1. i \in DOMAIN lista[k]
      BY <1>4, <2>1, LenProperties
    <3>2. lista[k][i] \in Range(lista[k])
      BY <3>1 DEF Range
    <3>3. QED
      BY <1>2, <1>5, <2>1, <3>2 DEF Escribiendo
  <2>3. QED
    BY <1>1, <2>1, <2>2 DEF Escribiendo
<1>6. EnLinea(k)'
  <2>1. /\ Temprano(k)' = Temprano(k) /\ ParaCrear(k)' = ParaCrear(k)
    BY <1>1 DEF Temprano, ParaCrear, PorCrear
  <2>2. Archivo(k) \in Cortos /\ pc[k] = "metadata" => Contiene(Archivo(k), lista[k], lineas[k])'
    BY <1>1, <1>3 DEF EnLinea, EnCorto, Contiene
  <2>3. Archivo(k) \in Cortos => EnCorto(k)'
    BY <1>1, <1>5, <2>1, <2>2 DEF EnLinea, EnCorto
  <2>4. QED
    BY <1>1, <2>1, <2>3 DEF EnLinea
<1>7. EnCurso(k, K2)'
  <2>1. /\ Flujo(k)' = Flujo(k) /\ ParaAgregar(k)' = ParaAgregar(k)
        /\ Flujo(k) \/ ParaAgregar(k) => ConElAbierto(k)
    BY <1>1 DEF Flujo, ParaAgregar, ConElAbierto
  <2>2. ASSUME pc[k] = "guardar", Archivo(k) \in Cortos
        PROVE  Contiene(Archivo(k), lista[k], K2[Archivo(k)])'
    <3>1. Contiene(Archivo(k), lista[k], K2[Archivo(k)])
      BY <2>2 DEF EnCurso
    <3>2. QED
      BY <1>1, <1>3, <2>2, <3>1 DEF Contiene
  <2>3. QED
    BY <1>1, <2>1, <2>2 DEF EnCurso
<1>8. QED
  BY <1>6, <1>7

\* A step of h leaves alone the blocks that others have in hand, and those of the files but f0.
BloquesAjenos(h, f0) ==
  /\ \A k \in Hilos \ {h} : \A x \in EnMano(k) : bloque'[x] = bloque[x]
  /\ \A f \in Archivos \ {f0} : \A x \in Range(meta[f].bloques) : bloque'[x] = bloque[x]
VaciaAjenos(h) ==
  \A k \in Hilos \ {h} : pc[k] = "vaciar" /\ lineas[k] # <<>> => tomado[k] \notin bitmap'
NadieMas(h, f0) ==
  \A k \in Hilos \ {h} : ConElAbierto(k) \/ pc[k] = "guardar" => Archivo(k) # f0

LEMMA PasoFiel ==
  ASSUME Tipos, Resto, NEW K, Fiel(K), NEW K2, Validas(K2), NEW h \in Hilos, NEW f0 \in Archivos,
         Ajenos(h), BloquesAjenos(h, f0), VaciaAjenos(h),
         \A f \in Archivos \ {f0} : K2[f] = K[f] /\ meta'[f] = meta[f],
         K2 = K \/ NadieMas(h, f0),
         Flujo(h) => Archivo(h) = f0,
         EnLinea(h)', EnCurso(h, K2)', Saldo(K2)',
         Estable(f0)' => Contiene(f0, meta[f0].bloques, K2[f0])',
         meta'[f0].existe = "no" => meta'[f0].bloques = <<>>
  PROVE  Fiel(K2)'
<1>1. ASSUME NEW k \in Hilos \ {h}
      PROVE  EnLinea(k)' /\ EnCurso(k, K2)'
  <2>1. ConElAbierto(k) \/ pc[k] = "guardar" => Archivo(k) \in Archivos
    BY PedidoValido DEF ConElAbierto
  <2>2. ConElAbierto(k) \/ pc[k] = "guardar" => K2[Archivo(k)] = K[Archivo(k)]
    BY <2>1 DEF NadieMas
  <2>3. Igual(k) /\ escritos'[k] = escritos[k] /\ EnLinea(k) /\ EnCurso(k, K)
    BY DEF Ajenos, Fiel
  <2>4. /\ \A x \in EnMano(k) : bloque'[x] = bloque[x]
        /\ pc[k] = "vaciar" /\ lineas[k] # <<>> => tomado[k] \notin bitmap'
    BY DEF BloquesAjenos, VaciaAjenos
  <2>5. QED
    BY <2>2, <2>3, <2>4, AjenoFiel
<1>2. \A k \in Hilos \ {h} : Flujo(k)' = Flujo(k) /\ Archivo(k)' = Archivo(k)
  BY DEF Ajenos, Igual, Flujo, Archivo, Pedido
<1>3. ASSUME NEW f \in Archivos, f # f0, Estable(f)'
      PROVE  Contiene(f, meta[f].bloques, K2[f])'
  <2>1. meta'[f] = meta[f] /\ K2[f] = K[f]
    BY <1>3
  <2>2. Estable(f)
    BY <1>2, <1>3, <2>1 DEF Estable
  <2>3. Contiene(f, meta[f].bloques, K[f]) /\ meta[f].bloques \in Seq(Bloques)
    BY <2>2 DEF Fiel, EnArchivos, Tipos, MetadataBin
  <2>4. f \in Cortos => LineasDe(f, meta[f].bloques, bloque') = LineasDe(f, meta[f].bloques, bloque)
    BY <1>3, <2>3, LineasIguales DEF BloquesAjenos
  <2>5. QED
    BY <2>1, <2>3, <2>4 DEF Contiene
<1>4. EnArchivos(K2)'
  BY <1>3 DEF EnArchivos
<1>5. SinArchivo'
  BY DEF SinArchivo, Fiel
<1>6. Validas(K2)'
  BY DEF Validas
<1>7. QED
  BY <1>1, <1>4, <1>5, <1>6 DEF Fiel

\* What a step changes of the answers.
SumaIgual(h) == \A f \in Cortos, p \in Posiciones : Suma(h, f, p)' = Suma(h, f, p)

LEMMA SumaNada ==
  ASSUME NEW h \in Hilos, hizo[h] = "nada", hizo'[h] = "nada", hecho' = hecho
  PROVE  SumaIgual(h)
<1>1. \A f, p : ~Cuenta(h, f, p, "guardado") /\ ~Cuenta(h, f, p, "atrapado")
  BY DEF Cuenta
<1>2. \A f, p : ~Cuenta(h, f, p, "guardado")' /\ ~Cuenta(h, f, p, "atrapado")'
  BY DEF Cuenta
<1>3. \A f, p : /\ Bit(Cuenta(h, f, p, "guardado"))' = Bit(Cuenta(h, f, p, "guardado"))
                /\ Bit(Cuenta(h, f, p, "atrapado"))' = Bit(Cuenta(h, f, p, "atrapado"))
  BY <1>1, <1>2 DEF Bit
<1>4. QED
  BY <1>3 DEF SumaIgual, Suma

LEMMA SumaMisma ==
  ASSUME NEW h \in Hilos, pc[h] # "espera", pc'[h] # "espera", Pedido(h)' = Pedido(h),
         hizo'[h] = hizo[h], creando'[h] = creando[h], hecho' = hecho,
         creando[h] => (pc[h] \in {"escribir", "metadata"} <=> pc'[h] \in {"escribir", "metadata"})
  PROVE  SumaIgual(h)
<1>1. \A f, p, w : Cuenta(h, f, p, w)' <=> Cuenta(h, f, p, w)
  BY DEF Cuenta, Trabaja, Archivo
<1>3. \A f, p : /\ Bit(Cuenta(h, f, p, "guardado"))' = Bit(Cuenta(h, f, p, "guardado"))
                /\ Bit(Cuenta(h, f, p, "atrapado"))' = Bit(Cuenta(h, f, p, "atrapado"))
  BY <1>1 DEF Bit
<1>4. QED
  BY <1>3 DEF SumaIgual, Suma

LEMMA SaldoIgual ==
  ASSUME Cuentas, Cuentas', NEW K, Saldo(K), NEW h \in Hilos, Ajenos(h), SumaIgual(h)
  PROVE  Saldo(K)'
<1>1. ASSUME NEW f \in Cortos, NEW p \in Posiciones
      PROVE  Cantidad(p, K[f]) = Cantidad(p, K[f]) + Suma(h, f, p)' - Suma(h, f, p)
  <2> DEFINE c == Cantidad(p, K[f])
             s == Suma(h, f, p)
             t == Suma(h, f, p)'
  <2>1. hecho[f][p] \in Int
    BY DeCortos DEF Cuentas
  <2>2. s \in Int /\ t = s
    BY <2>1 DEF SumaIgual, Suma, Bit
  <2>3. \A k \in Hilos \ {h} : \A w : Cuenta(k, f, p, w)' <=> Cuenta(k, f, p, w)
    BY CuentaAjena DEF Ajenos
  <2>4. Pendientes(f, p, "guardado") \in Nat /\ Pendientes(f, p, "atrapado") \in Nat
    BY <2>3, CuentaCambia
  <2>5. c = hecho[f][p] + Pendientes(f, p, "guardado") - Pendientes(f, p, "atrapado")
    BY DEF Saldo
  <2>6. c \in Int
    BY <2>1, <2>4, <2>5
  <2> HIDE DEF c, s, t
  <2>7. c = c + t - s
    BY <2>2, <2>6
  <2>8. QED
    BY <2>7 DEF c, s, t
<1>2. QED
  BY <1>1, SaldoPaso

\* A step of h that writes no Metadata.bin nor a block of a file or of another thread.
NoToca(h) ==
  /\ \A k \in Hilos \ {h} : \A x \in EnMano(k) : bloque'[x] = bloque[x]
  /\ \A f \in Archivos : \A x \in Range(meta[f].bloques) : bloque'[x] = bloque[x]

LEMMA QuietoFiel ==
  ASSUME Tipos, Resto, Resto', NEW K, Fiel(K), NEW h \in Hilos, Ajenos(h), NoToca(h), VaciaAjenos(h),
         meta' = meta, ~Flujo(h), SumaIgual(h), EnLinea(h)', EnCurso(h, K)'
  PROVE  Fiel(K)'
<1>1. Saldo(K)'
  BY SaldoIgual DEF Fiel, Resto
<1>2. CASE Archivos = {}
  BY <1>1, <1>2, AjenoFiel DEF Fiel, Validas, EnArchivos, SinArchivo, Ajenos, NoToca, VaciaAjenos
<1>3. CASE Archivos # {}
  <2>1. PICK f0 : f0 \in Archivos
    BY <1>3
  <2>2. BloquesAjenos(h, f0) /\ Validas(K)
    BY DEF NoToca, BloquesAjenos, Fiel
  <2>3. Estable(f0)' => Contiene(f0, meta[f0].bloques, K[f0])'
    <3>1. \A k \in Hilos \ {h} : Flujo(k)' = Flujo(k) /\ Archivo(k)' = Archivo(k)
      BY DEF Ajenos, Igual, Flujo, Archivo, Pedido
    <3>2. Estable(f0)' => Estable(f0)
      BY <3>1 DEF Estable
    <3>3. (Estable(f0) => Contiene(f0, meta[f0].bloques, K[f0])) /\ meta[f0].bloques \in Seq(Bloques)
      BY <2>1 DEF Fiel, EnArchivos, Tipos, MetadataBin
    <3>4. f0 \in Cortos =>
            LineasDe(f0, meta[f0].bloques, bloque') = LineasDe(f0, meta[f0].bloques, bloque)
      BY <2>1, <3>3, LineasIguales DEF NoToca
    <3>5. QED
      BY <3>2, <3>3, <3>4 DEF Contiene
  <2>4. meta'[f0].existe = "no" => meta'[f0].bloques = <<>>
    BY <2>1 DEF Fiel, SinArchivo
  <2>5. QED
    BY <1>1, <2>1, <2>2, <2>3, <2>4, PasoFiel
<1>4. QED
  BY <1>2, <1>3

\* A step of a thread on a file of longer lines, which writes no block but of that file or in
\* its hand: the content of the others stays.
LEMMA PasoLargo ==
  ASSUME Tipos, Resto, Resto', NEW K, Fiel(K), NEW h \in Hilos, pc[h] # "espera", pc'[h] # "espera",
         NEW f0 \in Archivos, f0 = Archivo(h), f0 \notin Cortos,
         Pedido(h)' = Pedido(h), hecho' = hecho,
         Ajenos(h), BloquesAjenos(h, f0), VaciaAjenos(h),
         \A f \in Archivos \ {f0} : meta'[f] = meta[f],
         meta'[f0].existe = "no" => meta'[f0].bloques = <<>>,
         EnLinea(h)'
  PROVE  Fiel(K)'
<1>1. Archivo(h)' = f0
  BY DEF Archivo
<1>2. \A f \in Cortos : \A p, w : ~Cuenta(h, f, p, w) /\ ~Cuenta(h, f, p, w)'
  BY <1>1 DEF Cuenta, Trabaja
<1>3. SumaIgual(h)
  BY <1>2 DEF SumaIgual, Suma, Bit
<1>4. Saldo(K)' /\ Validas(K)
  BY <1>3, SaldoIgual DEF Fiel, Resto
<1>5. EnCurso(h, K)'
  BY <1>1 DEF EnCurso
<1>6. Contiene(f0, meta[f0].bloques, K[f0])'
  BY DEF Contiene
<1>7. QED
  BY <1>4, <1>5, <1>6, PasoFiel

------------------------------------------------------------------------------
(* The content when a Metadata.bin is truncated, and in the steps that touch none. *)

\* Without a race nobody else has the file open nor is writing a Metadata.bin.
LEMMA TruncarSolo ==
  ASSUME Tipos, Orden, reinicios = 0, vivo = "si", NEW h \in Hilos, pc[h] # "espera",
         NEW v, NEW luego, Truncar(h, v, luego), carreras' = {},
         ~ConElAbierto(h) => vista[h].existe # "si" \/ vista[h].abierto = "N"
  PROVE  /\ meta[Archivo(h)] = vista[h] /\ vista[h].existe # "roto" /\ Archivo(h) \in Archivos
         /\ \A k \in Hilos \ {h} : ConElAbierto(k) \/ pc[k] = "guardar" => Archivo(k) # Archivo(h)
<1> DEFINE f0 == Archivo(h)
<1>1. meta[f0] = vista[h] /\ config = Ninguno /\ f0 \in Archivos
  BY TruncarHecho, PedidoValido
<1>2. \A k \in Hilos : pc[k] # "guardar"
  <2> SUFFICES ASSUME NEW k \in Hilos, pc[k] = "guardar" PROVE FALSE
    OBVIOUS
  <2>1. config = Archivo(k) /\ Archivo(k) \in Archivos
    BY PedidoValido DEF Orden, MetadataConDueno
  <2>2. QED
    BY <1>1, <2>1, GameCardAssumption
<1>3. meta[f0].existe # "roto"
  BY <1>1, <1>2 DEF Orden, MetadataConDueno
<1>4. \A k \in Hilos \ {h} : ConElAbierto(k) => Archivo(k) # f0
  <2> SUFFICES ASSUME NEW k \in Hilos \ {h}, ConElAbierto(k), Archivo(k) = f0 PROVE FALSE
    OBVIOUS
  <2>1. vista[h].existe = "si" /\ vista[h].abierto = "Y"
    BY <1>1 DEF Orden, MetadataConDueno, Abierto
  <2>2. ConElAbierto(h)
    BY <2>1
  <2>3. QED
    BY <2>2 DEF Orden, MetadataConDueno, UnoSolo
<1>5. QED
  BY <1>1, <1>2, <1>3, <1>4

\* What h saw is what the file holds.
LEMMA VistaFiel ==
  ASSUME Tipos, NEW K, Fiel(K), NEW h \in Hilos, ~Flujo(h), Archivo(h) \in Archivos,
         meta[Archivo(h)] = vista[h], vista[h].existe # "roto",
         \A k \in Hilos \ {h} : ConElAbierto(k) \/ pc[k] = "guardar" => Archivo(k) # Archivo(h)
  PROVE  Contiene(Archivo(h), vista[h].bloques, K[Archivo(h)])
<1>1. \A k \in Hilos : Flujo(k) => ConElAbierto(k)
  BY DEF Flujo, ConElAbierto
<1>2. Estable(Archivo(h))
  BY <1>1 DEF Estable
<1>3. QED
  BY <1>2 DEF Fiel, EnArchivos

LEMMA TruncarFiel ==
  ASSUME Tipos, Resto, Orden, reinicios = 0, vivo = "si", NEW K, Fiel(K), NEW K2, Validas(K2),
         NEW h \in Hilos, pc[h] # "espera", NEW v, NEW luego, Truncar(h, v, luego), carreras' = {},
         ~ConElAbierto(h) => vista[h].existe # "si" \/ vista[h].abierto = "N",
         NEW f0 \in Archivos, f0 = Archivo(h), \A f \in Archivos \ {f0} : K2[f] = K[f],
         Contiene(f0, lista[h], K2[f0]), EnLinea(h)', Saldo(K2)'
  PROVE  Fiel(K2)'
<1>1. /\ \A k \in Hilos \ {h} : Igual(k)
      /\ Archivo(h)' = f0 /\ pc'[h] = "guardar" /\ lista'[h] = lista[h]
      /\ meta'[f0] = Roto /\ \A f \in Archivos \ {f0} : meta'[f] = meta[f]
      /\ bitmap' = bitmap
  BY TruncarHecho
<1>2. bloque' = bloque /\ escritos' = escritos
  BY DEF Truncar
<1>3. NadieMas(h, f0)
  BY TruncarSolo DEF NadieMas
<1>4. Ajenos(h) /\ BloquesAjenos(h, f0)
  BY <1>1, <1>2 DEF Ajenos, BloquesAjenos
<1>5. VaciaAjenos(h)
  BY <1>1 DEF VaciaAjenos, Fiel, EnLinea
<1>6. EnCurso(h, K2)'
  <2>1. ~Flujo(h)' /\ ~ParaAgregar(h)'
    BY <1>1 DEF Flujo, ParaAgregar
  <2>2. Contiene(Archivo(h), lista[h], K2[Archivo(h)])'
    BY <1>1, <1>2 DEF Contiene
  <2>3. QED
    BY <2>1, <2>2 DEF EnCurso
<1>7. ~Estable(f0)' /\ meta'[f0].existe # "no"
  BY <1>1 DEF Estable, Roto
<1>8. QED
  BY <1>1, <1>3, <1>4, <1>5, <1>6, <1>7, PasoFiel

LEMMA SinTocar ==
  ASSUME NEW K, Fiel(K), NEW h \in Hilos, bloque' = bloque, bitmap' \subseteq bitmap
  PROVE  NoToca(h) /\ VaciaAjenos(h)
BY DEF NoToca, VaciaAjenos, Fiel, EnLinea

\* A line more is a line at least.
LEMMA UnaLinea ==
  ASSUME NEW p \in Posiciones
  PROVE  ConUnoMas(p, <<>>) # <<>> /\ UnaPorPosicion(<<>>) /\ <<>> \in Seq(Linea)
<1>1. <<>> \in Seq(Linea) /\ DOMAIN <<>> = {}
  BY EmptySeq, LenProperties
<1>2. UnaPorPosicion(<<>>)
  BY <1>1 DEF UnaPorPosicion
<1>3. QED
  BY <1>1, <1>2, UnoMas

LEMMA EmpezarFiel ==
  ASSUME Tipos, Resto, Resto', Orden, NEW K, Fiel(K), NEW h \in Hilos, Empezar(h)
  PROVE  Fiel(K)'
<1>1. PICK i \in DOMAIN bandeja[h] :
        LET p   == bandeja[h][i]
            hay == meta[p.archivo].existe # "no"
            nuevo == p.op = "NEW"
        IN  /\ pc[h] = "espera" /\ actual' = [actual EXCEPT ![h] = i]
            /\ creando' = [creando EXCEPT ![h] = nuevo /\ ~hay]
            /\ vista' = [vista EXCEPT ![h] = meta[p.archivo]]
            /\ lineas' = [lineas EXCEPT ![h] = IF nuevo /\ ~hay THEN ConUnoMas(p.pos, <<>>) ELSE <<>>]
            /\ pc' = [pc EXCEPT ![h] = IF hay THEN "leer" ELSE IF nuevo THEN "crear" ELSE "publicar"]
  BY DEF Empezar
<1>2. UNCHANGED <<disco, sigue, lista, tomado, escritos, valor, hizo, bandeja, hecho>>
  BY DEF Empezar, historia
<1> DEFINE p == bandeja[h][i]
<1>3. p \in Mensaje /\ p.archivo \in Archivos
  <2>1. p \in Mensaje
    BY LenProperties, ElementOfSeq DEF Tipos
  <2>2. QED
    BY <2>1 DEF Mensaje
<1>4. Pedido(h)' = p
  BY <1>1, <1>2 DEF Pedido, Tipos
<1> HIDE DEF p
<1>5. hizo[h] = "nada" /\ escritos[h] = 0
  BY <1>1 DEF Fiel, EnLinea, Temprano
<1>6. Ajenos(h)
  BY <1>1, <1>2 DEF Ajenos, Igual, Tipos, Resto, Datos
<1>7. SumaIgual(h)
  BY <1>2, <1>5, SumaNada
<1>8. EnLinea(h)' /\ EnCurso(h, K)'
  <2>1. pc'[h] \in {"leer", "crear", "publicar"} /\ hizo'[h] = "nada" /\ escritos'[h] = 0
    BY <1>1, <1>2, <1>5 DEF Tipos
  <2>2. ParaCrear(h)' => vista'[h].bloques = <<>> /\ lineas'[h] = ConUnoMas(Pedido(h)'.pos, <<>>)
    <3>1. ASSUME pc'[h] = "crear"
          PROVE  vista'[h].bloques = <<>> /\ lineas'[h] = ConUnoMas(p.pos, <<>>)
      <4>1. p.op = "NEW" /\ meta[p.archivo].existe = "no"
        BY <1>1, <3>1 DEF p, Tipos
      <4>2. vista'[h] = meta[p.archivo] /\ lineas'[h] = ConUnoMas(p.pos, <<>>)
        BY <1>1, <4>1 DEF p, Tipos, Resto, Datos
      <4>3. QED
        BY <1>3, <4>1, <4>2 DEF Fiel, SinArchivo
    <3>2. ParaCrear(h)' => pc'[h] = "crear"
      BY <2>1 DEF ParaCrear, PorCrear
    <3>3. QED
      BY <1>4, <3>1, <3>2
  <2>3. ~Flujo(h)' /\ ~ParaAgregar(h)'
    BY <2>1 DEF Flujo, ParaAgregar
  <2>4. QED
    BY <2>1, <2>2, <2>3 DEF EnLinea, EnCorto, EnCurso
<1>9. ~Flujo(h) /\ meta' = meta /\ bloque' = bloque /\ bitmap' \subseteq bitmap
  BY <1>1, <1>2 DEF Flujo, disco
<1>10. QED
  BY <1>6, <1>7, <1>8, <1>9, SinTocar, QuietoFiel

\* What a step of h leaves as it was, when it moves h and its lines only.
LEMMA AvanceFiel ==
  ASSUME Tipos, Resto, Resto', NEW K, Fiel(K), NEW h \in Hilos, NEW l \in Lugares,
         pc' = [pc EXCEPT ![h] = l],
         \A k \in Hilos \ {h} : lineas'[k] = lineas[k] /\ vista'[k] = vista[k] /\ lista'[k] = lista[k]
                                /\ tomado'[k] = tomado[k],
         UNCHANGED <<meta, bloque, bitmap, sigue, creando, valor, escritos, hizo, bandeja, actual, hecho>>,
         hizo[h] = "nada", ~Flujo(h), EnLinea(h)', EnCurso(h, K)'
  PROVE  Fiel(K)'
<1>1. Ajenos(h)
  BY DEF Ajenos, Igual, Tipos
<1>2. SumaIgual(h)
  BY SumaNada
<1>3. QED
  BY <1>1, <1>2, SinTocar, QuietoFiel

LEMMA LeerMetadataFiel ==
  ASSUME Tipos, Resto, Resto', Orden, NEW K, Fiel(K), NEW h \in Hilos, LeerMetadata(h), vivo' = "si"
  PROVE  Fiel(K)'
<1>1. /\ pc[h] = "leer" /\ pc' = [pc EXCEPT ![h] = "abrir"]
      /\ \A k \in Hilos \ {h} : vista'[k] = vista[k] /\ lista'[k] = lista[k]
      /\ UNCHANGED <<disco, sigue, creando, valor, escritos, hizo, lineas, tomado, mensajes, hecho>>
  BY DEF LeerMetadata, Morir, historia, Tipos
<1>2. hizo[h] = "nada" /\ escritos[h] = 0 /\ pc'[h] = "abrir"
  BY <1>1 DEF Fiel, EnLinea, Temprano, Tipos
<1>3. EnLinea(h)' /\ EnCurso(h, K)' /\ ~Flujo(h)
  BY <1>1, <1>2 DEF EnLinea, EnCorto, EnCurso, Flujo, ParaAgregar, ParaCrear, PorCrear
<1>4. "abrir" \in Lugares
  BY DEF Lugares
<1>5. QED
  BY <1>1, <1>2, <1>3, <1>4, AvanceFiel DEF disco, mensajes

LEMMA OperateGetFiel ==
  ASSUME Tipos, Resto, Resto', Orden, NEW K, Fiel(K), NEW h \in Hilos, OperateGet(h)
  PROVE  Fiel(K)'
<1>1. /\ pc[h] = "bloques" /\ pc' = [pc EXCEPT ![h] = "cerrar"]
      /\ \A k \in Hilos \ {h} : lineas'[k] = lineas[k]
      /\ UNCHANGED <<disco, sigue, creando, vista, lista, valor, escritos, hizo, tomado, mensajes, hecho>>
  BY DEF OperateGet, historia, Tipos
<1>2. hizo[h] = "nada" /\ escritos[h] = 0 /\ pc'[h] = "cerrar"
  BY <1>1 DEF Fiel, EnLinea, Temprano, Tipos
<1>3. EnLinea(h)' /\ EnCurso(h, K)' /\ ~Flujo(h)
  BY <1>1, <1>2 DEF EnLinea, EnCorto, EnCurso, Flujo, ParaAgregar, ParaCrear, PorCrear, Temprano
<1>4. "cerrar" \in Lugares
  BY DEF Lugares
<1>5. QED
  BY <1>1, <1>2, <1>3, <1>4, AvanceFiel DEF disco, mensajes

LEMMA BuscarLibreFiel ==
  ASSUME Tipos, Resto, Resto', Orden, NEW K, Fiel(K), NEW h \in Hilos, BuscarLibre(h)
  PROVE  Fiel(K)'
<1>1. /\ pc[h] = "pedir" /\ pc' = [pc EXCEPT ![h] = "marcar"]
      /\ \A k \in Hilos \ {h} : tomado'[k] = tomado[k]
      /\ UNCHANGED <<disco, sigue, creando, vista, lista, lineas, valor, escritos, hizo, mensajes, hecho>>
  BY DEF BuscarLibre, historia, Tipos
<1>2. hizo[h] = "nada" /\ escritos[h] = 0 /\ pc'[h] = "marcar"
  BY <1>1 DEF Fiel, EnLinea, Temprano, Tipos
<1>3. EnLinea(h) /\ EnCurso(h, K) /\ Pedido(h)' = Pedido(h) /\ Archivo(h)' = Archivo(h)
  BY <1>1 DEF Fiel, Pedido, Archivo, mensajes
<1>4. EnLinea(h)'
  BY <1>1, <1>2, <1>3 DEF EnLinea, EnCorto, ParaCrear, PorCrear
<1>5. EnCurso(h, K)' /\ ~Flujo(h)
  BY <1>1, <1>2, <1>3 DEF EnCurso, Flujo, ParaAgregar
<1>6. "marcar" \in Lugares
  BY DEF Lugares
<1>7. QED
  BY <1>1, <1>2, <1>4, <1>5, <1>6, AvanceFiel DEF disco, mensajes

\* Who has opened its file knows what it holds, and nobody else has it.
LEMMA AbiertoFiel ==
  ASSUME Tipos, Orden, NEW K, Fiel(K), NEW h \in Hilos, pc[h] = "bloques"
  PROVE  /\ Archivo(h) \in Archivos /\ Contiene(Archivo(h), lista[h], K[Archivo(h)])
         /\ ~creando[h] /\ hizo[h] = "nada" /\ escritos[h] = 0 /\ ConElAbierto(h)
         /\ \A k \in Hilos \ {h} : ConElAbierto(k) \/ pc[k] = "guardar" => Archivo(k) # Archivo(h)
<1>1. EnSuLugar(h) /\ EnLinea(h)
  BY DEF Orden, Fiel
<1>2. ~creando[h] /\ vista[h].bloques = lista[h] /\ hizo[h] = "nada" /\ escritos[h] = 0
  BY <1>1 DEF EnSuLugar, Creacion, Lugar, EnLinea, Temprano, Tipos
<1>3. ConElAbierto(h) /\ Archivo(h) \in Archivos /\ ~Flujo(h)
  BY <1>2, PedidoValido DEF ConElAbierto, Flujo
<1>4. meta[Archivo(h)] = vista[h] /\ Abierto(Archivo(h))
  BY <1>3 DEF Orden, MetadataConDueno
<1>5. vista[h].existe = "si" /\ vista[h].existe # "roto"
  BY <1>4 DEF Abierto
<1>6. \A k \in Hilos \ {h} : ConElAbierto(k) => Archivo(k) # Archivo(h)
  BY <1>3 DEF Orden, MetadataConDueno, UnoSolo
<1>7. \A k \in Hilos \ {h} : pc[k] = "guardar" => Archivo(k) # Archivo(h)
  <2> SUFFICES ASSUME NEW k \in Hilos, pc[k] = "guardar", Archivo(k) = Archivo(h) PROVE FALSE
    OBVIOUS
  <2>1. meta[Archivo(k)] = Roto
    BY DEF Orden, MetadataConDueno
  <2>2. QED
    BY <1>4, <1>5, <2>1 DEF Roto
<1>8. Contiene(Archivo(h), vista[h].bloques, K[Archivo(h)])
  BY <1>3, <1>4, <1>5, <1>6, <1>7, VistaFiel
<1>9. QED
  BY <1>2, <1>3, <1>6, <1>7, <1>8

\* Adding a pokemon asks for no less blocks.
LEMMA NoMenosBloques ==
  ASSUME NEW f \in Cortos, NEW ls \in Seq(Linea), UnaPorPosicion(ls), NEW p \in Posiciones,
         NEW bs \in Seq(Bloques), Justos(f, bs, ls)
  PROVE  Len(bs) <= BlocksOcupados(f, Len(ConUnoMas(p, ls)))
<1> DEFINE n == Len(ls)
           m == Len(ConUnoMas(p, ls))
<1>1. n \in Nat /\ Len(bs) \in Nat
  BY LenProperties
<1>2. m = n \/ m = n + 1
  BY UnoMas
<1> HIDE DEF m
<1>3. BlocksOcupados(f, n) \in Nat \ {0} /\ BlocksOcupados(f, n + 1) \in Nat \ {0}
      /\ BlocksOcupados(f, n) <= BlocksOcupados(f, n + 1)
  BY <1>1, DeCortos, BlocksOcupadosTipo, OcupaSiguiente
<1>4. BlocksOcupados(f, m) \in Nat /\ BlocksOcupados(f, n) <= BlocksOcupados(f, m)
  BY <1>2, <1>3
<1>5. Len(bs) = 0 \/ Len(bs) = BlocksOcupados(f, n)
  BY DEF Justos
<1>6. QED
  BY <1>1, <1>3, <1>4, <1>5 DEF m

LEMMA PosValida ==
  ASSUME Tipos, NEW h \in Hilos, pc[h] # "espera"
  PROVE  Pedido(h).pos \in Posiciones
BY PedidoValido DEF Mensaje

LEMMA OperateNewFiel ==
  ASSUME Tipos, Resto, Resto', Orden, NEW K, Fiel(K), NEW h \in Hilos, OperateNew(h),
         Archivo(h) \in Cortos
  PROVE  Fiel(K)'
<1> DEFINE f0 == Archivo(h)
           ls == ConUnoMas(Pedido(h).pos, LineasDe(f0, lista[h], bloque))
           n == BlocksOcupados(f0, Len(ls))
           luego == IF ~(libres[h] > n) THEN "final" ELSE IF n > Len(lista[h]) THEN "pedir" ELSE "escribir"
<1>1. /\ pc[h] = "bloques" /\ Pedido(h).op = "NEW" /\ lineas' = [lineas EXCEPT ![h] = ls]
      /\ pc' = [pc EXCEPT ![h] = luego]
      /\ UNCHANGED <<disco, sigue, creando, vista, lista, valor, escritos, hizo, tomado, mensajes, hecho>>
  BY DEF OperateNew, historia
<1>2. /\ f0 \in Archivos /\ Contiene(f0, lista[h], K[f0])
      /\ ~creando[h] /\ hizo[h] = "nada" /\ escritos[h] = 0
  BY <1>1, AbiertoFiel
<1>3. K[f0] \in Seq(Linea) /\ UnaPorPosicion(K[f0])
  BY <1>2 DEF Fiel, Validas
<1>4. /\ ls = ConUnoMas(Pedido(h).pos, K[f0]) /\ Justos(f0, lista[h], K[f0]) /\ lista[h] \in Seq(Bloques)
      /\ Pedido(h).pos \in Posiciones
  BY <1>1, <1>2, PosValida DEF Contiene, Tipos
<1>5. ls # <<>> /\ Len(lista[h]) <= n
  BY <1>3, <1>4, UnoMas, NoMenosBloques
<1>6. n \in Nat \ {0} /\ Len(lista[h]) \in Nat
  <2>1. ls \in Seq(Linea)
    BY <1>3, <1>4, ConUnoMasTipo
  <2>2. Len(ls) \in Nat /\ Len(lista[h]) \in Nat
    BY <1>4, <2>1, LenProperties
  <2>3. QED
    BY <1>2, <2>2, BlocksOcupadosTipo
<1> HIDE DEF ls
<1>7. /\ pc'[h] = luego /\ lineas'[h] = ls /\ lista'[h] = lista[h] /\ escritos'[h] = 0
      /\ hizo'[h] = "nada" /\ ~creando'[h] /\ Pedido(h)' = Pedido(h) /\ Archivo(h)' = f0
  BY <1>1, <1>2 DEF Tipos, Resto, Datos, Pedido, Archivo, mensajes
<1>8. EnLinea(h)'
  <2>1. CASE luego = "final"
    BY <1>7, <2>1 DEF EnLinea, EnCorto, Temprano, ParaCrear
  <2>2. CASE luego = "pedir"
    <3>1. Len(lista[h]) < n
      BY <1>6, <2>2
    <3>2. QED
      BY <1>7, <2>2, <3>1 DEF EnLinea, EnCorto, Temprano, ParaCrear
  <2>3. CASE luego = "escribir"
    <3>1. Len(lista[h]) = n /\ 0 < Len(lista[h])
      BY <1>5, <1>6, <2>3
    <3>2. 1..0 = {}
      OBVIOUS
    <3>3. Escribiendo(h)'
      BY <1>1, <1>5, <1>7, <3>1, <3>2 DEF Escribiendo
    <3>4. QED
      BY <1>7, <2>3, <3>1, <3>3 DEF EnLinea, EnCorto, Temprano, ParaCrear
  <2>4. QED
    BY <2>1, <2>2, <2>3
<1>9. EnCurso(h, K)'
  <2>1. ~Flujo(h)' /\ pc'[h] # "guardar"
    BY <1>7 DEF Flujo
  <2>2. QED
    BY <1>4, <1>7, <2>1 DEF EnCurso
<1>10. ~Flujo(h) /\ luego \in Lugares
  BY <1>1 DEF Flujo, Lugares
<1> HIDE DEF luego
<1>11. \A k \in Hilos \ {h} : lineas'[k] = lineas[k] /\ vista'[k] = vista[k] /\ lista'[k] = lista[k]
                              /\ tomado'[k] = tomado[k]
  BY <1>1
<1>12. UNCHANGED <<meta, bloque, bitmap, sigue, creando, valor, escritos, hizo, bandeja, actual, hecho>>
  BY <1>1 DEF disco, mensajes
<1>13. QED
  BY <1>1, <1>2, <1>8, <1>9, <1>10, <1>11, <1>12, AvanceFiel

LEMMA ConfBloqueFiel ==
  ASSUME Tipos, Resto, Resto', Orden, NEW K, Fiel(K), NEW h \in Hilos, ConfBloque(h), carreras' = {},
         Archivo(h) \in Cortos
  PROVE  Fiel(K)'
<1> DEFINE b == tomado[h]
           lleva == Append(lista[h], b)
           n == BlocksOcupados(Archivo(h), Len(lineas[h]))
           luego == IF Len(lleva) < n THEN "pedir" ELSE "escribir"
           f0 == Archivo(h)
<1>1. /\ pc[h] = "marcar" /\ bitmap' = bitmap \cup {b}
      /\ lista' = [lista EXCEPT ![h] = lleva] /\ tomado' = [tomado EXCEPT ![h] = -1]
      /\ pc' = [pc EXCEPT ![h] = luego]
      /\ UNCHANGED <<meta, bloque, sigue, creando, vista, lineas, escritos, valor, hizo, mensajes, hecho>>
  BY DEF ConfBloque
<1>2. ~\E k \in Hilos \ {h} : pc[k] = "vaciar" /\ tomado[k] = b
  BY DEF ConfBloque
<1>3. /\ lista[h] \in Seq(Bloques) /\ b \in Bloques /\ lineas[h] \in Seq(Linea)
      /\ f0 \in Archivos /\ Pedido(h).op = "NEW" /\ Pedido(h).pos \in Posiciones
  BY <1>1, PedidoValido, PosValida DEF Tipos, Resto, Datos, Orden, EnSuLugar, Lugar
<1>4. Len(lleva) = Len(lista[h]) + 1 /\ Len(lista[h]) \in Nat /\ n \in Nat \ {0}
  <2>1. Len(lineas[h]) \in Nat /\ Len(lista[h]) \in Nat
    BY <1>3, LenProperties
  <2>2. n \in Nat \ {0}
    BY <1>3, <2>1, BlocksOcupadosTipo
  <2>3. Len(lleva) = Len(lista[h]) + 1
    BY <1>3, AppendProperties
  <2>4. QED
    BY <2>1, <2>2, <2>3
<1>5. EnLinea(h) /\ EnCurso(h, K)
  BY DEF Fiel
<1>6. hizo[h] = "nada" /\ escritos[h] = 0 /\ Len(lista[h]) < n
  BY <1>1, <1>5 DEF EnLinea, EnCorto, Temprano
<1>7. /\ creando[h] => vista[h].bloques = <<>> /\ lineas[h] = ConUnoMas(Pedido(h).pos, <<>>)
      /\ ~creando[h] => lineas[h] = ConUnoMas(Pedido(h).pos, K[f0])
  BY <1>1, <1>5 DEF EnLinea, EnCorto, EnCurso, ParaCrear, ParaAgregar
<1>8. lineas[h] # <<>>
  <2>1. K[f0] \in Seq(Linea) /\ UnaPorPosicion(K[f0])
    BY <1>3 DEF Fiel, Validas
  <2>2. ConUnoMas(Pedido(h).pos, K[f0]) # <<>> /\ ConUnoMas(Pedido(h).pos, <<>>) # <<>>
    BY <1>3, <2>1, UnoMas, UnaLinea
  <2>3. QED
    BY <1>7, <2>2
<1> HIDE DEF lleva, b
<1>9. /\ pc'[h] = luego /\ lineas'[h] = lineas[h] /\ lista'[h] = lleva /\ escritos'[h] = 0
      /\ hizo'[h] = "nada" /\ creando'[h] = creando[h] /\ Pedido(h)' = Pedido(h) /\ Archivo(h)' = f0
      /\ vista'[h] = vista[h]
  BY <1>1, <1>6 DEF Tipos, Pedido, Archivo, mensajes
<1>10. EnLinea(h)'
  <2>1. CASE luego = "pedir"
    <3>1. Len(lleva) < n
      BY <2>1
    <3>2. QED
      BY <1>7, <1>9, <2>1, <3>1 DEF EnLinea, EnCorto, ParaCrear
  <2>2. CASE luego = "escribir"
    <3>1. Len(lleva) = n /\ 0 < Len(lleva)
      BY <1>4, <1>6, <2>2
    <3>2. 1..0 = {}
      OBVIOUS
    <3>3. Escribiendo(h)'
      BY <1>3, <1>8, <1>9, <3>1, <3>2 DEF Escribiendo
    <3>4. QED
      BY <1>7, <1>9, <2>2, <3>1, <3>3 DEF EnLinea, EnCorto, Temprano, ParaCrear
  <2>3. QED
    BY <2>1, <2>2
<1>11. EnCurso(h, K)'
  <2>1. ~Flujo(h)' /\ pc'[h] # "guardar"
    BY <1>9 DEF Flujo
  <2>2. ParaAgregar(h)' => ~creando[h]
    BY <1>9 DEF ParaAgregar
  <2>3. QED
    BY <1>7, <1>9, <2>1, <2>2 DEF EnCurso
<1>12. Ajenos(h) /\ SumaIgual(h) /\ ~Flujo(h)
  <2>1. Ajenos(h)
    BY <1>1 DEF Ajenos, Igual, Tipos, mensajes
  <2>2. SumaIgual(h)
    BY <1>1, <1>6, SumaNada
  <2>3. QED
    BY <1>1, <2>1, <2>2 DEF Flujo
<1>13. NoToca(h)
  BY <1>1 DEF NoToca
<1>14. VaciaAjenos(h)
  BY <1>1, <1>2 DEF VaciaAjenos, Fiel, EnLinea, EnCorto
<1>15. QED
  BY <1>1, <1>10, <1>11, <1>12, <1>13, <1>14, QuietoFiel

LEMMA LiberarBloqueFiel ==
  ASSUME Tipos, Resto, Resto', Orden, NEW K, Fiel(K), NEW h \in Hilos, LiberarBloque(h)
  PROVE  Fiel(K)'
<1> DEFINE luego == IF lineas[h] = <<>> THEN "publicar" ELSE "vaciar"
<1>1. /\ pc[h] = "soltar" /\ bitmap' = bitmap \ {tomado[h]} /\ pc' = [pc EXCEPT ![h] = luego]
      /\ UNCHANGED <<meta, bloque, sigue, creando, vista, lista, lineas, tomado, escritos, valor, hizo,
                     bandeja, actual, hecho>>
  BY DEF LiberarBloque, operacion, mensajes, historia
<1>2. /\ pc'[h] = luego /\ lineas'[h] = lineas[h] /\ tomado'[h] = tomado[h] /\ hizo'[h] = hizo[h]
      /\ creando'[h] = creando[h] /\ Pedido(h)' = Pedido(h)
  BY <1>1 DEF Tipos, Pedido
<1>3. EnLinea(h)' /\ EnCurso(h, K)' /\ ~Flujo(h)
  BY <1>1, <1>2 DEF EnLinea, EnCorto, EnCurso, Flujo, Temprano, ParaCrear, ParaAgregar, PorCrear
<1>4. SumaIgual(h)
  <2>1. pc[h] # "espera" /\ pc'[h] # "espera" /\ pc[h] \notin {"escribir", "metadata"}
        /\ pc'[h] \notin {"escribir", "metadata"}
    BY <1>1, <1>2
  <2>2. QED
    BY <1>1, <1>2, <2>1, SumaMisma
<1>5. Ajenos(h)
  BY <1>1 DEF Ajenos, Igual, Tipos
<1>6. bitmap' \subseteq bitmap
  BY <1>1
<1>7. QED
  BY <1>1, <1>3, <1>4, <1>5, <1>6, SinTocar, QuietoFiel

\* A block in hand, or free, is of no other thread, nor of a file that its owner has not open.
LEMMA EscribeLoSuyo ==
  ASSUME Tipos, Resto, Orden, NEW h \in Hilos, NEW x, x \in EnMano(h) \/ x \notin bitmap,
         NEW v, bloque' = [bloque EXCEPT ![x] = v]
  PROVE  /\ \A k \in Hilos \ {h} : \A y \in EnMano(k) : bloque'[y] = bloque[y]
         /\ \A f \in Archivos : ~(f = Archivo(h) /\ ConElAbierto(h)) =>
              \A y \in Range(meta[f].bloques) : bloque'[y] = bloque[y]
<1>1. \A y \in bitmap : y # x => bloque'[y] = bloque[y]
  BY DEF Tipos, Resto, Datos
<1>2. ASSUME NEW k \in Hilos \ {h}, NEW y \in EnMano(k)
      PROVE  bloque'[y] = bloque[y]
  <2>1. y \in bitmap /\ y \notin EnMano(h)
    BY <1>2 DEF Orden, BloquesConDueno
  <2>2. QED
    BY <1>1, <2>1
<1>3. ASSUME NEW f \in Archivos, ~(f = Archivo(h) /\ ConElAbierto(h)), NEW y \in Range(meta[f].bloques)
      PROVE  bloque'[y] = bloque[y]
  <2>1. y \in bitmap /\ y \notin EnMano(h)
    BY <1>3 DEF Orden, BloquesConDueno
  <2>2. QED
    BY <1>1, <2>1
<1>4. QED
  BY <1>2, <1>3

LEMMA VaciarBloqueFiel ==
  ASSUME Tipos, Resto, Resto', Orden, NEW K, Fiel(K), NEW h \in Hilos, VaciarBloque(h)
  PROVE  Fiel(K)'
<1> DEFINE luego == IF lineas[h] = <<>> THEN "soltar" ELSE "publicar"
<1>1. /\ pc[h] = "vaciar" /\ bloque' = [bloque EXCEPT ![tomado[h]] = <<>>] /\ pc' = [pc EXCEPT ![h] = luego]
      /\ UNCHANGED <<meta, bitmap, sigue, creando, vista, lista, lineas, tomado, escritos, valor, hizo,
                     bandeja, actual, hecho>>
  BY DEF VaciarBloque, operacion, mensajes, historia
<1>2. /\ pc'[h] = luego /\ lineas'[h] = lineas[h] /\ tomado'[h] = tomado[h] /\ hizo'[h] = hizo[h]
      /\ creando'[h] = creando[h] /\ Pedido(h)' = Pedido(h)
  BY <1>1 DEF Tipos, Pedido
<1>3. EnLinea(h)' /\ EnCurso(h, K)' /\ ~Flujo(h) /\ ~ConElAbierto(h)
  BY <1>1, <1>2 DEF EnLinea, EnCorto, EnCurso, Flujo, Temprano, ParaCrear, ParaAgregar, PorCrear, ConElAbierto
<1>4. SumaIgual(h)
  <2>1. pc[h] # "espera" /\ pc'[h] # "espera" /\ pc[h] \notin {"escribir", "metadata"}
        /\ pc'[h] \notin {"escribir", "metadata"}
    BY <1>1, <1>2
  <2>2. QED
    BY <1>1, <1>2, <2>1, SumaMisma
<1>5. Ajenos(h)
  BY <1>1 DEF Ajenos, Igual, Tipos
<1>6. tomado[h] \in EnMano(h) \/ tomado[h] \notin bitmap
  <2>1. CASE lineas[h] # <<>>
    BY <1>1, <2>1 DEF Fiel, EnLinea
  <2>2. CASE lineas[h] = <<>>
    <3>1. ConTomado(h) /\ Pedido(h).op = "CATCH"
      BY <1>1, <2>2 DEF ConTomado, Orden, EnSuLugar, Lugar
    <3>2. tomado[h] # -1 => tomado[h] \in EnMano(h)
      BY <3>1 DEF EnMano, Soltado
    <3>3. -1 \notin bitmap
      BY BloquesNaturales DEF Tipos
    <3>4. QED
      BY <3>2, <3>3
  <2>3. QED
    BY <2>1, <2>2
<1>7. NoToca(h)
  BY <1>1, <1>3, <1>6, EscribeLoSuyo DEF NoToca
<1>8. VaciaAjenos(h)
  BY <1>1 DEF VaciaAjenos, Fiel, EnLinea
<1>9. QED
  BY <1>1, <1>3, <1>4, <1>5, <1>7, <1>8, QuietoFiel

------------------------------------------------------------------------------
(* The content changes. *)

\* K2 has d pokemons more than K at a position of a file.
CambiaPor(K, K2, f0, p0, d) ==
  /\ \A f \in Archivos \ {f0} : K2[f] = K[f]
  /\ Cantidad(p0, K2[f0]) = Cantidad(p0, K[f0]) + d
  /\ \A q \in Posiciones : q # p0 => Cantidad(q, K2[f0]) = Cantidad(q, K[f0])

LEMMA CantidadEntera ==
  ASSUME Cuentas, NEW K, Saldo(K), NEW f \in Cortos, NEW p \in Posiciones
  PROVE  Cantidad(p, K[f]) \in Int
<1>1. \A w : Pendientes(f, p, w) \in Nat
  <2>1. \A w : IsFiniteSet({h \in Hilos : Cuenta(h, f, p, w)})
    BY GameCardAssumption, FS_Subset
  <2>2. QED
    BY <2>1, FS_CardinalityType DEF Pendientes
<1>2. hecho[f][p] \in Int
  BY DeCortos DEF Cuentas
<1>3. Cantidad(p, K[f]) = hecho[f][p] + Pendientes(f, p, "guardado") - Pendientes(f, p, "atrapado")
  BY DEF Saldo
<1>4. QED
  BY <1>1, <1>2, <1>3

\* h has done something that counts: a pokemon more, or one less.
LEMMA SaldoUno ==
  ASSUME Cuentas, Cuentas', hecho' = hecho, NEW K, NEW K2, Saldo(K), NEW h \in Hilos, Ajenos(h),
         NEW w \in {"guardado", "atrapado"}, NEW f0, NEW p0, f0 = Archivo(h)', p0 = Pedido(h)'.pos,
         hizo[h] = "nada" \/ (creando[h] /\ pc[h] \in {"escribir", "metadata"}),
         pc'[h] # "espera", hizo'[h] = w, ~(creando'[h] /\ pc'[h] \in {"escribir", "metadata"}),
         CambiaPor(K, K2, f0, p0, IF w = "guardado" THEN 1 ELSE -1)
  PROVE  Saldo(K2)'
<1>1. \A f, p : ~Cuenta(h, f, p, "guardado") /\ ~Cuenta(h, f, p, "atrapado")
  BY DEF Cuenta
<1>2. \A f, p, v : Cuenta(h, f, p, v)' <=> f = f0 /\ p = p0 /\ v = w
  BY DEF Cuenta, Trabaja
<1>3. ASSUME NEW f \in Cortos, NEW p \in Posiciones
      PROVE  Cantidad(p, K2[f]) = Cantidad(p, K[f]) + Suma(h, f, p)' - Suma(h, f, p)
  <2> DEFINE c  == Cantidad(p, K[f])
             c2 == Cantidad(p, K2[f])
             i  == hecho[f][p]
             s  == Suma(h, f, p)
             t  == Suma(h, f, p)'
  <2>1. i \in Int /\ c \in Int
    BY CantidadEntera, DeCortos DEF Cuentas
  <2>2. s = i
    <3>1. s = i + 0 - 0
      BY <1>1 DEF Suma, Bit
    <3> HIDE DEF s, i
    <3>2. QED
      BY <2>1, <3>1
  <2>3. t = i + Bit(Cuenta(h, f, p, "guardado"))' - Bit(Cuenta(h, f, p, "atrapado"))'
    BY DEF Suma
  <2>4. CASE f = f0 /\ p = p0 /\ w = "guardado"
    <3>1. Bit(Cuenta(h, f, p, "guardado"))' = 1 /\ Bit(Cuenta(h, f, p, "atrapado"))' = 0
      BY <1>2, <2>4 DEF Bit
    <3>2. c2 = c + 1
      BY <2>4 DEF CambiaPor
    <3> HIDE DEF c, c2, i, s, t
    <3>3. c2 = c + t - s
      BY <2>1, <2>2, <2>3, <3>1, <3>2
    <3>4. QED
      BY <3>3 DEF c, c2, s, t
  <2>5. CASE f = f0 /\ p = p0 /\ w = "atrapado"
    <3>1. Bit(Cuenta(h, f, p, "guardado"))' = 0 /\ Bit(Cuenta(h, f, p, "atrapado"))' = 1
      BY <1>2, <2>5 DEF Bit
    <3>2. c2 = c + (-1)
      BY <2>5 DEF CambiaPor
    <3> HIDE DEF c, c2, i, s, t
    <3>3. c2 = c + t - s
      BY <2>1, <2>2, <2>3, <3>1, <3>2
    <3>4. QED
      BY <3>3 DEF c, c2, s, t
  <2>6. CASE ~(f = f0 /\ p = p0)
    <3>1. Bit(Cuenta(h, f, p, "guardado"))' = 0 /\ Bit(Cuenta(h, f, p, "atrapado"))' = 0
      BY <1>2, <2>6 DEF Bit
    <3>2. c2 = c
      BY <2>6, DeCortos DEF CambiaPor
    <3> HIDE DEF c, c2, i, s, t
    <3>3. c2 = c + t - s
      BY <2>1, <2>2, <2>3, <3>1, <3>2
    <3>4. QED
      BY <3>3 DEF c, c2, s, t
  <2>7. QED
    BY <2>4, <2>5, <2>6
<1>4. QED
  BY <1>3, SaldoPaso

\* The content of a file changes.
LEMMA OtroContenido ==
  ASSUME NEW K, Validas(K), NEW f0 \in Archivos, NEW ls \in Seq(Linea), UnaPorPosicion(ls)
  PROVE  \E K2 : Validas(K2) /\ K2[f0] = ls /\ \A f \in Archivos \ {f0} : K2[f] = K[f]
<1> DEFINE K2 == [K EXCEPT ![f0] = ls]
<1>1. K \in [Archivos -> Seq(Linea)] /\ \A f \in Archivos : UnaPorPosicion(K[f])
  BY DEF Validas
<1>2. K2[f0] = ls /\ (\A f \in Archivos \ {f0} : K2[f] = K[f]) /\ K2 \in [Archivos -> Seq(Linea)]
  BY <1>1
<1> HIDE DEF K2
<1>3. Validas(K2)
  BY <1>1, <1>2 DEF Validas
<1>4. QED
  BY <1>2, <1>3

\* Writing a Metadata.bin is not counted as anything by itself.
LEMMA TruncarLinea ==
  ASSUME NEW h \in Hilos, pc'[h] = "guardar", sigue'[h] \notin {"bloques", "pedir", "vaciar"}
  PROVE  EnLinea(h)'
BY DEF EnLinea, EnCorto, Temprano, ParaCrear, PorCrear

LEMMA TruncarVisto ==
  ASSUME Tipos, Resto, Resto', Orden, reinicios = 0, vivo = "si", NEW K, Fiel(K), NEW h \in Hilos,
         pc[h] \notin {"espera", "escribir", "metadata"},
         NEW v, NEW luego, Truncar(h, v, luego), carreras' = {},
         ~ConElAbierto(h) => vista[h].existe # "si" \/ vista[h].abierto = "N",
         vista[h].bloques = lista[h], EnLinea(h)'
  PROVE  Fiel(K)'
<1>1. PICK f0 : f0 = Archivo(h)
  OBVIOUS
<1>2. /\ meta[Archivo(h)] = vista[h] /\ vista[h].existe # "roto" /\ Archivo(h) \in Archivos
      /\ \A k \in Hilos \ {h} : ConElAbierto(k) \/ pc[k] = "guardar" => Archivo(k) # Archivo(h)
  BY TruncarSolo
<1>3. ~Flujo(h)
  BY DEF Flujo
<1>4. Contiene(f0, lista[h], K[f0])
  BY <1>1, <1>2, <1>3, VistaFiel
<1>5. /\ \A k \in Hilos \ {h} : Igual(k)
      /\ Pedido(h)' = Pedido(h) /\ pc'[h] = "guardar" /\ hizo'[h] = hizo[h] /\ creando'[h] = creando[h]
  BY TruncarHecho
<1>6. Ajenos(h) /\ hecho' = hecho
  BY <1>5 DEF Ajenos, Truncar
<1>7. SumaIgual(h)
  BY <1>5, <1>6, SumaMisma
<1>8. Saldo(K)' /\ Validas(K)
  BY <1>6, <1>7, SaldoIgual DEF Fiel, Resto
<1>9. QED
  BY <1>1, <1>2, <1>4, <1>8, TruncarFiel

LEMMA CrearArchivoFiel ==
  ASSUME Tipos, Resto, Resto', Orden, reinicios = 0, NEW K, Fiel(K), NEW h \in Hilos, CrearArchivo(h),
         carreras' = {}
  PROVE  Fiel(K)'
<1> DEFINE luego == HayLugarParaUno(h)
<1>1. vivo = "si" /\ pc[h] = "crear" /\ Archivo(h) \in Archivos /\ luego \in {"pedir", "publicar"}
  BY PedidoValido DEF CrearArchivo, HayLugarParaUno
<1>2. EnSuLugar(h) /\ EnLinea(h)
  BY DEF Orden, Fiel
<1>3. /\ creando[h] /\ lista[h] = <<>> /\ hizo[h] = "nada" /\ escritos[h] = 0
      /\ vista[h].existe = "no" \/ vista[h].abierto = "N"
  BY <1>1, <1>2 DEF EnSuLugar, Lugar, Creacion, EnLinea, Temprano
<1>4. Archivo(h) \in Cortos => vista[h].bloques = <<>> /\ lineas[h] = ConUnoMas(Pedido(h).pos, <<>>)
  BY <1>1, <1>2, <1>3 DEF EnLinea, EnCorto, ParaCrear
<1> HIDE DEF luego
<1>5. CASE meta[Archivo(h)].existe = "no" /\ Truncar(h, Metadata(<<>>, "N"), luego)
  <2>1. /\ pc'[h] = "guardar" /\ sigue'[h] = luego /\ Pedido(h)' = Pedido(h) /\ Archivo(h)' = Archivo(h)
        /\ creando'[h] = creando[h] /\ hizo'[h] = hizo[h] /\ vista'[h] = vista[h]
    BY <1>1, <1>5, TruncarHecho
  <2>0. vista[h].bloques = lista[h]
    <3>1. meta[Archivo(h)] = vista[h]
      BY <1>1, <1>5, TruncarHecho
    <3>2. QED
      BY <1>1, <1>3, <1>5, <3>1 DEF Fiel, SinArchivo
  <2>2. escritos' = escritos /\ lineas' = lineas
    BY <1>5 DEF Truncar
  <2>3. EnLinea(h)'
    BY <1>1, <1>3, <1>4, <2>1, <2>2 DEF EnLinea, EnCorto, Temprano
  <2>4. QED
    BY <1>1, <1>3, <1>5, <2>0, <2>3, TruncarVisto
<1>6. CASE /\ pc' = [pc EXCEPT ![h] = luego]
           /\ UNCHANGED <<disco, memoria, operacion, mensajes, sistema, historia>>
  <2>1. UNCHANGED <<meta, bloque, bitmap, sigue, creando, vista, lista, lineas, tomado, valor, escritos, hizo,
                    bandeja, actual, hecho>>
    BY <1>6 DEF disco, operacion, mensajes, historia
  <2>2. pc'[h] = luego /\ Pedido(h)' = Pedido(h) /\ Archivo(h)' = Archivo(h)
    BY <1>6, <2>1 DEF Tipos, Pedido, Archivo
  <2>3. Len(lista[h]) < BlocksOcupados(Archivo(h), Len(lineas[h]))
    <3>1. Len(lista[h]) = 0 /\ Len(lineas[h]) \in Nat
      BY <1>3, EmptySeq, LenProperties DEF Resto, Datos
    <3>2. BlocksOcupados(Archivo(h), Len(lineas[h])) \in Nat \ {0}
      BY <1>1, <3>1, BlocksOcupadosTipo
    <3>3. QED
      BY <3>1, <3>2
  <2>4. EnLinea(h)'
    BY <1>1, <1>3, <1>4, <2>1, <2>2, <2>3 DEF EnLinea, EnCorto, Temprano
  <2>5. EnCurso(h, K)' /\ ~Flujo(h) /\ luego \in Lugares
    BY <1>1, <1>3, <2>1, <2>2 DEF EnCurso, Flujo, ParaAgregar, Lugares
  <2>6. QED
    BY <1>3, <1>6, <2>1, <2>4, <2>5, AvanceFiel
<1>7. QED
  BY <1>5, <1>6 DEF CrearArchivo, luego

LEMMA AbrirFiel ==
  ASSUME Tipos, Resto, Resto', Orden, reinicios = 0, NEW K, Fiel(K), NEW h \in Hilos, Abrir(h),
         carreras' = {}, vivo' = "si"
  PROVE  Fiel(K)'
<1>1. vivo = "si" /\ pc[h] = "abrir"
  BY DEF Abrir
<1>2. EnSuLugar(h) /\ EnLinea(h)
  BY DEF Orden, Fiel
<1>3. /\ vista[h].bloques = lista[h] /\ hizo[h] = "nada" /\ escritos[h] = 0 /\ vista[h].abierto = "N"
      /\ ~creando[h]
  BY <1>1, <1>2 DEF EnSuLugar, Lugar, Creacion, EnLinea, Temprano, Tipos
<1>4. Truncar(h, Metadata(meta[Archivo(h)].bloques, "Y"), "bloques")
  BY DEF Abrir, UpdateOpenFileState, Morir
<1>5. /\ pc'[h] = "guardar" /\ sigue'[h] = "bloques" /\ creando'[h] = creando[h] /\ hizo'[h] = hizo[h]
  BY <1>1, <1>4, TruncarHecho
<1>6. escritos' = escritos
  BY <1>4 DEF Truncar
<1>7. EnLinea(h)'
  BY <1>3, <1>5, <1>6 DEF EnLinea, EnCorto, ParaCrear
<1>8. QED
  BY <1>1, <1>3, <1>4, <1>7, TruncarVisto

LEMMA CerrarFiel ==
  ASSUME Tipos, Resto, Resto', Orden, reinicios = 0, NEW K, Fiel(K), NEW h \in Hilos, Cerrar(h),
         carreras' = {}, vivo' = "si"
  PROVE  Fiel(K)'
<1>1. vivo = "si" /\ pc[h] = "cerrar"
  BY DEF Cerrar
<1>2. EnSuLugar(h)
  BY DEF Orden
<1>3. vista[h].bloques = lista[h] /\ ConElAbierto(h)
  BY <1>1, <1>2 DEF EnSuLugar, Lugar, Creacion, Tipos, ConElAbierto
<1>4. Truncar(h, Metadata(meta[Archivo(h)].bloques, "N"), "publicar")
  BY DEF Cerrar, UpdateOpenFileState, Morir
<1>5. pc'[h] = "guardar" /\ sigue'[h] = "publicar"
  BY <1>1, <1>4, TruncarHecho
<1>6. EnLinea(h)'
  BY <1>5, TruncarLinea
<1>7. QED
  BY <1>1, <1>3, <1>4, <1>6, TruncarVisto

LEMMA ActualizarOtraVezFiel ==
  ASSUME Tipos, Resto, Resto', Orden, reinicios = 0, NEW K, Fiel(K), NEW h \in Hilos, ActualizarOtraVez(h),
         carreras' = {}
  PROVE  Fiel(K)'
<1>1. vivo = "si" /\ pc[h] = "final" /\ Truncar(h, Metadata(lista[h], "N"), "publicar")
  BY DEF ActualizarOtraVez
<1>2. EnSuLugar(h)
  BY DEF Orden
<1>3. vista[h].bloques = lista[h] /\ (ConElAbierto(h) \/ vista[h].abierto = "N")
  BY <1>1, <1>2 DEF EnSuLugar, Lugar, Creacion, Tipos, ConElAbierto
<1>4. pc'[h] = "guardar" /\ sigue'[h] = "publicar"
  BY <1>1, TruncarHecho
<1>5. EnLinea(h)'
  BY <1>4, TruncarLinea
<1>6. QED
  BY <1>1, <1>3, <1>5, TruncarVisto

LEMMA ActualizarAbiertoFiel ==
  ASSUME Tipos, Resto, Resto', Orden, reinicios = 0, NEW K, Fiel(K), NEW h \in Hilos, ActualizarMetadata(h),
         carreras' = {}, ~creando[h]
  PROVE  Fiel(K)'
<1>1. vivo = "si" /\ pc[h] = "metadata" /\ Truncar(h, Metadata(lista[h], "N"), DespuesDeActualizar(h))
  BY DEF ActualizarMetadata
<1>2. EnLinea(h) /\ EnCurso(h, K) /\ ConElAbierto(h)
  BY <1>1 DEF Fiel, ConElAbierto
<1>3. Archivo(h) \in Cortos => Contiene(Archivo(h), lista[h], lineas[h]) /\ hizo[h] # "nada"
  BY <1>1, <1>2 DEF EnLinea, EnCorto
<1>4. PICK f0 \in Archivos : f0 = Archivo(h)
  BY <1>1, PedidoValido
<1>5. Contiene(f0, lista[h], K[f0])
  BY <1>1, <1>2, <1>3, <1>4 DEF EnCurso, Flujo, Contiene
<1>6. /\ \A k \in Hilos \ {h} : Igual(k)
      /\ Pedido(h)' = Pedido(h) /\ pc'[h] = "guardar" /\ sigue'[h] = DespuesDeActualizar(h)
      /\ hizo'[h] = hizo[h] /\ creando'[h] = creando[h]
  BY <1>1, TruncarHecho
<1>7. lineas' = lineas /\ escritos' = escritos /\ hecho' = hecho
  BY <1>1 DEF Truncar
<1>8. EnLinea(h)'
  <2>1. /\ DespuesDeActualizar(h) \in {"publicar", "final", "vaciar", "soltar"}
        /\ DespuesDeActualizar(h) = "vaciar" => lineas[h] = <<>>
    BY DEF DespuesDeActualizar
  <2>2. QED
    BY <1>6, <1>7, <2>1 DEF EnLinea, EnCorto, Temprano, ParaCrear, PorCrear
<1>9. Ajenos(h)
  BY <1>6, <1>7 DEF Ajenos
<1>10. SumaIgual(h)
  BY <1>1, <1>6, <1>7, SumaMisma
<1>11. Saldo(K)' /\ Validas(K)
  BY <1>9, <1>10, SaldoIgual DEF Fiel, Resto
<1>12. QED
  BY <1>1, <1>2, <1>4, <1>5, <1>8, <1>11, TruncarFiel

\* The file that h creates gets its first line.
LEMMA ActualizarNuevoFiel ==
  ASSUME Tipos, Resto, Resto', Orden, reinicios = 0, NEW K, Fiel(K), NEW h \in Hilos, ActualizarMetadata(h),
         carreras' = {}, creando[h], Archivo(h) \in Cortos
  PROVE  \E K2 : Fiel(K2)'
<1>1. vivo = "si" /\ pc[h] = "metadata" /\ Truncar(h, Metadata(lista[h], "N"), "publicar")
  BY DEF ActualizarMetadata, DespuesDeActualizar
<1>2. EnLinea(h) /\ EnSuLugar(h)
  BY DEF Fiel, Orden
<1>3. /\ Contiene(Archivo(h), lista[h], lineas[h]) /\ vista[h].bloques = <<>>
      /\ lineas[h] = ConUnoMas(Pedido(h).pos, <<>>)
  BY <1>1, <1>2 DEF EnLinea, EnCorto, ParaCrear
<1>4. hizo[h] = "guardado" /\ (vista[h].existe # "si" \/ vista[h].abierto = "N")
  BY <1>1, <1>2 DEF EnSuLugar, Creacion, Lugar
<1>5. PICK f0 \in Archivos : f0 = Archivo(h)
  BY <1>1, PedidoValido
<1>6. PICK p0 \in Posiciones : p0 = Pedido(h).pos
  BY <1>1, PosValida
<1>7. PICK ls : ls = lineas[h]
  OBVIOUS
<1>8. K[f0] = <<>>
  <2>1. /\ meta[Archivo(h)] = vista[h] /\ vista[h].existe # "roto" /\ Archivo(h) \in Archivos
        /\ \A k \in Hilos \ {h} : ConElAbierto(k) \/ pc[k] = "guardar" => Archivo(k) # Archivo(h)
    BY <1>1, <1>4, TruncarSolo
  <2>2. Contiene(Archivo(h), vista[h].bloques, K[Archivo(h)])
    BY <2>1, VistaFiel DEF Flujo
  <2>3. LineasDe(f0, <<>>, bloque) = <<>>
    BY SinBloques
  <2>4. QED
    BY <1>3, <1>5, <2>2, <2>3 DEF Contiene
<1>9. /\ ls \in Seq(Linea) /\ UnaPorPosicion(ls)
      /\ Cantidad(p0, ls) = Cantidad(p0, K[f0]) + 1
      /\ \A q \in Posiciones : q # p0 => Cantidad(q, ls) = Cantidad(q, K[f0])
  <2>1. ls = ConUnoMas(p0, <<>>) /\ ls \in Seq(Linea) /\ UnaPorPosicion(<<>>) /\ <<>> \in Seq(Linea)
    BY <1>3, <1>6, <1>7, UnaLinea DEF Resto, Datos
  <2>2. /\ UnaPorPosicion(ConUnoMas(p0, <<>>))
        /\ Cantidad(p0, ConUnoMas(p0, <<>>)) = Cantidad(p0, <<>>) + 1
        /\ \A q : q # p0 => Cantidad(q, ConUnoMas(p0, <<>>)) = Cantidad(q, <<>>)
    BY <2>1, UnoMas
  <2>3. QED
    BY <1>8, <2>1, <2>2
<1>10. PICK K2 : Validas(K2) /\ K2[f0] = ls /\ \A f \in Archivos \ {f0} : K2[f] = K[f]
  BY <1>9, OtroContenido DEF Fiel
<1>11. CambiaPor(K, K2, f0, p0, 1)
  BY <1>9, <1>10 DEF CambiaPor
<1>12. /\ \A k \in Hilos \ {h} : Igual(k)
       /\ Pedido(h)' = Pedido(h) /\ Archivo(h)' = Archivo(h) /\ pc'[h] = "guardar" /\ sigue'[h] = "publicar"
       /\ hizo'[h] = hizo[h]
  BY <1>1, TruncarHecho
<1>13. escritos' = escritos /\ hecho' = hecho
  BY <1>1 DEF Truncar
<1>14. Ajenos(h)
  BY <1>12, <1>13 DEF Ajenos
<1>15. Saldo(K2)'
  <2>1. /\ f0 = Archivo(h)' /\ p0 = Pedido(h)'.pos /\ pc'[h] # "espera" /\ hizo'[h] = "guardado"
        /\ ~(creando'[h] /\ pc'[h] \in {"escribir", "metadata"})
    BY <1>4, <1>5, <1>6, <1>12
  <2> DEFINE w == "guardado"
  <2>2. w \in {"guardado", "atrapado"} /\ CambiaPor(K, K2, f0, p0, IF w = "guardado" THEN 1 ELSE -1)
    BY <1>11
  <2>3. Saldo(K) /\ Cuentas /\ Cuentas'
    BY DEF Fiel, Resto
  <2>4. hizo'[h] = w
    BY <2>1
  <2> HIDE DEF w
  <2>5. QED
    BY <1>1, <1>13, <1>14, <2>1, <2>2, <2>3, <2>4, SaldoUno
<1>16. EnLinea(h)'
  BY <1>12, TruncarLinea
<1>17. Contiene(f0, lista[h], K2[f0])
  BY <1>3, <1>5, <1>7, <1>10
<1>18. Fiel(K2)'
  BY <1>1, <1>4, <1>5, <1>10, <1>15, <1>16, <1>17, TruncarFiel
<1>19. QED
  BY <1>18

LEMMA GuardarFiel ==
  ASSUME Tipos, Resto, Resto', Orden, NEW K, Fiel(K), NEW h \in Hilos, Guardar(h), carreras = {}, vivo' = "si"
  PROVE  Fiel(K)'
<1>1. EnSuLugar(h) /\ EnLinea(h) /\ EnCurso(h, K) /\ pc[h] = "guardar"
  BY DEF Orden, Fiel, Guardar
<1>2. PICK f0 \in Archivos : f0 = Archivo(h)
  BY <1>1, PedidoValido
<1>3. config = f0
  BY <1>1, <1>2 DEF Orden, MetadataConDueno
<1>4. /\ meta' = [meta EXCEPT ![f0] = valor[h]]
      /\ vista' = [vista EXCEPT ![h] = valor[h]] /\ valor' = [valor EXCEPT ![h] = Roto]
      /\ pc' = [pc EXCEPT ![h] = sigue[h]]
      /\ UNCHANGED <<bloque, bitmap, sigue, creando, lista, lineas, tomado, escritos, hizo, bandeja, actual,
                     hecho>>
  BY <1>1, <1>3 DEF Guardar, Morir, mensajes, historia
<1>5. /\ valor[h].bloques = lista[h] /\ valor[h].existe = "si"
      /\ sigue[h] \in {"bloques", "pedir", "publicar", "final", "soltar", "vaciar"}
      /\ sigue[h] = "bloques" => ~creando[h]
      /\ sigue[h] = "pedir" => creando[h] /\ lista[h] = <<>>
  BY <1>1 DEF EnSuLugar, PorGuardar, Metadata
<1>6. /\ meta'[f0] = valor[h] /\ \A f \in Archivos \ {f0} : meta'[f] = meta[f]
      /\ vista'[h] = valor[h] /\ pc'[h] = sigue[h] /\ lista'[h] = lista[h] /\ lineas'[h] = lineas[h]
      /\ creando'[h] = creando[h] /\ hizo'[h] = hizo[h] /\ escritos'[h] = escritos[h]
      /\ Pedido(h)' = Pedido(h) /\ Archivo(h)' = f0
  BY <1>2, <1>4 DEF Tipos, Pedido, Archivo
<1>7. Contiene(f0, lista[h], K[f0])
  BY <1>1, <1>2 DEF EnCurso, Contiene
<1>8. Ajenos(h)
  BY <1>4 DEF Ajenos, Igual, Tipos
<1>9. BloquesAjenos(h, f0)
  BY <1>4 DEF BloquesAjenos
<1>10. VaciaAjenos(h)
  BY <1>4 DEF VaciaAjenos, Fiel, EnLinea
<1>11. SumaIgual(h)
  <2>1. /\ pc[h] # "espera" /\ pc'[h] # "espera" /\ pc[h] \notin {"escribir", "metadata"}
        /\ pc'[h] \notin {"escribir", "metadata"}
    BY <1>1, <1>5, <1>6
  <2>2. QED
    BY <1>4, <1>6, <2>1, SumaMisma
<1>12. Saldo(K)' /\ Validas(K)
  BY <1>8, <1>11, SaldoIgual DEF Fiel, Resto
<1>13. EnLinea(h)'
  <2>1. /\ sigue[h] \in {"bloques", "pedir"} => escritos[h] = 0 /\ hizo[h] = "nada"
        /\ sigue[h] = "vaciar" => lineas[h] = <<>>
        /\ sigue[h] = "pedir" /\ f0 \in Cortos => lineas[h] = ConUnoMas(Pedido(h).pos, <<>>)
    BY <1>1, <1>2, <1>5 DEF EnLinea, EnCorto, Temprano, ParaCrear, PorCrear
  <2>2. sigue[h] = "pedir" => Len(lista[h]) < BlocksOcupados(f0, Len(lineas[h]))
    <3>1. lista[h] = <<>> => Len(lista[h]) = 0
      BY EmptySeq
    <3>2. Len(lineas[h]) \in Nat
      BY LenProperties DEF Resto, Datos
    <3>3. BlocksOcupados(f0, Len(lineas[h])) \in Nat \ {0}
      BY <3>2, BlocksOcupadosTipo
    <3>4. QED
      BY <1>5, <3>1, <3>3
  <2>3. ParaCrear(h)' => sigue[h] = "pedir"
    BY <1>5, <1>6 DEF ParaCrear, PorCrear
  <2>4. Temprano(h)' => sigue[h] \in {"bloques", "pedir"}
    BY <1>5, <1>6 DEF Temprano
  <2>5. QED
    BY <1>5, <1>6, <2>1, <2>2, <2>3, <2>4 DEF EnLinea, EnCorto
<1>14. EnCurso(h, K)'
  BY <1>5, <1>6 DEF EnCurso, Flujo, ParaAgregar
<1>15. Estable(f0)' => Contiene(f0, meta[f0].bloques, K[f0])'
  BY <1>4, <1>5, <1>6, <1>7 DEF Contiene
<1>16. meta'[f0].existe = "no" => meta'[f0].bloques = <<>>
  BY <1>5, <1>6
<1>17. ~Flujo(h)
  BY <1>1 DEF Flujo
<1>18. QED
  BY <1>6, <1>8, <1>9, <1>10, <1>12, <1>13, <1>14, <1>15, <1>16, <1>17, PasoFiel

LEMMA LargoFront ==
  ASSUME NEW S, NEW s \in Seq(S), s # <<>>
  PROVE  Len(Front(s)) = Len(s) - 1
<1> DEFINE n == Len(s)
           t == SubSeq(s, 1, n - 1)
<1>1. n \in Nat \ {0} /\ DOMAIN s = 1..n /\ \A i \in 1..n : s[i] \in S
  BY EmptySeq, LenProperties, ElementOfSeq
<1>2. t \in Seq(S) /\ Len(t) = n - 1 /\ \A i \in 1..(n - 1) : t[i] = s[i]
  BY <1>1, SubSeqProperties
<1>3. Front(s) = t
  BY DEF Front
<1>4. QED
  BY <1>2, <1>3

\* Taking a pokemon away asks for as many blocks, or for one less.
LEMMA UnBloqueMenos ==
  ASSUME NEW f \in Cortos, NEW ls \in Seq(Linea), UnaPorPosicion(ls), NEW p, CoordinateExists(p, ls),
         NEW bs \in Seq(Bloques), Justos(f, bs, ls)
  PROVE  /\ bs # <<>>
         /\ LET n == BlocksOcupados(f, Len(ConUnoMenos(p, ls)))
            IN  /\ n \in Nat \ {0}
                /\ n < Len(bs) => Len(Front(bs)) = n
                /\ ~(n < Len(bs)) => Len(bs) = n
<1> DEFINE m == Len(ls)
           t == ConUnoMenos(p, ls)
           n == BlocksOcupados(f, Len(t))
<1>1. m \in Nat \ {0} /\ Len(bs) \in Nat /\ t \in Seq(Linea)
  <2>1. DOMAIN ls # {} /\ DOMAIN ls = 1..m /\ m \in Nat /\ Len(bs) \in Nat
    BY LenProperties DEF CoordinateExists
  <2>2. t \in Seq(Linea)
    BY ConUnoMenosTipo
  <2>3. QED
    BY <2>1, <2>2
<1>2. Len(t) = m \/ Len(t) = m - 1
  BY UnoMenos
<1>3. ls # <<>>
  BY <1>1, EmptySeq
<1>4. Len(bs) = BlocksOcupados(f, m)
  BY <1>3 DEF Justos
<1>5. Len(t) \in Nat
  BY <1>1, LenProperties
<1> HIDE DEF t
<1>6. n \in Nat \ {0} /\ BlocksOcupados(f, m) \in Nat \ {0}
  BY <1>1, <1>5, DeCortos, BlocksOcupadosTipo
<1>7. /\ BlocksOcupados(f, m - 1) <= BlocksOcupados(f, (m - 1) + 1)
      /\ BlocksOcupados(f, (m - 1) + 1) <= BlocksOcupados(f, m - 1) + 1
      /\ (m - 1) + 1 = m /\ BlocksOcupados(f, m - 1) \in Nat
  <2> HIDE DEF m
  <2>1. m - 1 \in Nat /\ (m - 1) + 1 = m
    BY <1>1
  <2>2. BlocksOcupados(f, m - 1) \in Nat
    BY <2>1, DeCortos, BlocksOcupadosTipo
  <2>3. /\ BlocksOcupados(f, m - 1) <= BlocksOcupados(f, (m - 1) + 1)
        /\ BlocksOcupados(f, (m - 1) + 1) <= BlocksOcupados(f, m - 1) + 1
    BY <2>1, OcupaSiguiente
  <2>4. QED
    BY <2>1, <2>2, <2>3
<1>8. n = BlocksOcupados(f, m) \/ n = BlocksOcupados(f, m - 1)
  BY <1>2
<1>9. bs # <<>>
  BY <1>4, <1>6, EmptySeq
<1>10. Len(Front(bs)) = Len(bs) - 1
  BY <1>9, LargoFront
<1>11. n <= Len(bs) /\ Len(bs) <= n + 1
  <2> HIDE DEF n
  <2>1. QED
    BY <1>4, <1>6, <1>7, <1>8
<1>12. (n < Len(bs) => Len(bs) - 1 = n) /\ (~(n < Len(bs)) => Len(bs) = n)
  <2> HIDE DEF n
  <2>1. QED
    BY <1>1, <1>6, <1>11
<1>13. QED
  BY <1>6, <1>9, <1>10, <1>12 DEF t

LEMMA OperateCatchNadaFiel ==
  ASSUME Tipos, Resto, Resto', Orden, NEW K, Fiel(K), NEW h \in Hilos, OperateCatch(h),
         ~CoordinateExists(Pedido(h).pos, LineasDe(Archivo(h), lista[h], bloque))
  PROVE  Fiel(K)'
<1>1. /\ pc[h] = "bloques" /\ pc' = [pc EXCEPT ![h] = "cerrar"]
      /\ UNCHANGED <<disco, sigue, creando, vista, lista, lineas, valor, escritos, hizo, tomado, mensajes, hecho>>
  BY DEF OperateCatch, historia
<1>2. hizo[h] = "nada" /\ escritos[h] = 0 /\ pc'[h] = "cerrar"
  BY <1>1 DEF Fiel, EnLinea, Temprano, Tipos
<1>3. EnLinea(h)' /\ EnCurso(h, K)' /\ ~Flujo(h)
  BY <1>1, <1>2 DEF EnLinea, EnCorto, EnCurso, Flujo, ParaAgregar, ParaCrear, PorCrear, Temprano
<1>4. "cerrar" \in Lugares
  BY DEF Lugares
<1>5. QED
  BY <1>1, <1>2, <1>3, <1>4, AvanceFiel DEF disco, mensajes

LEMMA OperateCatchFiel ==
  ASSUME Tipos, Resto, Resto', Orden, NEW K, Fiel(K), NEW h \in Hilos, OperateCatch(h),
         CoordinateExists(Pedido(h).pos, LineasDe(Archivo(h), lista[h], bloque)),
         Archivo(h) \in Cortos
  PROVE  \E K2 : Fiel(K2)'
<1>1. PICK bs : bs = lista[h]
  OBVIOUS
<1>2. PICK f0 : f0 = Archivo(h)
  OBVIOUS
<1>3. PICK p0 : p0 = Pedido(h).pos
  OBVIOUS
<1>4. PICK ls : ls = ConUnoMenos(Pedido(h).pos, LineasDe(Archivo(h), lista[h], bloque))
  OBVIOUS
<1> DEFINE suelta == ls = <<>> \/ BlocksOcupados(f0, Len(ls)) < Len(bs)
           nueva == IF ls = <<>> THEN <<>> ELSE IF suelta THEN Front(bs) ELSE bs
           luego == IF ls = <<>> THEN "metadata" ELSE "escribir"
<1>5. /\ f0 \in Cortos /\ pc[h] = "bloques" /\ Pedido(h).op = "CATCH"
      /\ lineas' = [lineas EXCEPT ![h] = ls] /\ hizo' = [hizo EXCEPT ![h] = "atrapado"]
      /\ \A k \in Hilos \ {h} : tomado'[k] = tomado[k]
      /\ lista' = [lista EXCEPT ![h] = nueva] /\ pc' = [pc EXCEPT ![h] = luego]
      /\ UNCHANGED <<disco, sigue, creando, vista, escritos, valor, mensajes, hecho>>
  BY <1>1, <1>2, <1>4 DEF OperateCatch, historia, Tipos
<1>6. /\ f0 \in Archivos /\ Contiene(f0, bs, K[f0]) /\ ~creando[h] /\ hizo[h] = "nada" /\ escritos[h] = 0
      /\ NadieMas(h, f0) /\ ConElAbierto(h)
  BY <1>1, <1>2, <1>5, AbiertoFiel DEF NadieMas
<1>7. /\ K[f0] \in Seq(Linea) /\ UnaPorPosicion(K[f0]) /\ bs \in Seq(Bloques) /\ p0 \in Posiciones
      /\ Justos(f0, bs, K[f0]) /\ ls = ConUnoMenos(p0, K[f0]) /\ CoordinateExists(p0, K[f0])
  <2>1. K[f0] \in Seq(Linea) /\ UnaPorPosicion(K[f0])
    BY <1>6 DEF Fiel, Validas
  <2>2. bs \in Seq(Bloques) /\ p0 \in Posiciones
    BY <1>1, <1>3, <1>5, PosValida DEF Tipos
  <2>3. Justos(f0, bs, K[f0]) /\ LineasDe(f0, lista[h], bloque) = K[f0]
    BY <1>1, <1>2, <1>5, <1>6 DEF Contiene
  <2>4. QED
    BY <1>2, <1>3, <1>4, <2>1, <2>2, <2>3
<1>8. /\ ls \in Seq(Linea) /\ UnaPorPosicion(ls)
      /\ Cantidad(p0, ls) = Cantidad(p0, K[f0]) - 1
      /\ \A q : q # p0 => Cantidad(q, ls) = Cantidad(q, K[f0])
  BY <1>7, UnoMenos, ConUnoMenosTipo
<1>9. /\ bs # <<>> /\ BlocksOcupados(f0, Len(ls)) \in Nat \ {0}
      /\ BlocksOcupados(f0, Len(ls)) < Len(bs) => Len(Front(bs)) = BlocksOcupados(f0, Len(ls))
      /\ ~(BlocksOcupados(f0, Len(ls)) < Len(bs)) => Len(bs) = BlocksOcupados(f0, Len(ls))
  BY <1>5, <1>7, UnBloqueMenos
<1>10. PICK K2 : Validas(K2) /\ K2[f0] = ls /\ \A f \in Archivos \ {f0} : K2[f] = K[f]
  BY <1>6, <1>8, OtroContenido DEF Fiel
<1>11. CambiaPor(K, K2, f0, p0, -1)
  <2> DEFINE c == Cantidad(p0, K[f0])
  <2>1. c \in Int
    BY <1>5, <1>6, <1>7, CantidadEntera DEF Fiel, Resto
  <2> HIDE DEF c
  <2>2. c - 1 = c + (-1)
    BY <2>1
  <2>3. Cantidad(p0, K2[f0]) = c + (-1)
    BY <1>8, <1>10, <2>2 DEF c
  <2>4. QED
    BY <1>8, <1>10, <2>3 DEF CambiaPor, c
<1>12. /\ pc'[h] = luego /\ lineas'[h] = ls /\ lista'[h] = nueva /\ escritos'[h] = 0
       /\ hizo'[h] = "atrapado" /\ ~creando'[h] /\ Pedido(h)' = Pedido(h) /\ Archivo(h)' = f0
  BY <1>2, <1>5, <1>6 DEF Tipos, Resto, Datos, Pedido, Archivo, mensajes
<1>13. EnLinea(h)'
  <2>1. CASE ls = <<>>
    <3>1. nueva = <<>> /\ luego = "metadata"
      BY <2>1
    <3>2. Contiene(f0, <<>>, <<>>)'
      <4>1. LineasDe(f0, <<>>, bloque') = <<>> /\ Len(<<>>) = 0
        BY <1>6, SinBloques, EmptySeq
      <4>2. QED
        BY <4>1 DEF Contiene, Justos
    <3>3. Contiene(f0, lista[h], lineas[h])'
      BY <1>12, <2>1, <3>1, <3>2 DEF Contiene
    <3>4. QED
      BY <1>12, <3>1, <3>3 DEF EnLinea, EnCorto, Temprano, ParaCrear
  <2>2. CASE ls # <<>>
    <3>1. luego = "escribir" /\ Len(nueva) = BlocksOcupados(f0, Len(ls))
      BY <1>9, <2>2
    <3>2. 1..0 = {} /\ 0 < Len(nueva)
      BY <1>9, <3>1
    <3>3. Escribiendo(h)'
      BY <1>5, <1>12, <2>2, <3>1, <3>2 DEF Escribiendo
    <3>4. QED
      BY <1>12, <3>1, <3>2, <3>3 DEF EnLinea, EnCorto, Temprano, ParaCrear
  <2>3. QED
    BY <2>1, <2>2
<1>14. EnCurso(h, K2)'
  BY <1>10, <1>12 DEF EnCurso, ParaAgregar
<1>15. Ajenos(h)
  BY <1>5 DEF Ajenos, Igual, Tipos, mensajes
<1>16. BloquesAjenos(h, f0)
  BY <1>5 DEF BloquesAjenos, disco
<1>17. VaciaAjenos(h)
  BY <1>5 DEF VaciaAjenos, Fiel, EnLinea, disco
<1>18. Saldo(K2)'
  <2>1. /\ f0 = Archivo(h)' /\ p0 = Pedido(h)'.pos /\ pc'[h] # "espera" /\ hecho' = hecho
        /\ ~(creando'[h] /\ pc'[h] \in {"escribir", "metadata"})
    BY <1>3, <1>5, <1>12
  <2> DEFINE w == "atrapado"
  <2>2. /\ w \in {"guardado", "atrapado"} /\ hizo'[h] = w
        /\ CambiaPor(K, K2, f0, p0, IF w = "guardado" THEN 1 ELSE -1)
    BY <1>11, <1>12
  <2>3. Saldo(K) /\ Cuentas /\ Cuentas'
    BY DEF Fiel, Resto
  <2> HIDE DEF w
  <2>4. QED
    BY <1>6, <1>15, <2>1, <2>2, <2>3, SaldoUno
<1>19. ~Estable(f0)' /\ ~Flujo(h)
  <2>1. Flujo(h)'
    BY <1>12 DEF Flujo
  <2>2. QED
    BY <1>5, <1>12, <2>1 DEF Estable, Flujo
<1>20. \A f \in Archivos \ {f0} : K2[f] = K[f] /\ meta'[f] = meta[f]
  BY <1>5, <1>10 DEF disco
<1>21. meta'[f0].existe = "no" => meta'[f0].bloques = <<>>
  BY <1>5, <1>6 DEF Fiel, SinArchivo, disco
<1>22. Fiel(K2)'
  BY <1>6, <1>10, <1>13, <1>14, <1>15, <1>16, <1>17, <1>18, <1>19, <1>20, <1>21, PasoFiel
<1>23. QED
  BY <1>22

\* A file that h creates does not count until its Metadata.bin gets the block.
LEMMA SumaCreando ==
  ASSUME NEW h \in Hilos, creando[h], creando'[h], pc[h] \in {"escribir", "metadata"},
         pc'[h] \in {"escribir", "metadata"}, hecho' = hecho
  PROVE  SumaIgual(h)
<1>1. \A f, p, w : ~Cuenta(h, f, p, w) /\ ~Cuenta(h, f, p, w)'
  BY DEF Cuenta
<1>2. \A f, p : /\ Bit(Cuenta(h, f, p, "guardado"))' = Bit(Cuenta(h, f, p, "guardado"))
                /\ Bit(Cuenta(h, f, p, "atrapado"))' = Bit(Cuenta(h, f, p, "atrapado"))
  BY <1>1 DEF Bit
<1>3. QED
  BY <1>2 DEF SumaIgual, Suma

\* A block more of the list is written.
LEMMA EscribirBloque ==
  ASSUME Tipos, Resto, Resto', Orden, NEW K, Fiel(K), NEW h \in Hilos, EscribirBlock(h)
  PROVE  /\ EnLinea(h)' /\ Ajenos(h) /\ VaciaAjenos(h)
         /\ pc[h] = "escribir" /\ pc'[h] \in {"escribir", "metadata"}
         /\ Archivo(h) \in Cortos =>
              /\ hizo'[h] # "nada" /\ (hizo[h] # "nada" => hizo'[h] = hizo[h])
              /\ hizo[h] = "nada" => hizo'[h] = "guardado" /\ Pedido(h).op = "NEW"
         /\ creando'[h] = creando[h] /\ lineas'[h] = lineas[h] /\ lista'[h] = lista[h]
         /\ Pedido(h)' = Pedido(h) /\ Archivo(h)' = Archivo(h)
         /\ UNCHANGED <<meta, bitmap, hecho>>
         /\ \A k \in Hilos \ {h} : \A y \in EnMano(k) : bloque'[y] = bloque[y]
         /\ \A f \in Archivos : ~(f = Archivo(h) /\ ConElAbierto(h)) =>
              \A y \in Range(meta[f].bloques) : bloque'[y] = bloque[y]
<1>1. PICK bs : bs = lista[h]
  OBVIOUS
<1>2. PICK ls : ls = lineas[h]
  OBVIOUS
<1>3. PICK i : i = escritos[h] + 1
  OBVIOUS
<1>0. PICK f0 : f0 = Archivo(h)
  OBVIOUS
<1> DEFINE n == Len(bs)
           ultimo == i >= n \/ i >= BlocksOcupados(f0, Len(ls))
           luego == IF ultimo THEN "metadata" ELSE "escribir"
<1>4. /\ pc[h] = "escribir" /\ bloque' = [bloque EXCEPT ![bs[i]] = Trozo(f0, ls, i)]
      /\ escritos' = [escritos EXCEPT ![h] = i]
      /\ hizo' = [hizo EXCEPT ![h] = IF Pedido(h).op = "NEW" THEN "guardado" ELSE hizo[h]]
      /\ pc' = [pc EXCEPT ![h] = luego]
      /\ UNCHANGED <<meta, bitmap, sigue, creando, vista, lista, lineas, tomado, valor, mensajes, hecho>>
  BY <1>0, <1>1, <1>2, <1>3 DEF EscribirBlock, historia
<1>5. /\ EnLinea(h) /\ EnSuLugar(h) /\ escritos[h] < Len(lista[h])
      /\ f0 \in Cortos => Escribiendo(h)
  BY <1>0, <1>4 DEF Fiel, EnLinea, EnCorto, Orden
<1>6. /\ bs \in Seq(Bloques) /\ ls \in Seq(Linea) /\ escritos[h] \in Nat
      /\ bloque \in [Bloques -> Seq(Linea)] /\ bloque' \in [Bloques -> Seq(Linea)]
  BY <1>1, <1>2 DEF Tipos, Resto, Datos
<1>7. /\ escritos[h] < n
      /\ f0 \in Cortos =>
           /\ ls # <<>> /\ n = BlocksOcupados(f0, Len(ls))
           /\ \A j \in 1..escritos[h] : bloque[bs[j]] = Trozo(f0, ls, j)
  BY <1>0, <1>1, <1>2, <1>5 DEF Escribiendo
<1>8. n \in Nat /\ DOMAIN bs = 1..n /\ i \in 1..n /\ \A j \in 1..n : bs[j] \in Bloques
  <2>1. n \in Nat /\ DOMAIN bs = 1..n /\ \A j \in 1..n : bs[j] \in Bloques
    BY <1>6, LenProperties, ElementOfSeq
  <2>2. QED
    BY <1>3, <1>6, <1>7, <2>1
<1>9. (i = n => ultimo) /\ (f0 \in Cortos /\ ultimo => i = n)
  <2>1. i = n => ultimo
    BY <1>8
  <2>2. ASSUME f0 \in Cortos, ultimo
        PROVE  i = n
    <3>1. i >= n
      BY <1>7, <2>2
    <3> HIDE DEF n
    <3>2. QED
      BY <1>8, <3>1
  <2>3. QED
    BY <2>1, <2>2
<1> HIDE DEF n
<1>10. IsInjective(bs)
  BY <1>1, <1>4, <1>5 DEF EnSuLugar, SinRepetir, ConTomado, ConLista
<1>11. f0 \in Cortos => \A j \in 1..i : bloque'[bs[j]] = Trozo(f0, ls, j)
  <2> SUFFICES ASSUME f0 \in Cortos, NEW j \in 1..i PROVE bloque'[bs[j]] = Trozo(f0, ls, j)
    OBVIOUS
  <2>1. j \in 1..n /\ (j = i \/ j \in 1..escritos[h])
    BY <1>3, <1>6, <1>8
  <2>2. CASE j = i
    BY <1>4, <1>6, <1>8, <2>2
  <2>3. CASE j # i
    <3>1. bs[j] # bs[i]
      BY <1>8, <1>10, <2>1, <2>3 DEF IsInjective
    <3>2. bloque'[bs[j]] = bloque[bs[j]]
      BY <1>4, <1>6, <1>8, <2>1, <3>1
    <3>3. QED
      BY <1>7, <2>1, <2>3, <3>2
  <2>4. QED
    BY <2>2, <2>3
<1>12. /\ pc'[h] = luego /\ escritos'[h] = i /\ hizo'[h] = IF Pedido(h).op = "NEW" THEN "guardado" ELSE hizo[h]
       /\ creando'[h] = creando[h] /\ lineas'[h] = ls /\ lista'[h] = bs /\ vista'[h] = vista[h]
       /\ Pedido(h)' = Pedido(h) /\ Archivo(h)' = f0 /\ sigue'[h] = sigue[h]
  BY <1>0, <1>1, <1>2, <1>4 DEF Tipos, Resto, Datos, Pedido, Archivo, mensajes
<1>13. f0 \in Cortos =>
         /\ hizo'[h] # "nada" /\ (hizo[h] # "nada" => hizo'[h] = hizo[h])
         /\ hizo[h] = "nada" => hizo'[h] = "guardado" /\ Pedido(h).op = "NEW"
  <2> SUFFICES ASSUME f0 \in Cortos
               PROVE  /\ hizo'[h] # "nada" /\ (hizo[h] # "nada" => hizo'[h] = hizo[h])
                      /\ hizo[h] = "nada" => hizo'[h] = "guardado" /\ Pedido(h).op = "NEW"
    OBVIOUS
  <2>1. hizo[h] = "nada" => Pedido(h).op = "NEW"
    BY <1>5 DEF Escribiendo
  <2>2. hizo[h] = "atrapado" => Pedido(h).op # "NEW"
    BY <1>5 DEF Escribiendo
  <2>3. hizo[h] \in {"nada", "guardado", "atrapado"}
    BY DEF Tipos
  <2>4. QED
    BY <1>12, <2>1, <2>2, <2>3
<1>14. EnLinea(h)'
  <2>1. pc'[h] = "escribir" => i < n
    BY <1>8, <1>9, <1>12
  <2>2. ASSUME f0 \in Cortos, pc'[h] = "escribir"
        PROVE  Escribiendo(h)'
    <3>1. hizo'[h] = "atrapado" => Pedido(h)'.op # "NEW"
      BY <1>12
    <3>2. QED
      BY <1>7, <1>11, <1>12, <1>13, <2>2, <3>1 DEF Escribiendo, n
  <2>3. ASSUME f0 \in Cortos, pc'[h] = "metadata"
        PROVE  Contiene(f0, lista[h], lineas[h])'
    <3>1. i = n
      BY <1>9, <1>12, <2>3
    <3>2. \A j \in 1..Len(bs) : bloque'[bs[j]] = Trozo(f0, ls, j)
      BY <1>11, <2>3, <3>1 DEF n
    <3>3. LineasDe(f0, bs, bloque') = ls
      BY <1>6, <1>7, <2>3, <3>2, Trozos DEF n
    <3>4. Justos(f0, bs, ls)
      BY <1>7, <2>3 DEF Justos, n
    <3>5. QED
      BY <1>12, <3>3, <3>4 DEF Contiene
  <2>4. f0 \in Cortos /\ ParaCrear(h)' =>
          vista'[h].bloques = <<>> /\ lineas'[h] = ConUnoMas(Pedido(h)'.pos, <<>>)
    BY <1>0, <1>2, <1>4, <1>5, <1>12 DEF EnLinea, EnCorto, ParaCrear, PorCrear
  <2>5. ~Temprano(h)' /\ pc'[h] \in {"escribir", "metadata"}
    BY <1>12 DEF Temprano
  <2>6. ASSUME f0 \in Cortos
        PROVE  EnCorto(h)'
    BY <1>12, <1>13, <2>2, <2>3, <2>4, <2>5, <2>6 DEF EnCorto
  <2>7. QED
    BY <1>12, <2>1, <2>5, <2>6 DEF EnLinea, n
<1>15. Ajenos(h) /\ VaciaAjenos(h)
  <2>1. Ajenos(h)
    BY <1>4 DEF Ajenos, Igual, Tipos, mensajes
  <2>2. VaciaAjenos(h)
    BY <1>4 DEF VaciaAjenos, Fiel, EnLinea
  <2>3. QED
    BY <2>1, <2>2
<1>16. bs[i] \in EnMano(h)
  BY <1>1, <1>4, <1>8, ConLineaEnMano DEF Range
<1>17. /\ \A k \in Hilos \ {h} : \A y \in EnMano(k) : bloque'[y] = bloque[y]
       /\ \A f \in Archivos : ~(f = Archivo(h) /\ ConElAbierto(h)) =>
            \A y \in Range(meta[f].bloques) : bloque'[y] = bloque[y]
  BY <1>4, <1>16, EscribeLoSuyo
<1>18. QED
  BY <1>0, <1>1, <1>2, <1>4, <1>12, <1>13, <1>14, <1>15, <1>17

LEMMA EscribirOtroFiel ==
  ASSUME Tipos, Resto, Resto', Orden, NEW K, Fiel(K), NEW h \in Hilos, EscribirBlock(h),
         creando[h] \/ hizo[h] # "nada", Archivo(h) \in Cortos
  PROVE  Fiel(K)'
<1>1. /\ EnLinea(h)' /\ Ajenos(h) /\ VaciaAjenos(h)
      /\ pc[h] = "escribir" /\ pc'[h] \in {"escribir", "metadata"}
      /\ hizo'[h] # "nada" /\ (hizo[h] # "nada" => hizo'[h] = hizo[h])
      /\ creando'[h] = creando[h] /\ lineas'[h] = lineas[h]
      /\ Pedido(h)' = Pedido(h) /\ Archivo(h)' = Archivo(h)
      /\ UNCHANGED <<meta, bitmap, hecho>>
      /\ \A k \in Hilos \ {h} : \A y \in EnMano(k) : bloque'[y] = bloque[y]
      /\ \A f \in Archivos : ~(f = Archivo(h) /\ ConElAbierto(h)) =>
           \A y \in Range(meta[f].bloques) : bloque'[y] = bloque[y]
  BY EscribirBloque
<1>2. PICK f0 \in Archivos : f0 = Archivo(h)
  BY <1>1, PedidoValido
<1>3. SumaIgual(h)
  <2>1. CASE creando[h]
    BY <1>1, <2>1, SumaCreando
  <2>2. CASE ~creando[h]
    <3>1. hizo'[h] = hizo[h] /\ pc[h] # "espera" /\ pc'[h] # "espera"
      BY <1>1, <2>2
    <3>2. QED
      BY <1>1, <2>2, <3>1, SumaMisma
  <2>3. QED
    BY <2>1, <2>2
<1>4. Saldo(K)' /\ Validas(K)
  BY <1>1, <1>3, SaldoIgual DEF Fiel, Resto
<1>5. BloquesAjenos(h, f0)
  BY <1>1, <1>2 DEF BloquesAjenos
<1>6. EnCurso(h, K)'
  <2>1. EnCurso(h, K)
    BY DEF Fiel
  <2>2. Flujo(h)' => Flujo(h)
    BY <1>1 DEF Flujo
  <2>3. ~ParaAgregar(h)'
    BY <1>1 DEF ParaAgregar
  <2>4. QED
    BY <1>1, <2>1, <2>2, <2>3 DEF EnCurso
<1>7. Estable(f0)' => Contiene(f0, meta[f0].bloques, K[f0])'
  <2>1. CASE ~creando[h]
    <3>1. Flujo(h)'
      BY <1>1, <2>1 DEF Flujo
    <3>2. QED
      BY <1>1, <1>2, <3>1 DEF Estable
  <2>2. CASE creando[h]
    <3>1. ~ConElAbierto(h) /\ ~Flujo(h)
      BY <2>2 DEF ConElAbierto, Flujo
    <3>0. meta[f0].bloques \in Seq(Bloques)
      BY DEF Tipos, MetadataBin
    <3>2. LineasDe(f0, meta[f0].bloques, bloque') = LineasDe(f0, meta[f0].bloques, bloque)
      BY <1>1, <1>2, <3>0, <3>1, LineasIguales
    <3>3. \A k \in Hilos \ {h} : Flujo(k)' = Flujo(k) /\ Archivo(k)' = Archivo(k)
      BY <1>1 DEF Ajenos, Igual, Flujo, Archivo, Pedido
    <3>4. Estable(f0)' => Estable(f0)
      BY <1>1, <3>1, <3>3 DEF Estable
    <3>5. Estable(f0) => Contiene(f0, meta[f0].bloques, K[f0])
      BY DEF Fiel, EnArchivos
    <3>6. QED
      BY <1>1, <3>2, <3>4, <3>5 DEF Contiene
  <2>3. QED
    BY <2>1, <2>2
<1>8. \A f \in Archivos \ {f0} : K[f] = K[f] /\ meta'[f] = meta[f]
  BY <1>1
<1>9. meta'[f0].existe = "no" => meta'[f0].bloques = <<>>
  BY <1>1 DEF Fiel, SinArchivo
<1>10. QED
  BY <1>1, <1>2, <1>4, <1>5, <1>6, <1>7, <1>8, <1>9, PasoFiel

\* The first block of a file that grows: from now on it holds a pokemon more.
LEMMA EscribirPrimeroFiel ==
  ASSUME Tipos, Resto, Resto', Orden, NEW K, Fiel(K), NEW h \in Hilos, EscribirBlock(h),
         ~creando[h], hizo[h] = "nada", Archivo(h) \in Cortos
  PROVE  \E K2 : Fiel(K2)'
<1>1. /\ EnLinea(h)' /\ Ajenos(h) /\ VaciaAjenos(h)
      /\ pc[h] = "escribir" /\ pc'[h] \in {"escribir", "metadata"} /\ hizo'[h] = "guardado"
      /\ creando'[h] = creando[h] /\ lineas'[h] = lineas[h]
      /\ Pedido(h)' = Pedido(h) /\ Archivo(h)' = Archivo(h)
      /\ UNCHANGED <<meta, bitmap, hecho>>
      /\ \A k \in Hilos \ {h} : \A y \in EnMano(k) : bloque'[y] = bloque[y]
      /\ \A f \in Archivos : ~(f = Archivo(h) /\ ConElAbierto(h)) =>
           \A y \in Range(meta[f].bloques) : bloque'[y] = bloque[y]
  BY EscribirBloque
<1>2. PICK f0 \in Archivos : f0 = Archivo(h)
  BY <1>1, PedidoValido
<1>3. PICK p0 \in Posiciones : p0 = Pedido(h).pos
  BY <1>1, PosValida
<1>4. PICK ls : ls = lineas[h]
  OBVIOUS
<1>5. ConElAbierto(h)
  BY <1>1 DEF ConElAbierto
<1>6. NadieMas(h, f0)
  <2>1. meta[f0] = vista[h] /\ Abierto(f0)
    BY <1>2, <1>5 DEF Orden, MetadataConDueno
  <2>2. \A k \in Hilos \ {h} : ConElAbierto(k) => Archivo(k) # f0
    BY <1>2, <1>5 DEF Orden, MetadataConDueno, UnoSolo
  <2>3. \A k \in Hilos \ {h} : pc[k] = "guardar" => Archivo(k) # f0
    <3> SUFFICES ASSUME NEW k \in Hilos, pc[k] = "guardar", Archivo(k) = f0 PROVE FALSE
      OBVIOUS
    <3>1. meta[Archivo(k)] = Roto
      BY DEF Orden, MetadataConDueno
    <3>2. QED
      BY <2>1, <3>1 DEF Roto, Abierto
  <2>4. QED
    BY <2>2, <2>3 DEF NadieMas
<1>7. /\ ls \in Seq(Linea) /\ UnaPorPosicion(ls)
      /\ Cantidad(p0, ls) = Cantidad(p0, K[f0]) + 1
      /\ \A q \in Posiciones : q # p0 => Cantidad(q, ls) = Cantidad(q, K[f0])
  <2>1. K[f0] \in Seq(Linea) /\ UnaPorPosicion(K[f0])
    BY DEF Fiel, Validas
  <2>2. ls = ConUnoMas(p0, K[f0])
    <3>1. ParaAgregar(h) /\ EnCurso(h, K)
      BY <1>1 DEF ParaAgregar, Fiel
    <3>2. QED
      BY <1>2, <1>3, <1>4, <3>1 DEF EnCurso
  <2>3. ls \in Seq(Linea)
    BY <1>4 DEF Resto, Datos
  <2>4. QED
    BY <2>1, <2>2, <2>3, UnoMas
<1>8. PICK K2 : Validas(K2) /\ K2[f0] = ls /\ \A f \in Archivos \ {f0} : K2[f] = K[f]
  BY <1>7, OtroContenido DEF Fiel
<1>9. CambiaPor(K, K2, f0, p0, 1)
  BY <1>7, <1>8 DEF CambiaPor
<1>10. Saldo(K2)'
  <2>1. /\ f0 = Archivo(h)' /\ p0 = Pedido(h)'.pos /\ pc'[h] # "espera" /\ hecho' = hecho
        /\ ~(creando'[h] /\ pc'[h] \in {"escribir", "metadata"})
    BY <1>1, <1>2, <1>3
  <2> DEFINE w == "guardado"
  <2>2. /\ w \in {"guardado", "atrapado"} /\ hizo'[h] = w
        /\ CambiaPor(K, K2, f0, p0, IF w = "guardado" THEN 1 ELSE -1)
    BY <1>1, <1>9
  <2>3. Saldo(K) /\ Cuentas /\ Cuentas'
    BY DEF Fiel, Resto
  <2> HIDE DEF w
  <2>4. QED
    BY <1>1, <2>1, <2>2, <2>3, SaldoUno
<1>11. BloquesAjenos(h, f0)
  BY <1>1, <1>2 DEF BloquesAjenos
<1>12. EnCurso(h, K2)'
  BY <1>1, <1>2, <1>4, <1>8 DEF EnCurso, ParaAgregar
<1>13. ~Estable(f0)' /\ ~Flujo(h)
  <2>1. Flujo(h)'
    BY <1>1 DEF Flujo
  <2>2. QED
    BY <1>1, <1>2, <2>1 DEF Estable, Flujo
<1>14. \A f \in Archivos \ {f0} : K2[f] = K[f] /\ meta'[f] = meta[f]
  BY <1>1, <1>8
<1>15. meta'[f0].existe = "no" => meta'[f0].bloques = <<>>
  BY <1>1 DEF Fiel, SinArchivo
<1>16. Fiel(K2)'
  BY <1>1, <1>2, <1>6, <1>8, <1>10, <1>11, <1>12, <1>13, <1>14, <1>15, PasoFiel
<1>17. QED
  BY <1>16

\* The answer turns what h has done into what there should be.
SumaDe(h) == IF hizo[h] = "guardado" THEN 1 ELSE IF hizo[h] = "atrapado" THEN -1 ELSE 0
Responde(g, q, suma) == hecho' = [hecho EXCEPT ![g][q] = hecho[g][q] + suma]

LEMMA PublicarSuma ==
  ASSUME Cuentas, NEW h \in Hilos, NEW g, g = Archivo(h), NEW q, q = Pedido(h).pos, pc[h] = "publicar",
         pc'[h] = "espera", hizo[h] \in {"nada", "guardado", "atrapado"}, NEW suma,
         suma = SumaDe(h), Responde(g, q, suma)
  PROVE  SumaIgual(h)
<1> SUFFICES ASSUME NEW f \in Cortos, NEW p \in Posiciones PROVE Suma(h, f, p)' = Suma(h, f, p)
  BY DEF SumaIgual
<1> DEFINE i == hecho[f][p]
           x == Bit(Cuenta(h, f, p, "guardado"))
           y == Bit(Cuenta(h, f, p, "atrapado"))
<1>1. i \in Int /\ f \in Archivos
  BY DeCortos DEF Cuentas
<1>2. i' = IF f = g /\ p = q THEN i + suma ELSE i
  BY <1>1 DEF Cuentas, Responde
<1>3. x' = 0 /\ y' = 0
  BY DEF Cuenta, Trabaja, Bit
<1>4. \A w : Cuenta(h, f, p, w) <=> f = g /\ p = q /\ w = hizo[h]
  BY DEF Cuenta, Trabaja
<1>5. Suma(h, f, p) = i + x - y /\ Suma(h, f, p)' = i' + x' - y'
  BY DEF Suma
<1>6. /\ f = g /\ p = q => x - y = suma /\ x \in Int /\ y \in Int /\ suma \in Int
      /\ ~(f = g /\ p = q) => x = 0 /\ y = 0
  BY <1>4 DEF Bit, SumaDe
<1> HIDE DEF i, x, y
<1>7. i + x - y = IF f = g /\ p = q THEN i + suma ELSE i
  <2>1. CASE f = g /\ p = q
    BY <1>1, <1>6, <2>1
  <2>2. CASE ~(f = g /\ p = q)
    BY <1>1, <1>6, <2>2
  <2>3. QED
    BY <2>1, <2>2
<1>8. i' + x' - y' = i'
  <2>1. i' \in Int
    <3>1. CASE f = g /\ p = q
      BY <1>1, <1>2, <1>6, <3>1
    <3>2. CASE ~(f = g /\ p = q)
      BY <1>1, <1>2, <3>2
    <3>3. QED
      BY <3>1, <3>2
  <2>2. QED
    BY <1>3, <2>1
<1>9. QED
  BY <1>2, <1>5, <1>7, <1>8

LEMMA PublicarFiel ==
  ASSUME Tipos, Resto, Resto', NEW K, Fiel(K), NEW h \in Hilos, Publicar(h)
  PROVE  Fiel(K)'
<1> DEFINE suma == IF hizo[h] = "guardado" THEN 1 ELSE IF hizo[h] = "atrapado" THEN -1 ELSE 0
           p == Pedido(h)
<1>1. /\ pc[h] = "publicar" /\ pc' = [pc EXCEPT ![h] = "espera"] /\ hizo' = [hizo EXCEPT ![h] = "nada"]
      /\ hecho' = [hecho EXCEPT ![p.archivo][p.pos] = hecho[p.archivo][p.pos] + suma]
      /\ escritos' = [escritos EXCEPT ![h] = 0] /\ creando' = [creando EXCEPT ![h] = FALSE]
      /\ UNCHANGED disco /\ bandeja' = bandeja
  BY DEF Publicar, Reposo
<1>2. \A k \in Hilos \ {h} :
        /\ sigue'[k] = sigue[k] /\ vista'[k] = vista[k] /\ valor'[k] = valor[k] /\ lista'[k] = lista[k]
        /\ lineas'[k] = lineas[k] /\ tomado'[k] = tomado[k] /\ actual'[k] = actual[k]
        /\ bandeja'[k] = bandeja[k]
  BY DEF Publicar, Reposo
<1>3. pc'[h] = "espera" /\ hizo'[h] = "nada" /\ escritos'[h] = 0 /\ creando'[h] = FALSE
  BY <1>1 DEF Tipos, Resto, Datos
<1>4. SumaIgual(h)
  <2>1. hizo[h] \in {"nada", "guardado", "atrapado"} /\ p.archivo = Archivo(h)
    BY DEF Tipos, Archivo
  <2>2. Cuentas
    BY DEF Resto
  <2>3. PICK g : g = p.archivo
    OBVIOUS
  <2>4. PICK q : q = p.pos
    OBVIOUS
  <2>5. PICK s : s = suma
    OBVIOUS
  <2>6. hecho' = [hecho EXCEPT ![g][q] = hecho[g][q] + s]
    BY <1>1, <2>3, <2>4, <2>5
  <2>7. g = Archivo(h) /\ q = Pedido(h).pos
    BY <2>1, <2>3, <2>4
  <2>8. s = SumaDe(h) /\ Responde(g, q, s)
    BY <2>5, <2>6 DEF SumaDe, Responde
  <2>9. pc[h] = "publicar"
    BY <1>1
  <2>10. QED
    BY <1>3, <2>1, <2>2, <2>7, <2>8, <2>9, PublicarSuma
<1>5. Ajenos(h)
  <2>1. \A k \in Hilos \ {h} : /\ pc'[k] = pc[k] /\ hizo'[k] = hizo[k]
                              /\ escritos'[k] = escritos[k] /\ creando'[k] = creando[k]
    BY <1>1 DEF Tipos, Resto, Datos
  <2>2. QED
    BY <1>1, <1>2, <2>1 DEF Ajenos, Igual
<1>6. EnLinea(h)' /\ EnCurso(h, K)' /\ ~Flujo(h)
  BY <1>1, <1>3 DEF EnLinea, EnCorto, EnCurso, Flujo, ParaAgregar, ParaCrear, PorCrear
<1>7. meta' = meta /\ bloque' = bloque /\ bitmap' \subseteq bitmap
  BY <1>1 DEF disco
<1>8. QED
  BY <1>4, <1>5, <1>6, <1>7, SinTocar, QuietoFiel

\* What the content depends on.
leido == <<meta, bloque, bitmap, pc, sigue, creando, vista, lista, lineas, tomado, escritos, hizo,
           bandeja, actual, hecho>>

LEMMA LeidoIgual ==
  ASSUME NEW K, Fiel(K), UNCHANGED leido
  PROVE  Fiel(K)'
<1>1. \A k \in Hilos : /\ Pedido(k)' = Pedido(k) /\ Archivo(k)' = Archivo(k)
                       /\ Flujo(k)' = Flujo(k) /\ ParaAgregar(k)' = ParaAgregar(k)
                       /\ ParaCrear(k)' = ParaCrear(k) /\ Temprano(k)' = Temprano(k)
  BY DEF leido, Pedido, Archivo, Flujo, ParaAgregar, ParaCrear, PorCrear, Temprano
<1>2. \A f, bs, ls : Contiene(f, bs, ls)' = Contiene(f, bs, ls)
  BY DEF leido, Contiene
<1>3. \A k \in Hilos : Escribiendo(k)' = Escribiendo(k)
  BY <1>1 DEF leido, Escribiendo
<1>4. \A k \in Hilos : EnLinea(k)' /\ EnCurso(k, K)'
  <2> SUFFICES ASSUME NEW k \in Hilos PROVE EnLinea(k)' /\ EnCurso(k, K)'
    OBVIOUS
  <2>1. EnLinea(k) /\ EnCurso(k, K)
    BY DEF Fiel
  <2>2. EnLinea(k)'
    BY <1>1, <1>2, <1>3, <2>1 DEF leido, EnLinea, EnCorto, Contiene
  <2>3. EnCurso(k, K)'
    BY <1>1, <1>2, <2>1 DEF leido, EnCurso, Contiene
  <2>4. QED
    BY <2>2, <2>3
<1>5. Saldo(K)'
  <2>1. \A f, p, w : Pendientes(f, p, w)' = Pendientes(f, p, w)
    <3> SUFFICES ASSUME NEW f, NEW p, NEW w PROVE Pendientes(f, p, w)' = Pendientes(f, p, w)
      OBVIOUS
    <3>1. \A k \in Hilos : Cuenta(k, f, p, w)' = Cuenta(k, f, p, w)
      BY <1>1 DEF leido, Cuenta, Trabaja
    <3>2. {k \in Hilos : Cuenta(k, f, p, w)'} = {k \in Hilos : Cuenta(k, f, p, w)}
      BY <3>1
    <3>3. QED
      BY <3>2 DEF Pendientes
  <2>2. QED
    BY <2>1 DEF Fiel, Saldo, leido
<1>6. EnArchivos(K)' /\ SinArchivo' /\ Validas(K)'
  <2>1. \A f \in Archivos : Estable(f)' = Estable(f)
    BY <1>1 DEF Estable, leido
  <2>2. EnArchivos(K)'
    BY <2>1 DEF Fiel, EnArchivos, leido, Contiene
  <2>3. SinArchivo' /\ Validas(K)'
    BY DEF Fiel, SinArchivo, Validas, leido
  <2>4. QED
    BY <2>2, <2>3
<1>7. QED
  BY <1>4, <1>5, <1>6 DEF Fiel

------------------------------------------------------------------------------
(* The steps on a file of longer lines. *)

LEMMA OperateNewLargo ==
  ASSUME Tipos, Resto, Resto', Orden, NEW K, Fiel(K), NEW h \in Hilos, OperateNew(h),
         Archivo(h) \notin Cortos
  PROVE  Fiel(K)'
<1>1. PICK f0 : f0 = Archivo(h)
  OBVIOUS
<1>2. PICK ls : ls = ConUnoMas(Pedido(h).pos, LineasDe(Archivo(h), lista[h], bloque))
  OBVIOUS
<1> DEFINE n == BlocksOcupados(f0, Len(ls))
           luego == IF ~(libres[h] > n) THEN "final" ELSE IF n > Len(lista[h]) THEN "pedir" ELSE "escribir"
<1>3. /\ pc[h] = "bloques" /\ lineas' = [lineas EXCEPT ![h] = ls] /\ pc' = [pc EXCEPT ![h] = luego]
      /\ UNCHANGED <<disco, sigue, creando, vista, lista, valor, escritos, hizo, tomado, mensajes, hecho>>
  BY <1>1, <1>2 DEF OperateNew, historia
<1>4. f0 \in Archivos /\ f0 \notin Cortos
  BY <1>1, <1>3, PedidoValido
<1>5. hizo[h] = "nada" /\ escritos[h] = 0
  BY <1>3 DEF Fiel, EnLinea, Temprano
<1>6. n \in Nat \ {0} /\ Len(lista[h]) \in Nat
  <2>1. lista[h] \in Seq(Bloques) /\ bloque \in [Bloques -> Seq(Linea)] /\ Pedido(h).pos \in Posiciones
    BY <1>3, PosValida DEF Tipos, Resto, Datos
  <2>2. ls \in Seq(Linea)
    BY <1>1, <1>2, <1>4, <2>1, LineasTipo, ConUnoMasTipo
  <2>3. Len(ls) \in Nat /\ Len(lista[h]) \in Nat
    BY <2>1, <2>2, LenProperties
  <2>4. QED
    BY <1>4, <2>3, BlocksOcupadosTipo
<1>7. /\ pc'[h] = luego /\ lista'[h] = lista[h] /\ escritos'[h] = 0 /\ hizo'[h] = "nada"
      /\ Pedido(h)' = Pedido(h) /\ Archivo(h)' = f0
  BY <1>1, <1>3, <1>5 DEF Tipos, Pedido, Archivo, mensajes
<1>8. luego \in {"final", "pedir", "escribir"} /\ (luego = "escribir" => 0 < Len(lista[h]))
  <2> HIDE DEF n
  <2>1. QED
    BY <1>6
<1> HIDE DEF luego
<1>9. EnLinea(h)'
  BY <1>4, <1>7, <1>8 DEF EnLinea
<1>10. Ajenos(h)
  BY <1>3 DEF Ajenos, Igual, Tipos, mensajes
<1>11. BloquesAjenos(h, f0) /\ VaciaAjenos(h) /\ meta' = meta
  BY <1>3 DEF BloquesAjenos, VaciaAjenos, Fiel, EnLinea, disco
<1>12. meta'[f0].existe = "no" => meta'[f0].bloques = <<>>
  BY <1>4, <1>11 DEF Fiel, SinArchivo
<1>13. pc'[h] # "espera"
  BY <1>7, <1>8
<1>14. QED
  BY <1>1, <1>3, <1>4, <1>7, <1>9, <1>10, <1>11, <1>12, <1>13, PasoLargo

LEMMA ConfBloqueLargo ==
  ASSUME Tipos, Resto, Resto', Orden, NEW K, Fiel(K), NEW h \in Hilos, ConfBloque(h), carreras' = {},
         Archivo(h) \notin Cortos
  PROVE  Fiel(K)'
<1>1. PICK f0 : f0 = Archivo(h)
  OBVIOUS
<1>2. PICK b : b = tomado[h]
  OBVIOUS
<1> DEFINE lleva == Append(lista[h], b)
           luego == IF Len(lleva) < BlocksOcupados(f0, Len(lineas[h])) THEN "pedir" ELSE "escribir"
<1>3. /\ pc[h] = "marcar" /\ bitmap' = bitmap \cup {b}
      /\ lista' = [lista EXCEPT ![h] = lleva] /\ tomado' = [tomado EXCEPT ![h] = -1]
      /\ pc' = [pc EXCEPT ![h] = luego]
      /\ UNCHANGED <<meta, bloque, sigue, creando, vista, lineas, escritos, valor, hizo, mensajes, hecho>>
  BY <1>1, <1>2 DEF ConfBloque
<1>4. ~\E k \in Hilos \ {h} : pc[k] = "vaciar" /\ tomado[k] = b
  BY <1>2 DEF ConfBloque
<1>5. f0 \in Archivos /\ f0 \notin Cortos
  BY <1>1, <1>3, PedidoValido
<1>6. hizo[h] = "nada" /\ escritos[h] = 0
  BY <1>3 DEF Fiel, EnLinea, Temprano
<1>7. Len(lleva) \in Nat \ {0}
  <2>1. lista[h] \in Seq(Bloques) /\ b \in Bloques
    BY <1>2, <1>3 DEF Tipos, Orden, EnSuLugar, Lugar
  <2>2. Len(lleva) = Len(lista[h]) + 1 /\ Len(lista[h]) \in Nat
    BY <2>1, AppendProperties, LenProperties
  <2>3. QED
    BY <2>2
<1> HIDE DEF lleva
<1>8. /\ pc'[h] = luego /\ lista'[h] = lleva /\ escritos'[h] = 0 /\ hizo'[h] = "nada"
      /\ Pedido(h)' = Pedido(h) /\ Archivo(h)' = f0
  BY <1>1, <1>3, <1>6 DEF Tipos, Pedido, Archivo, mensajes
<1>9. luego \in {"pedir", "escribir"} /\ 0 < Len(lleva)
  BY <1>7
<1> HIDE DEF luego
<1>10. EnLinea(h)'
  BY <1>5, <1>8, <1>9 DEF EnLinea
<1>11. Ajenos(h)
  BY <1>3 DEF Ajenos, Igual, Tipos, mensajes
<1>12. BloquesAjenos(h, f0) /\ VaciaAjenos(h) /\ meta' = meta
  BY <1>3, <1>4 DEF BloquesAjenos, VaciaAjenos, Fiel, EnLinea
<1>13. meta'[f0].existe = "no" => meta'[f0].bloques = <<>>
  BY <1>5, <1>12 DEF Fiel, SinArchivo
<1>14. pc'[h] # "espera"
  BY <1>8, <1>9
<1>15. QED
  BY <1>1, <1>3, <1>5, <1>8, <1>10, <1>11, <1>12, <1>13, <1>14, PasoLargo

LEMMA OperateCatchLargo ==
  ASSUME Tipos, Resto, Resto', Orden, NEW K, Fiel(K), NEW h \in Hilos, OperateCatch(h),
         CoordinateExists(Pedido(h).pos, LineasDe(Archivo(h), lista[h], bloque)),
         Archivo(h) \notin Cortos
  PROVE  Fiel(K)'
<1>1. PICK f0 : f0 = Archivo(h)
  OBVIOUS
<1>2. PICK ls : ls = ConUnoMenos(Pedido(h).pos, LineasDe(Archivo(h), lista[h], bloque))
  OBVIOUS
<1>3. PICK bs : bs = lista[h]
  OBVIOUS
<1> DEFINE n == BlocksOcupados(f0, Len(ls))
           suelta == ls = <<>> \/ n < Len(bs)
           nueva == IF ls = <<>> THEN <<>> ELSE IF suelta THEN Front(bs) ELSE bs
           luego == IF ls = <<>> THEN "metadata" ELSE "escribir"
<1>4. /\ pc[h] = "bloques" /\ \A k \in Hilos \ {h} : tomado'[k] = tomado[k]
      /\ lineas' = [lineas EXCEPT ![h] = ls] /\ hizo' = [hizo EXCEPT ![h] = "atrapado"]
      /\ lista' = [lista EXCEPT ![h] = nueva] /\ pc' = [pc EXCEPT ![h] = luego]
      /\ UNCHANGED <<disco, sigue, creando, vista, escritos, valor, mensajes, hecho>>
  BY <1>1, <1>2, <1>3 DEF OperateCatch, historia, Tipos
<1>5. f0 \in Archivos /\ f0 \notin Cortos
  BY <1>1, <1>4, PedidoValido
<1>6. escritos[h] = 0
  BY <1>4 DEF Fiel, EnLinea, Temprano
<1>7. bs \in Seq(Bloques) /\ bs # <<>> /\ Len(bs) \in Nat \ {0} /\ Len(Front(bs)) = Len(bs) - 1
  <2>1. bs \in Seq(Bloques)
    BY <1>3 DEF Tipos
  <2>2. bs # <<>>
    BY <1>1, <1>3, <1>5, <2>1, AtrapaDeAlgunBloque
  <2>3. Len(bs) \in Nat \ {0}
    BY <2>1, <2>2, LenProperties, EmptySeq
  <2>4. QED
    BY <2>1, <2>2, <2>3, LargoFront
<1>8. n \in Nat \ {0}
  <2>1. bloque \in [Bloques -> Seq(Linea)]
    BY DEF Tipos, Resto, Datos
  <2>2. LineasDe(f0, bs, bloque) \in Seq(Linea)
    BY <1>5, <1>7, <2>1, LineasTipo
  <2>3. ls \in Seq(Linea)
    BY <1>1, <1>2, <1>3, <2>2, ConUnoMenosTipo
  <2>4. QED
    BY <1>5, <2>3, LenProperties, BlocksOcupadosTipo
<1>9. luego \in {"metadata", "escribir"} /\ (luego = "escribir" => 0 < Len(nueva))
  <2> HIDE DEF n
  <2>1. QED
    BY <1>7, <1>8
<1> HIDE DEF nueva, luego
<1>10. /\ pc'[h] = luego /\ lista'[h] = nueva /\ escritos'[h] = 0
       /\ Pedido(h)' = Pedido(h) /\ Archivo(h)' = f0
  BY <1>1, <1>4, <1>6 DEF Tipos, Pedido, Archivo, mensajes
<1>11. EnLinea(h)'
  BY <1>5, <1>9, <1>10 DEF EnLinea, Temprano
<1>12. Ajenos(h)
  BY <1>4 DEF Ajenos, Igual, Tipos, mensajes
<1>13. BloquesAjenos(h, f0) /\ VaciaAjenos(h) /\ meta' = meta
  BY <1>4 DEF BloquesAjenos, VaciaAjenos, Fiel, EnLinea, disco
<1>14. meta'[f0].existe = "no" => meta'[f0].bloques = <<>>
  BY <1>5, <1>13 DEF Fiel, SinArchivo
<1>15. pc'[h] # "espera"
  BY <1>9, <1>10
<1>16. QED
  BY <1>1, <1>4, <1>5, <1>10, <1>11, <1>12, <1>13, <1>14, <1>15, PasoLargo

LEMMA EscribirLargo ==
  ASSUME Tipos, Resto, Resto', Orden, NEW K, Fiel(K), NEW h \in Hilos, EscribirBlock(h),
         Archivo(h) \notin Cortos
  PROVE  Fiel(K)'
<1>1. /\ EnLinea(h)' /\ Ajenos(h) /\ VaciaAjenos(h)
      /\ pc[h] = "escribir" /\ pc'[h] \in {"escribir", "metadata"} /\ Pedido(h)' = Pedido(h)
      /\ UNCHANGED <<meta, hecho>>
      /\ \A k \in Hilos \ {h} : \A y \in EnMano(k) : bloque'[y] = bloque[y]
      /\ \A f \in Archivos : ~(f = Archivo(h) /\ ConElAbierto(h)) =>
           \A y \in Range(meta[f].bloques) : bloque'[y] = bloque[y]
  BY EscribirBloque
<1>2. PICK f0 \in Archivos : f0 = Archivo(h)
  BY <1>1, PedidoValido
<1>3. BloquesAjenos(h, f0)
  BY <1>1, <1>2 DEF BloquesAjenos
<1>4. meta'[f0].existe = "no" => meta'[f0].bloques = <<>>
  BY <1>1 DEF Fiel, SinArchivo
<1>5. QED
  BY <1>1, <1>2, <1>3, <1>4, PasoLargo

LEMMA ActualizarLargo ==
  ASSUME Tipos, Resto, Resto', Orden, NEW K, Fiel(K), NEW h \in Hilos, ActualizarMetadata(h),
         Archivo(h) \notin Cortos, creando[h]
  PROVE  Fiel(K)'
<1>1. pc[h] = "metadata" /\ Truncar(h, Metadata(lista[h], "N"), "publicar")
  BY DEF ActualizarMetadata, DespuesDeActualizar
<1>2. PICK f0 \in Archivos : f0 = Archivo(h)
  BY <1>1, PedidoValido
<1>3. /\ \A k \in Hilos \ {h} : Igual(k)
      /\ Pedido(h)' = Pedido(h) /\ pc'[h] = "guardar" /\ sigue'[h] = "publicar"
      /\ meta'[f0] = Roto /\ (\A f \in Archivos \ {f0} : meta'[f] = meta[f]) /\ bitmap' = bitmap
  BY <1>1, <1>2, TruncarHecho
<1>4. bloque' = bloque /\ escritos' = escritos /\ hecho' = hecho
  BY <1>1 DEF Truncar
<1>5. EnLinea(h)'
  BY <1>3, TruncarLinea
<1>6. Ajenos(h) /\ BloquesAjenos(h, f0) /\ VaciaAjenos(h)
  BY <1>3, <1>4 DEF Ajenos, BloquesAjenos, VaciaAjenos, Fiel, EnLinea
<1>7. meta'[f0].existe = "no" => meta'[f0].bloques = <<>>
  BY <1>3 DEF Roto
<1>8. QED
  BY <1>1, <1>2, <1>3, <1>4, <1>5, <1>6, <1>7, PasoLargo

------------------------------------------------------------------------------
(* The content is accounted for. *)

\* Without races nor deaths the files have a content that the answers account for.
HayContenido == carreras = {} /\ reinicios = 0 /\ vivo = "si" => \E K : Fiel(K)

LEMMA PasoSigue ==
  ASSUME NEW h \in Hilos, Paso(h)
  PROVE  vivo = "si" /\ reinicios' = reinicios
<1>1. \A v, luego : Truncar(h, v, luego) => reinicios' = reinicios
  BY DEF Truncar
<1>2. \A como : Morir(como) => reinicios' = reinicios
  BY DEF Morir
<1>3. \A o, luego : UpdateOpenFileState(h, o, luego) => reinicios' = reinicios
  BY <1>1, <1>2 DEF UpdateOpenFileState
<1>4. CASE Abrir(h) \/ Cerrar(h)
  BY <1>3, <1>4 DEF Abrir, Cerrar
<1>5. CASE ActualizarMetadata(h) \/ ActualizarOtraVez(h)
  BY <1>1, <1>5 DEF ActualizarMetadata, ActualizarOtraVez
<1>6. CASE CrearArchivo(h)
  BY <1>1, <1>6 DEF CrearArchivo, historia
<1>7. CASE LeerMetadata(h) \/ Guardar(h)
  BY <1>2, <1>7 DEF LeerMetadata, Guardar, historia
<1>8. CASE Empezar(h) \/ Publicar(h)
  BY <1>8 DEF Empezar, Publicar, historia
<1>9. CASE OperateNew(h) \/ OperateGet(h) \/ OperateCatch(h)
  BY <1>9 DEF OperateNew, OperateGet, OperateCatch, historia
<1>10. CASE BuscarLibre(h) \/ ConfBloque(h) \/ EscribirBlock(h) \/ LiberarBloque(h) \/ VaciarBloque(h)
  BY <1>10 DEF BuscarLibre, ConfBloque, EscribirBlock, LiberarBloque, VaciarBloque, historia
<1>11. QED
  BY <1>4, <1>5, <1>6, <1>7, <1>8, <1>9, <1>10 DEF Paso

LEMMA FielPaso ==
  ASSUME Tipos, Resto, Resto', Orden, reinicios = 0, carreras = {}, NEW K, Fiel(K), NEW h \in Hilos,
         Paso(h), carreras' = {}, vivo' = "si"
  PROVE  \E K2 : Fiel(K2)'
<1>1. CASE Empezar(h) \/ LeerMetadata(h) \/ OperateGet(h) \/ BuscarLibre(h)
  BY <1>1, EmpezarFiel, LeerMetadataFiel, OperateGetFiel, BuscarLibreFiel
<1>2. CASE CrearArchivo(h) \/ Abrir(h) \/ Cerrar(h) \/ ActualizarOtraVez(h)
  BY <1>2, CrearArchivoFiel, AbrirFiel, CerrarFiel, ActualizarOtraVezFiel
<1>3. CASE LiberarBloque(h) \/ VaciarBloque(h)
  BY <1>3, LiberarBloqueFiel, VaciarBloqueFiel
<1>4. CASE Guardar(h) \/ Publicar(h)
  BY <1>4, GuardarFiel, PublicarFiel
<1>5. CASE OperateNew(h) \/ ConfBloque(h)
  BY <1>5, OperateNewFiel, ConfBloqueFiel, OperateNewLargo, ConfBloqueLargo
<1>6. CASE OperateCatch(h)
  BY <1>6, OperateCatchNadaFiel, OperateCatchFiel, OperateCatchLargo
<1>7. CASE EscribirBlock(h)
  BY <1>7, EscribirOtroFiel, EscribirPrimeroFiel, EscribirLargo
<1>8. CASE ActualizarMetadata(h)
  BY <1>8, ActualizarAbiertoFiel, ActualizarNuevoFiel, ActualizarLargo
<1>9. QED
  BY <1>1, <1>2, <1>3, <1>4, <1>5, <1>6, <1>7, <1>8 DEF Paso

LEMMA FielInductivo ==
  ASSUME IInv, Resto, Resto', HayContenido, [Next]_vars
  PROVE  HayContenido'
<1> SUFFICES ASSUME carreras' = {}, reinicios' = 0, vivo' = "si"
             PROVE  \E K : Fiel(K)'
  BY DEF HayContenido
<1>1. ASSUME NEW h \in Hilos, Paso(h)
      PROVE  \E K : Fiel(K)'
  <2>1. carreras = {} /\ reinicios = 0 /\ vivo = "si"
    BY <1>1, CarrerasCrecen, PasoSigue
  <2>2. PICK K : Fiel(K)
    BY <2>1 DEF HayContenido
  <2>3. Tipos /\ Orden
    BY <2>1 DEF IInv
  <2>4. QED
    BY <1>1, <2>1, <2>2, <2>3, FielPaso
<1>2. ASSUME UNCHANGED leido, UNCHANGED <<carreras, reinicios, vivo>>
      PROVE  \E K : Fiel(K)'
  <2>1. PICK K : Fiel(K)
    BY <1>2 DEF HayContenido
  <2>2. Fiel(K)'
    BY <1>2, <2>1, LeidoIgual
  <2>3. QED
    BY <2>2
<1>3. ASSUME NEW h \in Hilos, EnviarAck(h) \/ PerderConexion(h)
      PROVE  \E K : Fiel(K)'
  <2>1. UNCHANGED leido /\ UNCHANGED <<carreras, reinicios, vivo>>
    BY <1>3 DEF EnviarAck, PerderConexion, leido, disco, operacion, sistema, historia
  <2>2. QED
    BY <1>2, <2>1
<1>4. CASE Caer
  BY <1>4 DEF Caer, Morir
<1>5. CASE Reiniciar
  <2>1. reinicios' = reinicios + 1 /\ reinicios \in Nat
    BY <1>5 DEF Reiniciar, IInv, Tipos
  <2>2. QED
    BY <2>1
<1>6. CASE UNCHANGED vars
  <2>1. UNCHANGED leido /\ UNCHANGED <<carreras, reinicios, vivo>>
    BY <1>6 DEF vars, leido, disco, operacion, mensajes, sistema, historia
  <2>2. QED
    BY <1>2, <2>1
<1>7. QED
  BY <1>1, <1>3, <1>4, <1>5, <1>6 DEF Next

LEMMA FielInicio == Init => HayContenido
<1> SUFFICES ASSUME Init PROVE \E K : Fiel(K)
  BY DEF HayContenido
<1>1. PICK c \in Casos : meta = c.meta /\ bloque = c.bloque /\ hecho = Guardado(c.meta, c.bloque)
  BY DEF Init
<1>2. /\ pc = [h \in Hilos |-> "espera"] /\ creando = [h \in Hilos |-> FALSE]
      /\ escritos = [h \in Hilos |-> 0] /\ hizo = [h \in Hilos |-> "nada"]
  BY DEF Init
<1>3. DiscoEnOrden(meta, bloque)
  BY <1>1, CasosAssumption
<1> DEFINE K == [f \in Archivos |-> IF f \in Cortos THEN LineasDe(f, meta[f].bloques, bloque) ELSE <<>>]
<1>4. \A f \in Archivos : /\ K[f] \in Seq(Linea) /\ UnaPorPosicion(K[f])
                          /\ f \in Cortos => /\ K[f] = LineasDe(f, meta[f].bloques, bloque)
                                            /\ Justos(f, meta[f].bloques, K[f])
  <2> SUFFICES ASSUME NEW f \in Archivos
               PROVE  /\ K[f] \in Seq(Linea) /\ UnaPorPosicion(K[f])
                      /\ f \in Cortos => /\ K[f] = LineasDe(f, meta[f].bloques, bloque)
                                        /\ Justos(f, meta[f].bloques, K[f])
    OBVIOUS
  <2>1. CASE f \in Cortos
    <3>1. K[f] = LineasDe(f, meta[f].bloques, bloque)
      BY <2>1
    <3>2. /\ meta[f].bloques \in Seq(Bloques) /\ bloque \in [Bloques -> Seq(Linea)]
          /\ UnaPorPosicion(LineasDe(f, meta[f].bloques, bloque))
          /\ Justos(f, meta[f].bloques, LineasDe(f, meta[f].bloques, bloque))
      BY <1>3, <2>1 DEF DiscoEnOrden, MetadataBin
    <3>3. LineasDe(f, meta[f].bloques, bloque) \in Seq(Linea)
      BY <3>2, LineasTipo
    <3> HIDE DEF K
    <3>4. QED
      BY <3>1, <3>2, <3>3
  <2>2. CASE f \notin Cortos
    <3>1. K[f] = <<>>
      BY <2>2
    <3>2. <<>> \in Seq(Linea) /\ DOMAIN <<>> = {}
      BY EmptySeq, LenProperties
    <3>3. UnaPorPosicion(<<>>)
      BY <3>2 DEF UnaPorPosicion
    <3> HIDE DEF K
    <3>4. QED
      BY <2>2, <3>1, <3>2, <3>3
  <2>3. QED
    BY <2>1, <2>2
<1>5. Validas(K)
  <2>1. DOMAIN K = Archivos /\ K = [f \in Archivos |-> K[f]]
    OBVIOUS
  <2> HIDE DEF K
  <2>2. QED
    BY <1>4, <2>1 DEF Validas
<1>6. EnArchivos(K)
  <2> HIDE DEF K
  <2>1. QED
    BY <1>4 DEF EnArchivos, Contiene
<1>7. SinArchivo
  BY <1>3 DEF SinArchivo, DiscoEnOrden
<1>8. Saldo(K)
  <2> SUFFICES ASSUME NEW f \in Cortos, NEW p \in Posiciones
               PROVE  Cantidad(p, K[f]) = hecho[f][p] + Pendientes(f, p, "guardado") - Pendientes(f, p, "atrapado")
    BY DEF Saldo
  <2>1. \A w : Pendientes(f, p, w) = 0
    <3>1. \A w : {h \in Hilos : Cuenta(h, f, p, w)} = {}
      BY <1>2 DEF Cuenta, Trabaja
    <3>2. QED
      BY <3>1, FS_EmptySet DEF Pendientes
  <2>2. hecho[f][p] = Cantidad(p, K[f])
    <3>1. f \in Archivos /\ K[f] = LineasDe(f, meta[f].bloques, bloque)
      BY DeCortos
    <3> HIDE DEF K
    <3>2. QED
      BY <1>1, <3>1 DEF Guardado
  <2>3. hecho[f][p] \in Int
    BY RestoInicio, DeCortos DEF Resto, Cuentas
  <2>4. QED
    <3> HIDE DEF K
    <3>1. hecho[f][p] = hecho[f][p] + 0 - 0
      BY <2>3
    <3>2. QED
      BY <2>1, <2>2, <3>1
<1>9. \A h \in Hilos : EnLinea(h) /\ EnCurso(h, K)
  BY <1>2 DEF EnLinea, EnCorto, EnCurso, Temprano, ParaCrear, ParaAgregar, PorCrear, Flujo
<1>10. Fiel(K)
  <2> HIDE DEF K
  <2>1. QED
    BY <1>5, <1>6, <1>7, <1>8, <1>9 DEF Fiel
<1>11. QED
  BY <1>10

\* Whatever the threads, the messages and their order, the disk in order and how many blocks the
\* lines of each file take: until a race or a death of the process, a file of lines that fit in a
\* block and that nobody works on has the pokemons that the answered NEW and CATCH leave, position
\* by position (operateNewPokemonFile, operateCatchPokemonFile, escribir_blocks,
\* actualizar_pokemon_metadata): no block of it is lost, kept, mixed up or written by another's
\* file, whatever is done to the files of longer lines.  Nothing is said of those: CATCH leaves
\* blocks over in them (gm_filesystem.c:621 and 640).
THEOREM ContenidosFieles == Spec => []ContenidoFiel
<1>1. IInv /\ Resto /\ HayContenido => ContenidoFiel
  <2> SUFFICES ASSUME IInv, Resto, HayContenido, carreras = {}, reinicios = 0, vivo = "si",
                      NEW f \in Cortos, ~ \E h \in Hilos : Trabaja(h, f)
               PROVE  Guardado(meta, bloque)[f] = hecho[f]
    BY DEF ContenidoFiel
  <2>0. f \in Archivos
    BY DeCortos
  <2>1. PICK K : Fiel(K)
    BY DEF HayContenido
  <2>2. Estable(f)
    <3>1. meta[f].existe # "roto"
      BY <2>0 DEF IInv, Orden, MetadataConDueno
    <3>2. \A h \in Hilos : Flujo(h) => Archivo(h) # f
      BY DEF Flujo, Trabaja
    <3>3. QED
      BY <3>1, <3>2 DEF Estable
  <2>3. LineasDe(f, meta[f].bloques, bloque) = K[f]
    BY <2>0, <2>1, <2>2 DEF Fiel, EnArchivos, Contiene
  <2>4. \A p, w : Pendientes(f, p, w) = 0
    <3>1. \A p, w : {h \in Hilos : Cuenta(h, f, p, w)} = {}
      BY DEF Cuenta
    <3>2. QED
      BY <3>1, FS_EmptySet DEF Pendientes
  <2>5. hecho[f] \in [Posiciones -> Int]
    BY <2>0 DEF Resto, Cuentas
  <2>6. ASSUME NEW p \in Posiciones
        PROVE  Cantidad(p, LineasDe(f, meta[f].bloques, bloque)) = hecho[f][p]
    <3>1. Cantidad(p, K[f]) = hecho[f][p] + 0 - 0
      BY <2>1, <2>4 DEF Fiel, Saldo
    <3>2. hecho[f][p] + 0 - 0 = hecho[f][p]
      BY <2>5
    <3>3. QED
      BY <2>3, <3>1, <3>2
  <2>7. QED
    BY <2>0, <2>5, <2>6 DEF Guardado
<1>2. Init => Resto /\ HayContenido
  BY RestoInicio, FielInicio
<1>3. IInv /\ Resto /\ HayContenido /\ [Next]_vars => Resto' /\ HayContenido'
  BY RestoInductivo, FielInductivo DEF IInv
<1>4. QED
  BY <1>1, <1>2, <1>3, Invariante, PTL DEF Spec
==============================================================================
