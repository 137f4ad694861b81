---------------------------- MODULE EquipoProofs ----------------------------
(****************************************************************************)
(* What the operators of Entrenadores, and those of Team that one step      *)
(* applies to a t_team, do to it, for any number of trainers, species and   *)
(* pokemons, every algorithm, quantum and ALPHA.                            *)
(*                                                                          *)
(* First what each operator computes: a sort keeps the elements (Ordenar..),*)
(* a difference of lists takes the counts apart (MenosCuenta), an exchange  *)
(* that both agreed on brings the one that asked nearer (IntercambiarHace), *)
(* planning gives idle trainers the pokemons it takes from the map          *)
(* (PlanificarHace), resolver_deadlock pairs blocked trainers               *)
(* (ResolverHace).  The folds are unrolled by the lemmas of Lemas.          *)
(*                                                                          *)
(* Then what they keep.  Todo is what holds of a t_team t of n trainers     *)
(* while the cpu is c, procesar_caught holds k and the mishaps are i: each  *)
(* trainer is where it should be (Puesto), the first loop of the planner    *)
(* has no exchanges (Fases), exchanges have two sides (Pares), and no       *)
(* pokemon or objective is lost (Cuentas).  There is a lemma ...Todo for    *)
(* each operator; they do not mention TEAM, so the same one serves every    *)
(* action that applies it.                                                  *)
(****************************************************************************)
EXTENDS Team, Lemas

LEMMA CantidadCuantos ==
  ASSUME NEW T, NEW s \in Seq(T), NEW x
  PROVE  Cantidad(s, x) = Cuantos(s, {x}) /\ Cantidad(s, x) \in Nat
<1>1. DOMAIN s = 1..Len(s)
  BY LenProperties
<1>2. {i \in DOMAIN s : s[i] = x} = {i \in 1..Len(s) : s[i] \in {x}}
  BY <1>1
<1>3. Cuantos(s, {x}) \in Nat
  BY CuantosTipo
<1>4. QED
  BY <1>2, <1>3 DEF Cantidad, Cuantos

\* Menos takes elements out one by one, and counts by subtraction.
LEMMA MenosCuenta ==
  ASSUME NEW T, NEW s \in Seq(T), NEW r \in Seq(T)
  PROVE  /\ Menos(s, r) \in Seq(T)
         /\ \A x \in T : Cuantos(Menos(s, r), {x}) =
              IF Cuantos(s, {x}) <= Cuantos(r, {x}) THEN 0
              ELSE Cuantos(s, {x}) - Cuantos(r, {x})
<1> DEFINE n == Len(r)
           S == Seq(T)
           paso == [k \in 1..n |-> [v \in S |-> RemoveFirst(v, r[k])]]
<1>1. n \in Nat /\ DOMAIN r = 1..n /\ \A k \in 1..n : r[k] \in T
  BY LenProperties, ElementOfSeq
<1>2. \A v \in S, x \in T : RemoveFirst(v, x) \in S
  BY QuitarUno
<1>3. n \in Nat /\ s \in S /\ paso \in Pasos(S, n)
  BY <1>1, <1>2 DEF Pasos
<1>4. PICK f : EsPliegue(f, S, n, s, paso)
  <2> HIDE DEF paso, n, S
  <2>1. QED
    BY <1>3, HayPliegue
<1>5. PICK c : /\ Menos(s, r) = c[1..n]
               /\ \A x \in SUBSET (1..n) :
                    c[x] = IF x = {} THEN s ELSE RemoveFirst(c[x \ {Max(x)}], r[Max(x)])
  <2> DEFINE Ec(it) == it = [x \in SUBSET (DOMAIN r) |->
                               IF x = {} THEN s ELSE RemoveFirst(it[x \ {Max(x)}], r[Max(x)])]
             d == CHOOSE it : Ec(it)
  <2>1. Menos(s, r) = d[DOMAIN r]
    BY DEF Menos, FoldLeft, MapThenFoldSet
  <2>2. f \in [SUBSET (1..n) -> S]
    BY <1>4 DEF EsPliegue
  <2>3. ASSUME NEW x \in SUBSET (1..n)
        PROVE  f[x] = IF x = {} THEN s ELSE RemoveFirst(f[x \ {Max(x)}], r[Max(x)])
    <3>1. f[x] = IF x = {} THEN s ELSE paso[Max(x)][f[x \ {Max(x)}]]
      BY <1>4 DEF EsPliegue
    <3>2. CASE x # {}
      <4>1. Max(x) \in 1..n /\ x \ {Max(x)} \in SUBSET (1..n)
        BY <1>1, <3>2, MaxEsta
      <4>2. f[x \ {Max(x)}] \in S
        BY <2>2, <4>1
      <4>3. QED
        BY <3>1, <3>2, <4>1, <4>2
    <3>3. QED
      BY <3>1, <3>2
  <2>4. Ec(f)
    BY <1>1, <2>2, <2>3
  <2>5. Ec(d)
    <3> HIDE DEF Ec
    <3>1. QED
      BY <2>4
  <2> HIDE DEF d
  <2>6. QED
    BY <1>1, <2>1, <2>5
<1>6. PICK g : EsCadena(g, S, n, s, paso) /\ g[n] = c[1..n]
  <2>1. ASSUME NEW x \in SUBSET (1..n), x # {}, c[x \ {Max(x)}] \in S
        PROVE  c[x] = paso[Max(x)][c[x \ {Max(x)}]]
    <3>1. Max(x) \in 1..n
      BY <1>1, <2>1, MaxEsta
    <3>2. QED
      BY <1>5, <2>1, <3>1
  <2>2. Itera(c, S, n, s, paso)
    <3> HIDE DEF paso, n, S
    <3>1. QED
      BY <1>5, <2>1 DEF Itera
  <2> HIDE DEF paso, n, S
  <2>3. QED
    BY <1>3, <2>2, Plegar
<1>9. /\ g \in [0..n -> S] /\ g[0] = s
      /\ \A k \in 1..n : g[k] = RemoveFirst(g[k - 1], r[k])
  <2>1. g \in [0..n -> S] /\ g[0] = s /\ \A k \in 1..n : g[k] = paso[k][g[k - 1]]
    BY <1>6 DEF EsCadena
  <2>2. \A k \in 1..n : k - 1 \in 0..n
    BY <1>1
  <2>3. QED
    BY <2>1, <2>2
<1>10. ASSUME NEW x \in T
       PROVE  Cuantos(g[n], {x}) = IF Cuantos(s, {x}) <= Cuantos(r, {x}) THEN 0
                                   ELSE Cuantos(s, {x}) - Cuantos(r, {x})
  <2> DEFINE X == {x}
             a == Cuantos(s, X)
             D(k) == Cuantos(SubSeq(r, 1, k), X)
             M == {k \in 0..n : Cuantos(g[k], X) = IF a <= D(k) THEN 0 ELSE a - D(k)}
  <2>1. a \in Nat /\ \A k \in 0..n : D(k) \in Nat
    <3>1. \A k \in 0..n : SubSeq(r, 1, k) \in Seq(T)
      BY <1>1, EnDosPartes
    <3>2. QED
      BY <3>1, CuantosTipo
  <2>2. 0 \in M
    <3>1. D(0) = 0
      <4>1. SubSeq(r, 1, 0) = <<>>
        BY SubSeqEmpty
      <4>2. QED
        BY <4>1, CuantosVacia
    <3>2. 0 \in 0..n
      BY <1>1
    <3> HIDE DEF D, X
    <3>3. Cuantos(g[0], X) = IF a <= D(0) THEN 0 ELSE a - D(0)
      BY <1>9, <2>1, <3>1
    <3>4. QED
      BY <3>2, <3>3
  <2>3. ASSUME NEW k \in 1..n, k - 1 \in M
        PROVE  k \in M
    <3>1. k - 1 \in 0..n /\ k \in 0..n
      BY <1>1
    <3> DEFINE p == g[k - 1]
               d == D(k - 1)
    <3>2. p \in S /\ d \in Nat /\ Cuantos(p, X) = IF a <= d THEN 0 ELSE a - d
      BY <1>9, <2>1, <2>3, <3>1
    <3>3. g[k] = RemoveFirst(p, r[k]) /\ r[k] \in T
      BY <1>1, <1>9
    <3>4. D(k) = d + Bit(r[k] \in X)
      BY Prefijo
    <3> HIDE DEF p, d, D
    <3>5. Cuantos(g[k], X) = IF a <= D(k) THEN 0 ELSE a - D(k)
      <4>1. CASE r[k] = x
        <5>1. Bit(r[k] \in X) = 1
          BY <4>1 DEF Bit
        <5>2. Contains(p, x) <=> Cuantos(p, X) > 0
          BY <3>2, ContieneCuenta
        <5> HIDE DEF X
        <5>3. Contains(p, x) => Cuantos(p, X) = Cuantos(g[k], X) + 1
          <6>1. Contains(p, x) => Cuantos(p, X) = Cuantos(RemoveFirst(p, x), X) + Bit(x \in X)
            BY <3>2, QuitarUno
          <6>2. QED
            BY <3>3, <4>1, <5>1, <6>1
        <5>4. ~Contains(p, x) => g[k] = p
          BY <3>2, <3>3, <4>1, QuitarUno
        <5>5. Cuantos(g[k], X) \in Nat
          BY <1>9, <3>1, CuantosTipo
        <5>6. QED
          BY <2>1, <3>2, <3>4, <5>1, <5>2, <5>3, <5>4, <5>5
      <4>2. CASE r[k] # x
        <5>1. Bit(r[k] \in X) = 0
          BY <4>2 DEF Bit
        <5> HIDE DEF X
        <5>2. Contains(p, r[k]) => Cuantos(p, X) = Cuantos(g[k], X) + 0
          <6>1. Contains(p, r[k]) =>
                  Cuantos(p, X) = Cuantos(RemoveFirst(p, r[k]), X) + Bit(r[k] \in X)
            BY <3>2, QuitarUno
          <6>2. QED
            BY <3>3, <5>1, <6>1
        <5>3. ~Contains(p, r[k]) => g[k] = p
          BY <3>2, <3>3, QuitarUno
        <5>4. Cuantos(g[k], X) \in Nat
          BY <1>9, <3>1, CuantosTipo
        <5>5. D(k) = d
          BY <3>2, <3>4, <5>1
        <5>6. QED
          BY <3>2, <5>2, <5>3, <5>4, <5>5
      <4>3. QED
        BY <4>1, <4>2
    <3>6. QED
      <4> HIDE DEF a, X
      <4>1. QED
        BY <3>1, <3>5
  <2>4. \A k \in 0..n : k \in M
    <3> HIDE DEF M
    <3>1. QED
      BY <1>1, <2>2, <2>3, EnCadaVuelta
  <2>5. Cuantos(g[n], X) = IF a <= D(n) THEN 0 ELSE a - D(n)
    <3> HIDE DEF a, D, X
    <3>1. QED
      BY <1>1, <2>4
  <2>6. D(n) = Cuantos(r, X)
    <3>1. SubSeq(r, 1, n) = r
      BY SubSeqFull
    <3>2. QED
      BY <3>1
  <2>7. QED
    BY <2>5, <2>6
<1>11. QED
  <2>1. Menos(s, r) = g[n] /\ g[n] \in Seq(T)
    BY <1>1, <1>5, <1>6, <1>9
  <2>2. QED
    BY <1>10, <2>1

Posiciones == Int \X Int
Pokemones == [n : Int, especie : Especies, posicion : Posiciones]
Capturas == [tipo_tarea : {"ATRAPAR"}, pokemon : Pokemones]
Intercambios(n) == [tipo_tarea : {"INTERCAMBIO"}, entrenador_intercambio : 1..n,
                    pokemon_a_pedir : Especies, pokemon_a_otorgar : Especies]
Tareas(n) == {SinTarea} \cup Capturas \cup Intercambios(n)
Fichas(n) ==
  [posicion : Posiciones, capturados : Seq(Especies), buscados : Seq(Especies),
   estado : {"NEW", "READY", "EXEC", "BLOCK", "EXIT"}, tarea : Tareas(n),
   esta_en_entrada_salida : BOOLEAN, id_correlativo_esperado : Int,
   rafagas_intercambio : 0..RafagasIntercambio, esperando_intercambio : BOOLEAN, estimado : Int]
Equipos(n) ==
  [entrenadores : [1..n -> Fichas(n)], planificador : {"FIFO", "RR", "SJF_CD", "SJF_SD"},
   ready : Seq(1..n), semaforo_ready : Nat, desocupados : Seq(1..n),
   objetivos : Seq(Especies), mapa : Seq(Pokemones), hubo_deadlocks : BOOLEAN]

\* A task is of one of three kinds.
LEMMA UnaTarea ==
  ASSUME NEW n, NEW x \in Tareas(n)
  PROVE  \/ x = SinTarea /\ x.tipo_tarea = "NULL"
         \/ x.tipo_tarea = "ATRAPAR" /\ x.pokemon \in Pokemones /\ x = Atrapar(x.pokemon)
         \/ /\ x.tipo_tarea = "INTERCAMBIO" /\ x \in Intercambios(n)
BY DEF Tareas, Capturas, Intercambios, SinTarea, Atrapar

\* What Ordenar returns, here for the ready list by estimate.
PorEstimado(s, t) == Ordenar(s, LAMBDA x : t.entrenadores[x].estimado)
LEMMA OrdenarReady ==
  ASSUME NEW T, NEW s \in Seq(T), NEW t,
         NEW q, q = PorEstimado(s, t)
  PROVE  /\ q \in Seq(T) /\ Len(q) = Len(s)
         /\ \A C : Cuantos(q, C) = Cuantos(s, C)
<1> DEFINE n == Len(s)
           S == Seq(T)
           lugar(v, x) == Cardinality({i \in DOMAIN v : t.entrenadores[v[i]].estimado
                                                          <= t.entrenadores[x].estimado}) + 1
           paso == [k \in 1..n |-> [v \in S |-> InsertAt(v, lugar(v, s[k]), s[k])]]
<1>1. n \in Nat /\ DOMAIN s = 1..n /\ \A k \in 1..n : s[k] \in T
  BY LenProperties, ElementOfSeq
<1>2. ASSUME NEW v \in S, NEW x \in T
      PROVE  lugar(v, x) \in 1 .. Len(v) + 1 /\ InsertAt(v, lugar(v, x), x) \in S
  <2> DEFINE I == {i \in DOMAIN v : t.entrenadores[v[i]].estimado
                                                          <= t.entrenadores[x].estimado}
  <2>1. DOMAIN v = 1..Len(v) /\ Len(v) \in Nat
    BY LenProperties
  <2>2. I \subseteq 1..Len(v)
    BY <2>1
  <2>6. IsFiniteSet(1..Len(v)) /\ Cardinality(1..Len(v)) = Len(v)
    <3>1. \A m \in Nat : IsFiniteSet(1..m) /\ Cardinality(1..m) = m
      BY FS_Interval
    <3>2. QED
      BY <2>1, <3>1
  <2>3. Cardinality(I) \in 0..Len(v)
    <3> HIDE DEF I
    <3>1. IsFiniteSet(I) /\ Cardinality(I) <= Len(v)
      BY <2>2, <2>6, FS_Subset
    <3>2. Cardinality(I) \in Nat
      BY <3>1, FS_CardinalityType
    <3>3. QED
      BY <2>1, <3>1, <3>2
  <2>4. lugar(v, x) \in 1 .. Len(v) + 1
    BY <2>1, <2>3
  <2> HIDE DEF lugar
  <2>5. QED
    BY <2>4, CuantosInsertar
<1>3. n \in Nat /\ <<>> \in S /\ paso \in Pasos(S, n)
  <2> HIDE DEF lugar
  <2>1. QED
    BY <1>1, <1>2 DEF Pasos
<1>4. PICK f : EsPliegue(f, S, n, <<>>, paso)
  <2> HIDE DEF paso, n, S
  <2>1. QED
    BY <1>3, HayPliegue
<1>5. PICK c : /\ q = c[1..n]
               /\ \A x \in SUBSET (1..n) :
                    c[x] = IF x = {} THEN <<>>
                           ELSE InsertAt(c[x \ {Max(x)}], lugar(c[x \ {Max(x)}], s[Max(x)]), s[Max(x)])
  <2> DEFINE Ec(it) == it = [x \in SUBSET (DOMAIN s) |->
                               IF x = {} THEN <<>>
                               ELSE InsertAt(it[x \ {Max(x)}],
                                      lugar(it[x \ {Max(x)}], s[Max(x)]), s[Max(x)])]
             d == CHOOSE it : Ec(it)
  <2>1. q = d[DOMAIN s]
    BY DEF PorEstimado, Ordenar, FoldLeft, MapThenFoldSet
  <2> HIDE DEF lugar
  <2>2. f \in [SUBSET (1..n) -> S]
    BY <1>4 DEF EsPliegue
  <2>3. ASSUME NEW x \in SUBSET (1..n)
        PROVE  f[x] = IF x = {} THEN <<>>
                      ELSE InsertAt(f[x \ {Max(x)}], lugar(f[x \ {Max(x)}], s[Max(x)]), s[Max(x)])
    <3>1. f[x] = IF x = {} THEN <<>> ELSE paso[Max(x)][f[x \ {Max(x)}]]
      BY <1>4 DEF EsPliegue
    <3>2. CASE x # {}
      <4>1. Max(x) \in 1..n /\ x \ {Max(x)} \in SUBSET (1..n)
        BY <1>1, <3>2, MaxEsta
      <4>2. f[x \ {Max(x)}] \in S
        BY <2>2, <4>1
      <4>3. QED
        BY <3>1, <3>2, <4>1, <4>2
    <3>3. QED
      BY <3>1, <3>2
  <2>4. Ec(f)
    BY <1>1, <2>2, <2>3
  <2>5. Ec(d)
    <3> HIDE DEF Ec
    <3>1. QED
      BY <2>4
  <2> HIDE DEF d
  <2>6. QED
    BY <1>1, <2>1, <2>5
<1>6. ASSUME NEW x \in SUBSET (1..n), x # {}, c[x \ {Max(x)}] \in Seq(T)
      PROVE  \E k \in 1 .. Len(c[x \ {Max(x)}]) + 1 :
               c[x] = InsertAt(c[x \ {Max(x)}], k, s[Max(x)])
  <2>1. Max(x) \in 1..n
    BY <1>1, <1>6, MaxEsta
  <2> HIDE DEF lugar
  <2>2. lugar(c[x \ {Max(x)}], s[Max(x)]) \in 1 .. Len(c[x \ {Max(x)}]) + 1
    BY <1>1, <1>2, <1>6, <2>1
  <2>3. QED
    BY <1>5, <1>6, <2>2
<1>7. Inserta(c, s, T)
  BY <1>5, <1>6 DEF Inserta
<1>8. ASSUME NEW C
      PROVE  q \in Seq(T) /\ Len(q) = Len(s) /\ Cuantos(q, C) = Cuantos(s, C)
  BY <1>5, <1>7, PliegueInserta
<1>9. QED
  BY <1>8

\* The same for the map by distance.
PorDistancia(s, a) == Ordenar(s, LAMBDA x : Distancia(a, x.posicion))
LEMMA OrdenarMapa ==
  ASSUME NEW T, NEW s \in Seq(T), NEW a,
         NEW q, q = PorDistancia(s, a)
  PROVE  /\ q \in Seq(T) /\ Len(q) = Len(s)
         /\ \A C : Cuantos(q, C) = Cuantos(s, C)
<1> DEFINE n == Len(s)
           S == Seq(T)
           lugar(v, x) == Cardinality({i \in DOMAIN v : Distancia(a, v[i].posicion)
                                                          <= Distancia(a, x.posicion)}) + 1
           paso == [k \in 1..n |-> [v \in S |-> InsertAt(v, lugar(v, s[k]), s[k])]]
<1>1. n \in Nat /\ DOMAIN s = 1..n /\ \A k \in 1..n : s[k] \in T
  BY LenProperties, ElementOfSeq
<1>2. ASSUME NEW v \in S, NEW x \in T
      PROVE  lugar(v, x) \in 1 .. Len(v) + 1 /\ InsertAt(v, lugar(v, x), x) \in S
  <2> DEFINE I == {i \in DOMAIN v : Distancia(a, v[i].posicion)
                                                          <= Distancia(a, x.posicion)}
  <2>1. DOMAIN v = 1..Len(v) /\ Len(v) \in Nat
    BY LenProperties
  <2>2. I \subseteq 1..Len(v)
    BY <2>1
  <2>6. IsFiniteSet(1..Len(v)) /\ Cardinality(1..Len(v)) = Len(v)
    <3>1. \A m \in Nat : IsFiniteSet(1..m) /\ Cardinality(1..m) = m
      BY FS_Interval
    <3>2. QED
      BY <2>1, <3>1
  <2>3. Cardinality(I) \in 0..Len(v)
    <3> HIDE DEF I
    <3>1. IsFiniteSet(I) /\ Cardinality(I) <= Len(v)
      BY <2>2, <2>6, FS_Subset
    <3>2. Cardinality(I) \in Nat
      BY <3>1, FS_CardinalityType
    <3>3. QED
      BY <2>1, <3>1, <3>2
  <2>4. lugar(v, x) \in 1 .. Len(v) + 1
    BY <2>1, <2>3
  <2> HIDE DEF lugar
  <2>5. QED
    BY <2>4, CuantosInsertar
<1>3. n \in Nat /\ <<>> \in S /\ paso \in Pasos(S, n)
  <2> HIDE DEF lugar
  <2>1. QED
    BY <1>1, <1>2 DEF Pasos
<1>4. PICK f : EsPliegue(f, S, n, <<>>, paso)
  <2> HIDE DEF paso, n, S
  <2>1. QED
    BY <1>3, HayPliegue
<1>5. PICK c : /\ q = c[1..n]
               /\ \A x \in SUBSET (1..n) :
                    c[x] = IF x = {} THEN <<>>
                           ELSE InsertAt(c[x \ {Max(x)}], lugar(c[x \ {Max(x)}], s[Max(x)]), s[Max(x)])
  <2> DEFINE Ec(it) == it = [x \in SUBSET (DOMAIN s) |->
                               IF x = {} THEN <<>>
                               ELSE InsertAt(it[x \ {Max(x)}],
                                      lugar(it[x \ {Max(x)}], s[Max(x)]), s[Max(x)])]
             d == CHOOSE it : Ec(it)
  <2>1. q = d[DOMAIN s]
    BY DEF PorDistancia, Ordenar, FoldLeft, MapThenFoldSet
  <2> HIDE DEF lugar
  <2>2. f \in [SUBSET (1..n) -> S]
    BY <1>4 DEF EsPliegue
  <2>3. ASSUME NEW x \in SUBSET (1..n)
        PROVE  f[x] = IF x = {} THEN <<>>
                      ELSE InsertAt(f[x \ {Max(x)}], lugar(f[x \ {Max(x)}], s[Max(x)]), s[Max(x)])
    <3>1. f[x] = IF x = {} THEN <<>> ELSE paso[Max(x)][f[x \ {Max(x)}]]
      BY <1>4 DEF EsPliegue
    <3>2. CASE x # {}
      <4>1. Max(x) \in 1..n /\ x \ {Max(x)} \in SUBSET (1..n)
        BY <1>1, <3>2, MaxEsta
      <4>2. f[x \ {Max(x)}] \in S
        BY <2>2, <4>1
      <4>3. QED
        BY <3>1, <3>2, <4>1, <4>2
    <3>3. QED
      BY <3>1, <3>2
  <2>4. Ec(f)
    BY <1>1, <2>2, <2>3
  <2>5. Ec(d)
    <3> HIDE DEF Ec
    <3>1. QED
      BY <2>4
  <2> HIDE DEF d
  <2>6. QED
    BY <1>1, <2>1, <2>5
<1>6. ASSUME NEW x \in SUBSET (1..n), x # {}, c[x \ {Max(x)}] \in Seq(T)
      PROVE  \E k \in 1 .. Len(c[x \ {Max(x)}]) + 1 :
               c[x] = InsertAt(c[x \ {Max(x)}], k, s[Max(x)])
  <2>1. Max(x) \in 1..n
    BY <1>1, <1>6, MaxEsta
  <2> HIDE DEF lugar
  <2>2. lugar(c[x \ {Max(x)}], s[Max(x)]) \in 1 .. Len(c[x \ {Max(x)}]) + 1
    BY <1>1, <1>2, <1>6, <2>1
  <2>3. QED
    BY <1>5, <1>6, <2>2
<1>7. Inserta(c, s, T)
  BY <1>5, <1>6 DEF Inserta
<1>8. ASSUME NEW C
      PROVE  q \in Seq(T) /\ Len(q) = Len(s) /\ Cuantos(q, C) = Cuantos(s, C)
  BY <1>5, <1>7, PliegueInserta
<1>9. QED
  BY <1>8

DeEspecie(s) == {q \in Pokemones : q.especie = s}

LEMMA DistanciaTipo ==
  ASSUME NEW a \in Posiciones, NEW b \in Posiciones
  PROVE  Distancia(a, b) \in Nat /\ Distancia(a, a) = 0
BY DEF Distancia, Posiciones

LEMMA AsignarHace ==
  ASSUME NEW n \in Nat, NEW t \in Equipos(n), PuedeAsignar(t)
  PROVE  \E e \in 1..n, p \in Pokemones, m \in Seq(Pokemones) :
           /\ Contains(t.desocupados, e)
           /\ AsignarMasCercano(t) =
                AgregarAReady([t EXCEPT !.entrenadores[e].tarea = Atrapar(p),
                                        !.desocupados = RemoveFirst(@, e),
                                        !.mapa = m,
                                        !.objetivos = RemoveFirst(@, p.especie)], e)
           /\ \A s \in Especies : Cuantos(t.mapa, DeEspecie(s)) =
                                    Cuantos(m, DeEspecie(s)) + Bit(p.especie = s)
<1> DEFINE idle == DOMAIN t.desocupados
           Lejos(k, p) == Distancia(t.entrenadores[t.desocupados[k]].posicion, p.posicion)
           Ec(it) == it = [k \in {0} \cup idle |->
                            IF k = 0 THEN t.mapa ELSE Ordenar(it[k - 1], LAMBDA p : Lejos(k, p))]
           mapa == CHOOSE it : Ec(it)
           Minima(k) == Lejos(k, Head(mapa[k]))
           mejor == CHOOSE k \in idle : \A j \in idle :
                      Minima(k) < Minima(j) \/ (Minima(k) = Minima(j) /\ k <= j)
           e == t.desocupados[mejor]
           p == Head(mapa[mejor])
           m == RemoveFirstMatch(mapa[Len(t.desocupados)], LAMBDA q : q.especie = p.especie)
<1>1. AsignarMasCercano(t) =
                AgregarAReady([t EXCEPT !.entrenadores[e].tarea = Atrapar(p),
                                        !.desocupados = RemoveFirst(@, e),
                                        !.mapa = m,
                                        !.objetivos = RemoveFirst(@, p.especie)], e)
  BY DEF AsignarMasCercano
<1> HIDE DEF m
<1> DEFINE d == Len(t.desocupados)
           S == Seq(Pokemones)
           Pos(k) == t.entrenadores[t.desocupados[k]].posicion
<1>2. /\ d \in Nat /\ d # 0 /\ idle = 1..d /\ t.mapa \in S /\ t.mapa # <<>>
      /\ \A k \in idle : t.desocupados[k] \in 1..n /\ Pos(k) \in Posiciones
  <2>1. /\ t.desocupados \in Seq(1..n) /\ t.mapa \in S
        /\ t.entrenadores \in [1..n -> Fichas(n)]
    BY DEF Equipos
  <2>2. d \in Nat /\ idle = 1..d /\ \A k \in 1..d : t.desocupados[k] \in 1..n
    BY <2>1, LenProperties, ElementOfSeq
  <2>3. d # 0
    BY <2>1, EmptySeq DEF PuedeAsignar
  <2>4. t.mapa # <<>>
    BY DEF PuedeAsignar
  <2>5. \A x \in 1..n : t.entrenadores[x].posicion \in Posiciones
    BY <2>1 DEF Fichas
  <2>6. QED
    BY <2>1, <2>2, <2>3, <2>4, <2>5
<1> HIDE DEF idle
<1>3. Ec(mapa)
  <2> DEFINE paso == [k \in 1..d |-> [v \in S |-> Ordenar(v, LAMBDA z : Lejos(k, z))]]
  <2>1. ASSUME NEW k \in 1..d, NEW v \in S
        PROVE  Ordenar(v, LAMBDA z : Lejos(k, z)) \in S
    <3>1. Ordenar(v, LAMBDA z : Lejos(k, z)) = PorDistancia(v, Pos(k))
      BY DEF PorDistancia
    <3>2. QED
      BY <3>1, OrdenarMapa
  <2>2. d \in Nat /\ t.mapa \in S /\ paso \in Pasos(S, d)
    BY <1>2, <2>1 DEF Pasos
  <2>3. PICK g : EsCadena(g, S, d, t.mapa, paso)
    <3> HIDE DEF paso, d, S
    <3>1. QED
      BY <2>2, HayCadena
  <2>4. Ec(g)
    <3>1. g \in [0..d -> S] /\ g[0] = t.mapa /\ \A k \in 1..d : g[k] = paso[k][g[k - 1]]
      BY <2>3 DEF EsCadena
    <3>2. {0} \cup idle = 0..d
      BY <1>2
    <3>3. ASSUME NEW k \in 0..d, k # 0
          PROVE  g[k] = Ordenar(g[k - 1], LAMBDA z : Lejos(k, z))
      <4>1. k \in 1..d /\ k - 1 \in 0..d
        BY <1>2, <3>3
      <4>2. g[k - 1] \in S /\ g[k] = paso[k][g[k - 1]]
        BY <3>1, <4>1
      <4>3. QED
        BY <4>1, <4>2
    <3>4. g = [k \in 0..d |-> IF k = 0 THEN t.mapa ELSE Ordenar(g[k - 1], LAMBDA z : Lejos(k, z))]
      BY <3>1, <3>3
    <3>5. QED
      BY <3>2, <3>4
  <2>5. QED
    <3> HIDE DEF Ec
    <3>1. QED
      BY <2>4
<1>4. \A k \in 0..d : mapa[k] = IF k = 0 THEN t.mapa ELSE Ordenar(mapa[k - 1], LAMBDA z : Lejos(k, z))
  <2>1. {0} \cup idle = 0..d
    BY <1>2
  <2> HIDE DEF mapa
  <2>2. QED
    BY <1>3, <2>1
<1> HIDE DEF mapa
<1>5. ASSUME NEW C
      PROVE  \A k \in 0..d : /\ mapa[k] \in S /\ Len(mapa[k]) = Len(t.mapa)
                             /\ Cuantos(mapa[k], C) = Cuantos(t.mapa, C)
  <2> DEFINE M == {k \in 0..d : /\ mapa[k] \in S /\ Len(mapa[k]) = Len(t.mapa)
                                /\ Cuantos(mapa[k], C) = Cuantos(t.mapa, C)}
  <2>1. 0 \in M
    <3>1. 0 \in 0..d
      BY <1>2
    <3>2. mapa[0] = t.mapa
      BY <1>4, <3>1
    <3>3. QED
      BY <1>2, <3>1, <3>2
  <2>2. ASSUME NEW k \in 1..d, k - 1 \in M
        PROVE  k \in M
    <3>1. k \in 0..d /\ k # 0
      BY <1>2
    <3> DEFINE v == mapa[k - 1]
               w == Ordenar(v, LAMBDA z : Lejos(k, z))
    <3>2. mapa[k] = w
      BY <1>4, <3>1
    <3>3. v \in S /\ Len(v) = Len(t.mapa) /\ Cuantos(v, C) = Cuantos(t.mapa, C)
      BY <2>2
    <3>4. w \in S /\ Len(w) = Len(v) /\ Cuantos(w, C) = Cuantos(v, C)
      <4>1. w = PorDistancia(v, Pos(k))
        BY DEF PorDistancia
      <4> HIDE DEF v, w
      <4>2. QED
        BY <3>3, <4>1, OrdenarMapa
    <3>5. QED
      BY <3>1, <3>2, <3>3, <3>4
  <2>3. QED
    <3> HIDE DEF M
    <3>1. \A k \in 0..d : k \in M
      BY <1>2, <2>1, <2>2, EnCadaVuelta
    <3>2. QED
      BY <3>1 DEF M
<1>6. \A k \in 0..d : mapa[k] \in S /\ mapa[k] # <<>> /\ Head(mapa[k]) \in Pokemones
  <2> SUFFICES ASSUME NEW k \in 0..d
               PROVE  mapa[k] \in S /\ mapa[k] # <<>> /\ Head(mapa[k]) \in Pokemones
    OBVIOUS
  <2>1. mapa[k] \in S /\ Len(mapa[k]) = Len(t.mapa)
    BY <1>5
  <2>2. Len(t.mapa) # 0
    BY <1>2, EmptySeq
  <2>3. mapa[k] # <<>>
    BY <2>1, <2>2, EmptySeq
  <2>4. QED
    BY <2>1, <2>3, CuantosResto
<1>7. \A k \in idle : Minima(k) \in Nat
  <2> SUFFICES ASSUME NEW k \in idle
               PROVE  Minima(k) \in Nat
    OBVIOUS
  <2>1. Head(mapa[k]).posicion \in Posiciones
    <3>1. Head(mapa[k]) \in Pokemones
      BY <1>2, <1>6
    <3>2. QED
      BY <3>1 DEF Pokemones
  <2>2. QED
    BY <1>2, <2>1, DistanciaTipo
<1>8. mejor \in idle
  <2> DEFINE V == {Minima(k) : k \in idle}
  <2> HIDE DEF Minima
  <2>1. V \subseteq Nat /\ V # {}
    <3>1. 1 \in idle
      BY <1>2
    <3>2. QED
      BY <1>7, <3>1
  <2>2. PICK v \in V : \A y \in V : v <= y
    <3> HIDE DEF V
    <3>1. QED
      BY <2>1, Minimo
  <2> DEFINE W == {k \in idle : Minima(k) = v}
  <2>3. W \subseteq Nat /\ W # {}
    BY <1>2, <2>2
  <2>4. PICK k \in W : \A y \in W : k <= y
    <3> HIDE DEF W
    <3>1. QED
      BY <2>3, Minimo
  <2>5. k \in idle /\ Minima(k) = v
    OBVIOUS
  <2>6. \A j \in idle : Minima(k) < Minima(j) \/ (Minima(k) = Minima(j) /\ k <= j)
    <3> SUFFICES ASSUME NEW j \in idle
                 PROVE  Minima(k) < Minima(j) \/ (Minima(k) = Minima(j) /\ k <= j)
      OBVIOUS
    <3>1. v <= Minima(j) /\ v \in Nat /\ Minima(j) \in Nat
      BY <1>7, <2>1, <2>2
    <3>2. Minima(j) = v => k <= j
      BY <2>4
    <3>3. QED
      BY <2>5, <3>1, <3>2
  <2>7. QED
    BY <2>5, <2>6
<1> HIDE DEF mejor
<1>9. mejor \in 1..d /\ mejor \in 0..d
  BY <1>2, <1>8
<1>10. e \in 1..n /\ Contains(t.desocupados, e) /\ p \in Pokemones
  <2>1. e \in 1..n
    BY <1>2, <1>8
  <2>2. Contains(t.desocupados, e)
    BY <1>9 DEF Contains
  <2>3. QED
    BY <1>6, <1>9, <2>1, <2>2
<1> HIDE DEF e
<1>11. m \in S /\ \A s \in Especies : Cuantos(t.mapa, DeEspecie(s)) =
                                        Cuantos(m, DeEspecie(s)) + Bit(p.especie = s)
  <2> DEFINE P == DeEspecie(p.especie)
             s0 == mapa[d]
             s1 == mapa[mejor]
             I == {i \in 1..Len(s0) : s0[i].especie = p.especie}
             k == Min(I)
  <2>1. d \in 0..d
    BY <1>2
  <2>2. s0 \in S /\ s1 \in S /\ p = s1[1] /\ 1 \in 1..Len(s1) /\ p \in P
    <3>1. s1 \in S /\ s1 # <<>> /\ s0 \in S
      BY <1>6, <1>9, <2>1
    <3>2. p \in P
      BY <1>10 DEF DeEspecie
    <3> HIDE DEF s0
    <3>3. s1[1] = Head(s1) /\ Len(s1) # 0 /\ Len(s1) \in Nat
      BY <3>1, EmptySeq, LenProperties
    <3>4. QED
      BY <3>1, <3>2, <3>3
  <2>3. Cuantos(s0, P) = Cuantos(s1, P)
    BY <1>5, <1>9, <2>1
  <2> HIDE DEF p, s0, s1
  <2>4. \E i \in 1..Len(s0) : s0[i] \in P
    <3>1. Cuantos(s1, P) # 0
      BY <2>2, CuantosTipo
    <3>2. QED
      BY <2>2, <2>3, <3>1, CuantosTipo
  <2>5. I # {} /\ I \subseteq 1..Len(s0)
    BY <2>4 DEF DeEspecie
  <2>6. m = RemoveAt(s0, k)
    BY <2>5 DEF m, RemoveFirstMatch, SelectInSeq, s0
  <2>7. k \in 1..Len(s0) /\ k \in I
    <3> HIDE DEF I
    <3>1. QED
      BY <2>2, <2>5, PrimeroDeSus
  <2>8. s0[k].especie = p.especie /\ s0[k] \in Pokemones
    <3>1. s0[k] \in Pokemones
      BY <2>2, <2>7, ElementOfSeq
    <3>2. QED
      BY <2>7, <3>1
  <2> HIDE DEF k
  <2>9. m \in S
    BY <2>2, <2>6, <2>7, CuantosQuitar
  <2>10. ASSUME NEW s \in Especies
         PROVE  Cuantos(t.mapa, DeEspecie(s)) = Cuantos(m, DeEspecie(s)) + Bit(p.especie = s)
    <3> DEFINE D == DeEspecie(s)
    <3>1. Bit(s0[k] \in D) = Bit(p.especie = s)
      BY <2>8 DEF DeEspecie, Bit
    <3> HIDE DEF D
    <3>2. Cuantos(s0, D) = Cuantos(t.mapa, D)
      BY <1>5, <2>1 DEF s0
    <3>3. Cuantos(s0, D) = Cuantos(RemoveAt(s0, k), D) + Bit(s0[k] \in D)
      BY <2>2, <2>7, CuantosQuitar
    <3>4. QED
      BY <2>6, <3>1, <3>2, <3>3 DEF D
  <2>11. QED
    BY <2>9, <2>10
<1> HIDE DEF p
<1>12. QED
  BY <1>1, <1>10, <1>11

\* The fields of a team.
LEMMA Campos ==
  ASSUME NEW n, NEW t \in Equipos(n)
  PROVE  /\ t.entrenadores \in [1..n -> Fichas(n)] /\ t.ready \in Seq(1..n)
         /\ t.semaforo_ready \in Nat /\ t.desocupados \in Seq(1..n)
         /\ t.objetivos \in Seq(Especies) /\ t.mapa \in Seq(Pokemones)
BY DEF Equipos

\* A trainer goes to the ready list.
Readmitido(t, u, n, e) ==
  /\ u \in Equipos(n)
  /\ u.entrenadores = [t.entrenadores EXCEPT ![e] = [t.entrenadores[e] EXCEPT !.estado = "READY"]]
  /\ u.desocupados = t.desocupados /\ u.objetivos = t.objetivos /\ u.mapa = t.mapa
  /\ \A x \in 1..n : Cantidad(u.ready, x) =
       IF x = e THEN Cantidad(t.ready, x) + 1 ELSE Cantidad(t.ready, x)

LEMMA AgregarAReadyHace ==
  ASSUME NEW n \in Nat, NEW t \in Equipos(n), NEW e \in 1..n
  PROVE  Readmitido(t, AgregarAReady(t, e), n, e)
<1> DEFINE a == Append(t.ready, e)
           b == PorEstimado(a, t)
           r == IF t.planificador \in {"SJF_CD", "SJF_SD"} THEN b ELSE a
           x == [t.entrenadores[e] EXCEPT !.estado = "READY"]
           u == AgregarAReady(t, e)
<1>1. u = [t EXCEPT !.entrenadores = [t.entrenadores EXCEPT ![e] = x], !.ready = r,
                    !.semaforo_ready = @ + 1]
  <2>1. AgregarAReady(t, e) = [t EXCEPT !.entrenadores[e].estado = "READY", !.ready = r,
                                        !.semaforo_ready = @ + 1]
    BY DEF AgregarAReady, PorEstimado
  <2> HIDE DEF r
  <2>2. QED
    BY <2>1
<1>2. t.ready \in Seq(1..n) /\ t.entrenadores \in [1..n -> Fichas(n)]
  BY Campos
<1>3. a \in Seq(1..n)
  BY <1>2, AppendProperties
<1> HIDE DEF b
<1>4. b \in Seq(1..n) /\ \A C : Cuantos(b, C) = Cuantos(a, C)
  <2> HIDE DEF a
  <2>1. QED
    BY <1>3, OrdenarReady DEF b
<1>5. ASSUME NEW y \in 1..n
      PROVE  Cantidad(r, y) = IF y = e THEN Cantidad(t.ready, y) + 1 ELSE Cantidad(t.ready, y)
  <2> DEFINE C == {y}
  <2>1. Bit(e \in C) = IF y = e THEN 1 ELSE 0
    BY DEF Bit
  <2>2. Cantidad(a, y) = Cuantos(a, C) /\ Cantidad(b, y) = Cuantos(b, C)
    BY <1>3, <1>4, CantidadCuantos
  <2>3. Cantidad(t.ready, y) = Cuantos(t.ready, C) /\ Cantidad(t.ready, y) \in Nat
    BY <1>2, CantidadCuantos
  <2> HIDE DEF C
  <2>4. Cuantos(a, C) = Cuantos(t.ready, C) + Bit(e \in C)
    BY <1>2, CuantosAgregar
  <2>5. Cuantos(b, C) = Cuantos(a, C)
    BY <1>4
  <2> HIDE DEF a
  <2>6. QED
    BY <2>1, <2>2, <2>3, <2>4, <2>5
<1>6. r \in Seq(1..n)
  BY <1>3, <1>4
<1> HIDE DEF r, a
<1>7. x \in Fichas(n)
  <2>1. t.entrenadores[e] \in Fichas(n)
    BY <1>2
  <2>2. QED
    BY <2>1 DEF Fichas
<1> HIDE DEF x, u
<1>8. [t.entrenadores EXCEPT ![e] = x] \in [1..n -> Fichas(n)]
  BY <1>2, <1>7
<1>9. u \in Equipos(n)
  <2> DEFINE f == [t.entrenadores EXCEPT ![e] = x]
             k == t.semaforo_ready + 1
  <2>1. k \in Nat
    BY Campos
  <2>2. f \in [1..n -> Fichas(n)] /\ u = [t EXCEPT !.entrenadores = f, !.ready = r, !.semaforo_ready = k]
    BY <1>1, <1>8
  <2> HIDE DEF f, k
  <2>3. QED
    BY <1>6, <2>1, <2>2 DEF Equipos
<1>10. /\ u.entrenadores = [t.entrenadores EXCEPT ![e] = x] /\ u.ready = r
       /\ u.desocupados = t.desocupados /\ u.objetivos = t.objetivos /\ u.mapa = t.mapa
  BY <1>1 DEF Equipos
<1>11. QED
  BY <1>5, <1>9, <1>10 DEF Readmitido, x, u

------------------------------------------------------------------------------
\* Planning.

EnMapa(t, s) == Cuantos(t.mapa, DeEspecie(s))
VaPor(t, e, s) == /\ t.entrenadores[e].tarea.tipo_tarea = "ATRAPAR"
               /\ t.entrenadores[e].tarea.pokemon.especie = s
Peso(t, e, s) == IF VaPor(t, e, s) THEN 1 ELSE 0
EnTareas(t, n, s) == Cardinality({e \in 1..n : VaPor(t, e, s)})

\* The idle ones are in the list once, and have no task.
Ociosos(t, n) ==
  \A e \in 1..n : Cantidad(t.desocupados, e) > 0 =>
                    Cantidad(t.desocupados, e) = 1 /\ t.entrenadores[e].tarea = SinTarea

Igual(t, u, e) ==
  /\ u.entrenadores[e] = t.entrenadores[e]
  /\ Cantidad(u.desocupados, e) = Cantidad(t.desocupados, e)
  /\ Cantidad(u.ready, e) = Cantidad(t.ready, e)
Sale(t, u, e) ==
  /\ Cantidad(t.desocupados, e) > 0
  /\ Cantidad(u.desocupados, e) = Cantidad(t.desocupados, e) - 1
  /\ Cantidad(u.ready, e) = Cantidad(t.ready, e) + 1
  /\ \E p \in Pokemones :
       u.entrenadores[e] = [t.entrenadores[e] EXCEPT !.tarea = Atrapar(p), !.estado = "READY"]

Planificado(t, u, n) ==
  /\ u \in Equipos(n)
  /\ \A e \in 1..n : Igual(t, u, e) \/ Sale(t, u, e)
  /\ \A s \in Especies :
       /\ EnMapa(u, s) + EnTareas(u, n, s) = EnMapa(t, s) + EnTareas(t, n, s)
       /\ Cantidad(u.objetivos, s) + EnTareas(u, n, s)
            >= Cantidad(t.objetivos, s) + EnTareas(t, n, s)

LEMMA EnTareasTipo ==
  ASSUME NEW n \in Nat, NEW t, NEW s
  PROVE  EnTareas(t, n, s) \in Nat
<1> DEFINE A == {e \in 1..n : VaPor(t, e, s)}
<1>1. A \subseteq 1..n /\ IsFiniteSet(1..n)
  BY FS_Interval
<1> HIDE DEF A
<1>2. Cardinality(A) \in Nat
  BY <1>1, FS_Subset, FS_CardinalityType
<1>3. QED
  BY <1>2 DEF A, EnTareas

\* The tasks of a species when one trainer's changes.
SoloTarea(t, u, n, k) ==
  \A e \in 1..n : e # k => u.entrenadores[e].tarea = t.entrenadores[e].tarea
LEMMA EnTareasCambio ==
  ASSUME NEW n \in Nat, NEW t, NEW u, NEW k \in 1..n, NEW s,
         SoloTarea(t, u, n, k)
  PROVE  /\ EnTareas(t, n, s) \in Nat /\ EnTareas(u, n, s) \in Nat
         /\ EnTareas(u, n, s) + Peso(t, k, s) = EnTareas(t, n, s) + Peso(u, k, s)
<1> DEFINE A == {e \in 1..n : VaPor(u, e, s)}
           B == {e \in 1..n : VaPor(t, e, s)}
<1>1. A \subseteq 1..n /\ B \subseteq 1..n
  OBVIOUS
<1>2. \A i \in 1..n : i # k => (i \in A <=> i \in B)
  BY DEF VaPor, SoloTarea
<1>3. (k \in A <=> VaPor(u, k, s)) /\ (k \in B <=> VaPor(t, k, s))
  OBVIOUS
<1> HIDE DEF A, B
<1>4. /\ Cardinality(A) \in Nat /\ Cardinality(B) \in Nat
      /\ Cardinality(A) + Bit(k \in B) = Cardinality(B) + Bit(k \in A)
  BY <1>1, <1>2, UnPunto DEF Bit
<1>5. Bit(k \in A) = Peso(u, k, s) /\ Bit(k \in B) = Peso(t, k, s)
  BY <1>3 DEF Bit, Peso
<1>6. EnTareas(u, n, s) = Cardinality(A) /\ EnTareas(t, n, s) = Cardinality(B)
  BY DEF A, B, EnTareas
<1>7. QED
  BY <1>4, <1>5, <1>6

LEMMA QuitarCantidad ==
  ASSUME NEW T, NEW s \in Seq(T), NEW x, NEW y
  PROVE  /\ RemoveFirst(s, x) \in Seq(T)
         /\ Cantidad(s, y) \in Nat
         /\ Contains(s, y) <=> Cantidad(s, y) > 0
         /\ Cantidad(RemoveFirst(s, x), y) =
              IF y = x /\ Contains(s, x) THEN Cantidad(s, y) - 1 ELSE Cantidad(s, y)
<1> DEFINE C == {y}
           r == RemoveFirst(s, x)
<1>1. r \in Seq(T)
  BY QuitarUno
<1>2. Cantidad(s, y) = Cuantos(s, C) /\ Cantidad(s, y) \in Nat
  BY CantidadCuantos
<1>3. Cantidad(r, y) = Cuantos(r, C) /\ Cantidad(r, y) \in Nat
  <2> HIDE DEF r
  <2>1. QED
    BY <1>1, CantidadCuantos
<1>4. Contains(s, y) <=> Cuantos(s, C) > 0
  BY ContieneCuenta
<1>5. Bit(x \in C) = IF x = y THEN 1 ELSE 0
  BY DEF Bit
<1> HIDE DEF C
<1>6. /\ ~Contains(s, x) => r = s
      /\ Contains(s, x) => Cuantos(s, C) = Cuantos(r, C) + Bit(x \in C)
  BY QuitarUno
<1> HIDE DEF r
<1>7. Cantidad(r, y) = IF y = x /\ Contains(s, x) THEN Cantidad(s, y) - 1 ELSE Cantidad(s, y)
  BY <1>2, <1>3, <1>5, <1>6
<1>8. QED
  BY <1>1, <1>2, <1>4, <1>7 DEF r

\* One assignment.
LEMMA PasoDePlan ==
  ASSUME NEW n \in Nat, NEW t \in Equipos(n), Ociosos(t, n),
         NEW u, Planificado(t, u, n), PuedeAsignar(u)
  PROVE  Planificado(t, AsignarMasCercano(u), n)
<1>1. u \in Equipos(n)
  BY DEF Planificado
<1>2. PICK e \in 1..n, p \in Pokemones, m \in Seq(Pokemones) :
           /\ Contains(u.desocupados, e)
           /\ AsignarMasCercano(u) =
                AgregarAReady([u EXCEPT !.entrenadores[e].tarea = Atrapar(p),
                                        !.desocupados = RemoveFirst(@, e),
                                        !.mapa = m,
                                        !.objetivos = RemoveFirst(@, p.especie)], e)
           /\ \A s \in Especies : Cuantos(u.mapa, DeEspecie(s)) =
                                    Cuantos(m, DeEspecie(s)) + Bit(p.especie = s)
  BY <1>1, AsignarHace
<1> DEFINE w == [u EXCEPT !.entrenadores[e].tarea = Atrapar(p),
                          !.desocupados = RemoveFirst(@, e),
                          !.mapa = m,
                          !.objetivos = RemoveFirst(@, p.especie)]
           v == AsignarMasCercano(u)
           x == [u.entrenadores[e] EXCEPT !.tarea = Atrapar(p), !.estado = "READY"]
           des == RemoveFirst(u.desocupados, e)
           obj == RemoveFirst(u.objetivos, p.especie)
<1>3. Atrapar(p) \in Tareas(n) /\ p.especie \in Especies
  BY DEF Tareas, Capturas, Atrapar, Pokemones
<1>4. /\ u.entrenadores \in [1..n -> Fichas(n)] /\ u.ready \in Seq(1..n)
      /\ u.desocupados \in Seq(1..n) /\ u.objetivos \in Seq(Especies) /\ u.mapa \in Seq(Pokemones)
  BY <1>1, Campos
<1>5. des \in Seq(1..n) /\ obj \in Seq(Especies)
  BY <1>4, QuitarUno
<1>6. u.entrenadores[e] \in Fichas(n) /\ [u.entrenadores[e] EXCEPT !.tarea = Atrapar(p)] \in Fichas(n)
      /\ x \in Fichas(n)
  BY <1>3, <1>4 DEF Fichas
<1> HIDE DEF des, obj
<1>7. w \in Equipos(n) /\ w.ready = u.ready
  <2> DEFINE f == [u.entrenadores EXCEPT ![e] = [u.entrenadores[e] EXCEPT !.tarea = Atrapar(p)]]
  <2>1. w = [u EXCEPT !.entrenadores = f, !.desocupados = des, !.mapa = m, !.objetivos = obj]
    BY DEF des, obj
  <2>2. f \in [1..n -> Fichas(n)]
    BY <1>4, <1>6
  <2> HIDE DEF w, f
  <2>3. QED
    BY <1>1, <1>5, <2>1, <2>2 DEF Equipos
<1>8. Readmitido(w, v, n, e)
  <2> HIDE DEF w
  <2>1. Readmitido(w, AgregarAReady(w, e), n, e)
    BY <1>7, AgregarAReadyHace
  <2>2. v = AgregarAReady(w, e)
    BY <1>2 DEF w
  <2>3. QED
    BY <2>1, <2>2
<1> HIDE DEF v
<1>9. /\ v \in Equipos(n)
      /\ v.entrenadores = [u.entrenadores EXCEPT ![e] = x]
      /\ v.desocupados = des /\ v.objetivos = obj /\ v.mapa = m
      /\ \A y \in 1..n : Cantidad(v.ready, y) =
           IF y = e THEN Cantidad(u.ready, y) + 1 ELSE Cantidad(u.ready, y)
  <2>1. /\ w.desocupados = des /\ w.objetivos = obj /\ w.mapa = m
        /\ w.entrenadores = [u.entrenadores EXCEPT ![e] =
                               [u.entrenadores[e] EXCEPT !.tarea = Atrapar(p)]]
    BY <1>1, <1>4 DEF Equipos, des, obj
  <2> HIDE DEF w
  <2>2. /\ v \in Equipos(n)
        /\ v.entrenadores = [w.entrenadores EXCEPT ![e] = [w.entrenadores[e] EXCEPT !.estado = "READY"]]
        /\ v.desocupados = des /\ v.objetivos = obj /\ v.mapa = m
        /\ \A y \in 1..n : Cantidad(v.ready, y) =
             IF y = e THEN Cantidad(u.ready, y) + 1 ELSE Cantidad(u.ready, y)
    BY <1>7, <1>8, <2>1 DEF Readmitido
  <2>3. v.entrenadores = [u.entrenadores EXCEPT ![e] = x]
    BY <1>4, <2>1, <2>2
  <2>4. QED
    BY <2>2, <2>3
<1>10. \A y \in 1..n : v.entrenadores[y] = IF y = e THEN x ELSE u.entrenadores[y]
  BY <1>4, <1>9
<1>11. \A y \in 1..n : Cantidad(des, y) = IF y = e THEN Cantidad(u.desocupados, y) - 1
                                          ELSE Cantidad(u.desocupados, y)
  BY <1>2, <1>4, QuitarCantidad DEF des
<1>12. Cantidad(u.desocupados, e) > 0 /\ \A y \in 1..n : Cantidad(u.desocupados, y) \in Nat
  BY <1>2, <1>4, QuitarCantidad
<1>13. \A y \in 1..n : Cantidad(t.desocupados, y) \in Nat
  <2>1. t.desocupados \in Seq(1..n)
    BY Campos
  <2>2. QED
    BY <2>1, QuitarCantidad
<1>14. Igual(t, u, e) /\ Cantidad(t.desocupados, e) = 1 /\ u.entrenadores[e].tarea = SinTarea
  <2>1. Igual(t, u, e) \/ Sale(t, u, e)
    BY DEF Planificado
  <2>2. Cantidad(t.desocupados, e) > 0
    BY <1>12, <2>1 DEF Igual, Sale
  <2>3. Cantidad(t.desocupados, e) = 1 /\ t.entrenadores[e].tarea = SinTarea
    BY <2>2 DEF Ociosos
  <2>4. ASSUME Sale(t, u, e)
        PROVE  FALSE
    <3>1. Cantidad(u.desocupados, e) = Cantidad(t.desocupados, e) - 1
      BY <2>4 DEF Sale
    <3>2. QED
      BY <1>12, <2>3, <3>1
  <2>5. QED
    BY <2>1, <2>3, <2>4 DEF Igual
<1>15. ASSUME NEW y \in 1..n
       PROVE  Igual(t, v, y) \/ Sale(t, v, y)
  <2>1. CASE y = e
    <3>1. Cantidad(v.ready, e) = Cantidad(u.ready, e) + 1
      BY <1>9
    <3>2. v.entrenadores[e] = [t.entrenadores[e] EXCEPT !.tarea = Atrapar(p), !.estado = "READY"]
      BY <1>10, <1>14 DEF Igual
    <3>3. Cantidad(v.desocupados, e) = Cantidad(t.desocupados, e) - 1
      BY <1>9, <1>11, <1>14 DEF Igual
    <3>4. Cantidad(v.ready, e) = Cantidad(t.ready, e) + 1 /\ Cantidad(t.desocupados, e) > 0
      BY <1>14, <3>1 DEF Igual
    <3>5. Sale(t, v, e)
      BY <3>2, <3>3, <3>4 DEF Sale
    <3>6. QED
      BY <2>1, <3>5
  <2>2. CASE y # e
    <3>3. /\ v.entrenadores[y] = u.entrenadores[y]
          /\ Cantidad(v.desocupados, y) = Cantidad(u.desocupados, y)
          /\ Cantidad(v.ready, y) = Cantidad(u.ready, y)
      BY <1>9, <1>10, <1>11, <2>2
    <3>4. Igual(t, u, y) \/ Sale(t, u, y)
      BY DEF Planificado
    <3>5. QED
      BY <3>3, <3>4 DEF Igual, Sale
  <2>3. QED
    BY <2>1, <2>2
<1>16. ASSUME NEW s \in Especies
       PROVE  /\ EnMapa(v, s) + EnTareas(v, n, s) = EnMapa(t, s) + EnTareas(t, n, s)
              /\ Cantidad(v.objetivos, s) + EnTareas(v, n, s)
                   >= Cantidad(t.objetivos, s) + EnTareas(t, n, s)
  <2>1. /\ EnTareas(u, n, s) \in Nat /\ EnTareas(v, n, s) \in Nat
        /\ EnTareas(v, n, s) + Peso(u, e, s) = EnTareas(u, n, s) + Peso(v, e, s)
    <3>1. SoloTarea(u, v, n, e)
      BY <1>10 DEF SoloTarea
    <3>2. QED
      BY <3>1, EnTareasCambio
  <2>2. ~VaPor(u, e, s)
    BY <1>14 DEF VaPor, SinTarea
  <2>3. VaPor(v, e, s) <=> p.especie = s
    <3>1. v.entrenadores[e].tarea = Atrapar(p)
      BY <1>6, <1>10 DEF Fichas
    <3>2. QED
      BY <3>1 DEF VaPor, Atrapar
  <2>4. EnMapa(u, s) = EnMapa(v, s) + Bit(p.especie = s)
    BY <1>2, <1>9 DEF EnMapa
  <2>5. EnMapa(v, s) \in Nat /\ EnMapa(u, s) \in Nat /\ EnMapa(t, s) \in Nat
    BY <1>4, <1>9, CuantosTipo, Campos DEF EnMapa
  <2>6. Cantidad(v.objetivos, s) + Bit(p.especie = s) >= Cantidad(u.objetivos, s)
    <3>1. Cantidad(obj, s) = IF s = p.especie /\ Contains(u.objetivos, p.especie)
                             THEN Cantidad(u.objetivos, s) - 1 ELSE Cantidad(u.objetivos, s)
      BY <1>4, QuitarCantidad DEF obj
    <3>2. Cantidad(u.objetivos, s) \in Nat
      BY <1>4, QuitarCantidad
    <3>3. QED
      BY <1>9, <3>1, <3>2 DEF Bit
  <2>7. /\ Cantidad(v.objetivos, s) \in Nat /\ Cantidad(u.objetivos, s) \in Nat
        /\ Cantidad(t.objetivos, s) \in Nat
    BY <1>4, <1>5, <1>9, QuitarCantidad, Campos
  <2>8. /\ EnMapa(u, s) + EnTareas(u, n, s) = EnMapa(t, s) + EnTareas(t, n, s)
        /\ Cantidad(u.objetivos, s) + EnTareas(u, n, s)
             >= Cantidad(t.objetivos, s) + EnTareas(t, n, s)
    BY DEF Planificado
  <2>9. EnTareas(t, n, s) \in Nat
    BY EnTareasTipo
  <2>10. EnTareas(v, n, s) = EnTareas(u, n, s) + Bit(p.especie = s)
    BY <2>1, <2>2, <2>3 DEF Bit, Peso
  <2>11. Bit(p.especie = s) \in Nat
    BY DEF Bit
  <2>12. EnMapa(v, s) + EnTareas(v, n, s) = EnMapa(u, s) + EnTareas(u, n, s)
    BY <2>1, <2>4, <2>5, <2>10, <2>11
  <2>13. Cantidad(v.objetivos, s) + EnTareas(v, n, s) >= Cantidad(u.objetivos, s) + EnTareas(u, n, s)
    BY <2>1, <2>6, <2>7, <2>10, <2>11
  <2>14. QED
    BY <2>1, <2>7, <2>8, <2>9, <2>12, <2>13
<1>17. QED
  BY <1>9, <1>15, <1>16 DEF Planificado, v

LEMMA PlanificarHace ==
  ASSUME NEW n \in Nat, NEW t \in Equipos(n), Ociosos(t, n)
  PROVE  Planificado(t, Planificar(t), n)
<1> DEFINE d == Len(t.desocupados)
           S == {u \in Equipos(n) : Planificado(t, u, n)}
           UnPaso(u) == IF PuedeAsignar(u) THEN AsignarMasCercano(u) ELSE u
           paso == [k \in 1..d |-> [v \in S |-> UnPaso(v)]]
<1>1. d \in Nat /\ DOMAIN t.desocupados = 1..d
  BY Campos, LenProperties
<1>2. t \in S
  <2>1. \A s \in Especies : /\ EnMapa(t, s) + EnTareas(t, n, s) = EnMapa(t, s) + EnTareas(t, n, s)
                            /\ Cantidad(t.objetivos, s) + EnTareas(t, n, s)
                                 >= Cantidad(t.objetivos, s) + EnTareas(t, n, s)
    <3> SUFFICES ASSUME NEW s \in Especies
                 PROVE  Cantidad(t.objetivos, s) + EnTareas(t, n, s)
                          >= Cantidad(t.objetivos, s) + EnTareas(t, n, s)
      OBVIOUS
    <3>1. Cantidad(t.objetivos, s) \in Nat
      BY Campos, QuitarCantidad
    <3>2. EnTareas(t, n, s) \in Nat
      BY EnTareasTipo
    <3>3. QED
      BY <3>1, <3>2
  <2>2. QED
    BY <2>1 DEF Planificado, Igual
<1>3. \A u \in S : UnPaso(u) \in S
  <2> SUFFICES ASSUME NEW u \in S
               PROVE  UnPaso(u) \in S
    OBVIOUS
  <2>1. PuedeAsignar(u) => Planificado(t, AsignarMasCercano(u), n)
    BY PasoDePlan
  <2>2. QED
    BY <2>1 DEF Planificado
<1> HIDE DEF UnPaso
<1>4. d \in Nat /\ t \in S /\ paso \in Pasos(S, d)
  BY <1>1, <1>2, <1>3 DEF Pasos
<1>5. PICK f : EsPliegue(f, S, d, t, paso)
  <2> HIDE DEF paso, d, S
  <2>1. QED
    BY <1>4, HayPliegue
<1>6. PICK c : /\ Planificar(t) = c[1..d]
               /\ \A x \in SUBSET (1..d) : c[x] = IF x = {} THEN t ELSE UnPaso(c[x \ {Max(x)}])
  <2> DEFINE Ec(it) == it = [x \in SUBSET (DOMAIN t.desocupados) |->
                               IF x = {} THEN t ELSE UnPaso(it[x \ {Max(x)}])]
             h == CHOOSE it : Ec(it)
  <2>1. Planificar(t) = h[DOMAIN t.desocupados]
    BY DEF Planificar, FoldLeft, MapThenFoldSet, UnPaso
  <2>2. f \in [SUBSET (1..d) -> S]
    BY <1>5 DEF EsPliegue
  <2>3. ASSUME NEW x \in SUBSET (1..d)
        PROVE  f[x] = IF x = {} THEN t ELSE UnPaso(f[x \ {Max(x)}])
    <3>1. f[x] = IF x = {} THEN t ELSE paso[Max(x)][f[x \ {Max(x)}]]
      BY <1>5 DEF EsPliegue
    <3>2. CASE x # {}
      <4>1. Max(x) \in 1..d /\ x \ {Max(x)} \in SUBSET (1..d)
        BY <1>1, <3>2, MaxEsta
      <4>2. f[x \ {Max(x)}] \in S
        BY <2>2, <4>1
      <4> HIDE DEF S
      <4>3. QED
        BY <3>1, <3>2, <4>1, <4>2
    <3>3. QED
      BY <3>1, <3>2
  <2>4. Ec(f)
    <3> HIDE DEF S
    <3>1. QED
      BY <1>1, <2>2, <2>3
  <2>5. Ec(h)
    <3> HIDE DEF Ec
    <3>1. QED
      BY <2>4
  <2> HIDE DEF h
  <2>6. QED
    BY <1>1, <2>1, <2>5
<1>7. PICK g : EsCadena(g, S, d, t, paso) /\ g[d] = c[1..d]
  <2>1. ASSUME NEW x \in SUBSET (1..d), x # {}, c[x \ {Max(x)}] \in S
        PROVE  c[x] = paso[Max(x)][c[x \ {Max(x)}]]
    <3>1. Max(x) \in 1..d
      BY <1>1, <2>1, MaxEsta
    <3> HIDE DEF S
    <3>2. QED
      BY <1>6, <2>1, <3>1
  <2>2. Itera(c, S, d, t, paso)
    <3> HIDE DEF paso, d, S
    <3>1. QED
      BY <1>6, <2>1 DEF Itera
  <2> HIDE DEF paso, d, S
  <2>3. QED
    BY <1>4, <2>2, Plegar
<1>8. g[d] \in S
  <2> HIDE DEF S
  <2>1. g \in [0..d -> S]
    BY <1>7 DEF EsCadena
  <2>2. QED
    BY <1>1, <2>1
<1>9. QED
  BY <1>6, <1>7, <1>8

\* What is left of a list is what it has more of.
LEMMA MenosContiene ==
  ASSUME NEW T, NEW s \in Seq(T), NEW r \in Seq(T), NEW x \in T
  PROVE  /\ Contains(Menos(s, r), x) <=> Cuantos(s, {x}) > Cuantos(r, {x})
         /\ Cuantos(s, {x}) \in Nat /\ Cuantos(r, {x}) \in Nat
         /\ Cuantos(Menos(s, r), {x}) \in Nat
<1> DEFINE m == Menos(s, r)
           C == {x}
<1>1. m \in Seq(T) /\ Cuantos(m, C) = IF Cuantos(s, C) <= Cuantos(r, C) THEN 0
                                      ELSE Cuantos(s, C) - Cuantos(r, C)
  BY MenosCuenta
<1> HIDE DEF m
<1>2. Contains(m, x) <=> Cuantos(m, C) > 0
  BY <1>1, ContieneCuenta
<1> HIDE DEF C
<1>3. Cuantos(s, C) \in Nat /\ Cuantos(r, C) \in Nat /\ Cuantos(m, C) \in Nat
  BY <1>1, CuantosTipo
<1>4. QED
  BY <1>1, <1>2, <1>3 DEF C, m

\* Of two lists of one length, if the first has something to spare so has the second.
LEMMA IgualLargo ==
  ASSUME NEW T, NEW s \in Seq(T), NEW r \in Seq(T), Len(s) = Len(r), Menos(s, r) # <<>>
  PROVE  /\ Head(Menos(s, r)) \in T /\ Contains(Menos(s, r), Head(Menos(s, r)))
         /\ Menos(r, s) # <<>>
<1> DEFINE m == Menos(s, r)
           y == Head(m)
<1>1. m \in Seq(T)
  BY MenosCuenta
<1>2. y \in T /\ Contains(m, y)
  <2> HIDE DEF m
  <2>1. m # <<>> /\ Len(m) \in Nat \ {0} /\ m[1] = Head(m) /\ Head(m) \in T
    BY <1>1, EmptySeq, LenProperties, ElementOfSeq DEF m
  <2>2. 1 \in 1..Len(m)
    BY <2>1
  <2>3. QED
    BY <2>1, <2>2, <1>1, LenProperties DEF Contains
<1>3. ASSUME Menos(r, s) = <<>> PROVE FALSE
  <2>1. ASSUME NEW x \in T PROVE Cuantos(r, {x}) <= Cuantos(s, {x})
    <3> DEFINE C == {x}
    <3>1. Cuantos(Menos(r, s), C) = IF Cuantos(r, C) <= Cuantos(s, C) THEN 0
                                      ELSE Cuantos(r, C) - Cuantos(s, C)
      BY MenosCuenta
    <3>2. Cuantos(Menos(r, s), C) = 0
      BY <1>3, CuantosVacia
    <3>3. Cuantos(r, C) \in Nat /\ Cuantos(s, C) \in Nat
      BY CuantosTipo
    <3> HIDE DEF C
    <3>4. Cuantos(r, C) <= Cuantos(s, C)
      BY <3>1, <3>2, <3>3
    <3>5. QED
      BY <3>4 DEF C
  <2> HIDE DEF y
  <2>2. Cuantos(r, {y}) < Cuantos(s, {y})
    BY <1>2, MenosContiene DEF m
  <2>3. Len(r) < Len(s)
    BY <1>2, <2>1, <2>2, MasCorta
  <2>4. QED
    BY <2>3, LenProperties
<1>4. QED
  BY <1>2, <1>3

\* The pockets of a team.
Bolsillos(t) == [e \in DOMAIN t.entrenadores |-> t.entrenadores[e].capturados]
Pedidos(t) == [e \in DOMAIN t.entrenadores |-> t.entrenadores[e].buscados]

LEMMA UnaLista ==
  ASSUME NEW S, NEW n \in Nat, NEW f \in [1..n -> S]
  PROVE  f \in Seq(S) /\ Len(f) = n /\ DOMAIN f = 1..n
<1>1. f \in Seq(S)
  BY SeqDef
<1>2. QED
  BY <1>1, LenProperties

LEMMA BolsillosTipo ==
  ASSUME NEW n \in Nat, NEW t \in Equipos(n)
  PROVE  /\ Bolsillos(t) \in Seq(Seq(Especies)) /\ Len(Bolsillos(t)) = n
         /\ Pedidos(t) \in Seq(Seq(Especies)) /\ Len(Pedidos(t)) = n
         /\ \A e \in 1..n : /\ Bolsillos(t)[e] = t.entrenadores[e].capturados
                            /\ Pedidos(t)[e] = t.entrenadores[e].buscados
<1>1. t.entrenadores \in [1..n -> Fichas(n)]
  BY Campos
<1>2. \A e \in 1..n : /\ t.entrenadores[e].capturados \in Seq(Especies)
                      /\ t.entrenadores[e].buscados \in Seq(Especies)
  BY <1>1 DEF Fichas
<1>3. DOMAIN t.entrenadores = 1..n
  BY <1>1
<1>4. /\ Bolsillos(t) \in [1..n -> Seq(Especies)] /\ Pedidos(t) \in [1..n -> Seq(Especies)]
      /\ \A e \in 1..n : /\ Bolsillos(t)[e] = t.entrenadores[e].capturados
                         /\ Pedidos(t)[e] = t.entrenadores[e].buscados
  BY <1>2, <1>3 DEF Bolsillos, Pedidos
<1> DEFINE S == Seq(Especies)
<1> HIDE DEF S
<1>5. Bolsillos(t) \in [1..n -> S] /\ Pedidos(t) \in [1..n -> S]
  BY <1>4 DEF S
<1>6. /\ Bolsillos(t) \in Seq(S) /\ Len(Bolsillos(t)) = n
      /\ Pedidos(t) \in Seq(S) /\ Len(Pedidos(t)) = n
  BY <1>5, UnaLista
<1>7. QED
  BY <1>4, <1>6 DEF S

\* Only one trainer's pockets change.
SoloBolsillo(t, u, n, k) ==
  \A e \in 1..n : e # k => u.entrenadores[e].capturados = t.entrenadores[e].capturados
LEMMA CapturadaCambio ==
  ASSUME NEW n \in Nat, NEW t \in Equipos(n), NEW u \in Equipos(n), NEW k \in 1..n,
         SoloBolsillo(t, u, n, k), NEW s
  PROVE  /\ EspecieCapturada(t, s) \in Nat /\ EspecieCapturada(u, s) \in Nat
         /\ EspecieCapturada(u, s) + Cantidad(t.entrenadores[k].capturados, s)
              = EspecieCapturada(t, s) + Cantidad(u.entrenadores[k].capturados, s)
<1> DEFINE ss == Bolsillos(t)
           tt == Bolsillos(u)
           C == {s}
<1>1. /\ ss \in Seq(Seq(Especies)) /\ tt \in Seq(Seq(Especies)) /\ Len(ss) = n /\ Len(tt) = n
      /\ \A e \in 1..n : ss[e] = t.entrenadores[e].capturados /\ tt[e] = u.entrenadores[e].capturados
  BY BolsillosTipo
<1>2. EspecieCapturada(t, s) = Cantidad(FlattenSeq(ss), s)
      /\ EspecieCapturada(u, s) = Cantidad(FlattenSeq(tt), s)
  BY DEF EspecieCapturada, Bolsillos
<1> HIDE DEF ss, tt
<1>3. FlattenSeq(ss) \in Seq(Especies) /\ FlattenSeq(tt) \in Seq(Especies)
  BY <1>1, AplanarTipo
<1>4. /\ EspecieCapturada(t, s) = Cuantos(FlattenSeq(ss), C) /\ EspecieCapturada(t, s) \in Nat
      /\ EspecieCapturada(u, s) = Cuantos(FlattenSeq(tt), C) /\ EspecieCapturada(u, s) \in Nat
  BY <1>2, <1>3, CantidadCuantos
<1>5. ss[k] \in Seq(Especies) /\ tt[k] \in Seq(Especies)
  BY <1>1, ElementOfSeq
<1>6. Cantidad(ss[k], s) = Cuantos(ss[k], C) /\ Cantidad(tt[k], s) = Cuantos(tt[k], C)
  BY <1>5, CantidadCuantos
<1> HIDE DEF C
<1>7. Salvo(ss, tt, k)
  BY <1>1 DEF SoloBolsillo, Salvo
<1>8. Cuantos(FlattenSeq(tt), C) + Cuantos(ss[k], C) = Cuantos(FlattenSeq(ss), C) + Cuantos(tt[k], C)
  <2>1. Len(tt) = Len(ss) /\ k \in 1..Len(ss)
    BY <1>1
  <2>2. QED
    BY <1>1, <1>7, <2>1, AplanarCambio
<1>9. QED
  BY <1>1, <1>4, <1>6, <1>8

\* Nobody's do.
MismosBolsillos(t, u, n) ==
  \A e \in 1..n : u.entrenadores[e].capturados = t.entrenadores[e].capturados
MismosPedidos(t, u, n) ==
  \A e \in 1..n : u.entrenadores[e].buscados = t.entrenadores[e].buscados
LEMMA CuentasIguales ==
  ASSUME NEW n \in Nat, NEW t \in Equipos(n), NEW u \in Equipos(n), NEW s
  PROVE  /\ EspecieCapturada(t, s) \in Nat /\ EspecieBuscada(t, s) \in Nat
         /\ MismosBolsillos(t, u, n) => EspecieCapturada(u, s) = EspecieCapturada(t, s)
         /\ MismosPedidos(t, u, n) => EspecieBuscada(u, s) = EspecieBuscada(t, s)
<1>1. DOMAIN t.entrenadores = 1..n /\ DOMAIN u.entrenadores = 1..n
  BY Campos
<1>2. MismosBolsillos(t, u, n) => Bolsillos(u) = Bolsillos(t)
  BY <1>1 DEF Bolsillos, MismosBolsillos
<1>3. MismosPedidos(t, u, n) => Pedidos(u) = Pedidos(t)
  BY <1>1 DEF Pedidos, MismosPedidos
<1>4. /\ EspecieCapturada(t, s) = Cantidad(FlattenSeq(Bolsillos(t)), s)
      /\ EspecieBuscada(t, s) = Cantidad(FlattenSeq(Pedidos(t)), s)
      /\ EspecieCapturada(u, s) = Cantidad(FlattenSeq(Bolsillos(u)), s)
      /\ EspecieBuscada(u, s) = Cantidad(FlattenSeq(Pedidos(u)), s)
  BY DEF EspecieCapturada, EspecieBuscada, Bolsillos, Pedidos
<1>5. Bolsillos(t) \in Seq(Seq(Especies)) /\ Pedidos(t) \in Seq(Seq(Especies))
  BY BolsillosTipo
<1>6. FlattenSeq(Bolsillos(t)) \in Seq(Especies) /\ FlattenSeq(Pedidos(t)) \in Seq(Especies)
  BY <1>5, AplanarTipo
<1>7. /\ Cantidad(FlattenSeq(Bolsillos(t)), s) \in Nat
      /\ Cantidad(FlattenSeq(Pedidos(t)), s) \in Nat
  BY <1>6, CantidadCuantos
<1>8. QED
  BY <1>2, <1>3, <1>4, <1>7

\* What an exchange does to a pocket: one of the species that it has to spare for another.
LEMMA Trueque ==
  ASSUME NEW T, NEW cap \in Seq(T), NEW bus \in Seq(T), NEW recibe \in T, NEW da \in T,
         Contains(Menos(cap, bus), da),
         NEW q, q = RemoveFirst(Append(cap, recibe), da)
  PROVE  /\ q \in Seq(T) /\ Len(q) = Len(cap)
         /\ \A x : Cantidad(q, x) + (IF x = da THEN 1 ELSE 0)
                     = Cantidad(cap, x) + (IF x = recibe THEN 1 ELSE 0)
         /\ Len(Menos(bus, q)) <= Len(Menos(bus, cap))
         /\ Contains(Menos(bus, cap), recibe) => Len(Menos(bus, q)) < Len(Menos(bus, cap))
<1> DEFINE a == Append(cap, recibe)
           m == Menos(bus, cap)
           r == Menos(bus, q)
           C(x) == {x}
<1>1. a \in Seq(T) /\ Len(a) = Len(cap) + 1
  BY CuantosAgregar
<1>2. ASSUME NEW x
      PROVE  /\ Cuantos(a, C(x)) = Cuantos(cap, C(x)) + (IF x = recibe THEN 1 ELSE 0)
             /\ Cuantos(cap, C(x)) \in Nat /\ Cuantos(bus, C(x)) \in Nat /\ Cuantos(a, C(x)) \in Nat
  <2> DEFINE D == {x}
  <2>1. Bit(recibe \in D) = IF x = recibe THEN 1 ELSE 0
    BY DEF Bit
  <2>2. Cuantos(cap, D) \in Nat /\ Cuantos(bus, D) \in Nat /\ Cuantos(a, D) \in Nat
    BY <1>1, CuantosTipo
  <2> HIDE DEF D
  <2>3. Cuantos(a, D) = Cuantos(cap, D) + Bit(recibe \in D)
    BY CuantosAgregar
  <2>4. Cuantos(a, D) = Cuantos(cap, D) + (IF x = recibe THEN 1 ELSE 0)
    BY <2>1, <2>3
  <2>5. QED
    BY <2>2, <2>4 DEF D
<1>3. Cuantos(cap, C(da)) > Cuantos(bus, C(da))
  BY MenosContiene
<1> HIDE DEF a
<1>4. Contains(a, da)
  <2> DEFINE D == C(da)
  <2>1. Cuantos(a, D) >= Cuantos(cap, D) /\ Cuantos(cap, D) > Cuantos(bus, D)
        /\ Cuantos(cap, D) \in Nat /\ Cuantos(bus, D) \in Nat /\ Cuantos(a, D) \in Nat
    <3> HIDE DEF C
    <3>1. QED
      BY <1>2, <1>3
  <2>2. Cuantos(a, {da}) > 0
    <3>1. Cuantos(a, D) > 0
      <4> HIDE DEF D
      <4>1. QED
        BY <2>1
    <3>2. QED
      BY <3>1
  <2>3. QED
    BY <1>1, <2>2, ContieneCuenta
<1>5. q \in Seq(T) /\ Len(q) = Len(cap)
  <2>0. q = RemoveFirst(a, da)
    BY DEF a
  <2>1. q \in Seq(T) /\ Len(q) = Len(a) - 1
    BY <1>1, <1>4, <2>0, QuitarUno
  <2>2. Len(cap) \in Nat
    BY LenProperties
  <2>3. QED
    BY <1>1, <2>1, <2>2
<1>6. ASSUME NEW x
      PROVE  /\ Cuantos(q, C(x)) + (IF x = da THEN 1 ELSE 0)
                  = Cuantos(cap, C(x)) + (IF x = recibe THEN 1 ELSE 0)
             /\ Cuantos(q, C(x)) \in Nat
  <2> DEFINE D == {x}
  <2>1. Bit(da \in D) = IF x = da THEN 1 ELSE 0
    BY DEF Bit
  <2>2. Cuantos(q, D) \in Nat
    BY <1>5, CuantosTipo
  <2>3. Cuantos(a, D) = Cuantos(cap, D) + (IF x = recibe THEN 1 ELSE 0)
        /\ Cuantos(cap, D) \in Nat /\ Cuantos(a, D) \in Nat
    BY <1>2
  <2> HIDE DEF D
  <2>4. Cuantos(a, D) = Cuantos(q, D) + Bit(da \in D)
    <3>1. q = RemoveFirst(a, da)
      BY DEF a
    <3>2. QED
      BY <1>1, <1>4, <3>1, QuitarUno
  <2>5. Cuantos(q, D) + (IF x = da THEN 1 ELSE 0) = Cuantos(cap, D) + (IF x = recibe THEN 1 ELSE 0)
    BY <2>1, <2>2, <2>3, <2>4
  <2>6. QED
    BY <2>2, <2>5 DEF D
<1>7. \A x : Cantidad(q, x) + (IF x = da THEN 1 ELSE 0)
               = Cantidad(cap, x) + (IF x = recibe THEN 1 ELSE 0)
  <2> TAKE x
  <2>1. Cantidad(q, x) = Cuantos(q, C(x)) /\ Cantidad(cap, x) = Cuantos(cap, C(x))
    BY <1>5, CantidadCuantos
  <2> HIDE DEF C
  <2>2. QED
    BY <1>6, <2>1
<1>8. m \in Seq(T) /\ r \in Seq(T)
  BY <1>5, MenosCuenta
<1>9. ASSUME NEW x \in T
      PROVE  /\ Cuantos(m, C(x)) = IF Cuantos(bus, C(x)) <= Cuantos(cap, C(x)) THEN 0
                                   ELSE Cuantos(bus, C(x)) - Cuantos(cap, C(x))
             /\ Cuantos(r, C(x)) = IF Cuantos(bus, C(x)) <= Cuantos(q, C(x)) THEN 0
                                   ELSE Cuantos(bus, C(x)) - Cuantos(q, C(x))
  BY <1>5, MenosCuenta
<1> HIDE DEF m, r
<1>10. ASSUME NEW x \in T
       PROVE  Cuantos(r, C(x)) <= Cuantos(m, C(x))
  <2> DEFINE D == C(x)
             q1 == Cuantos(q, D)
             c1 == Cuantos(cap, D)
             b1 == Cuantos(bus, D)
  <2>1. q1 \in Nat /\ c1 \in Nat /\ b1 \in Nat
    BY <1>2, <1>6
  <2>2. q1 + (IF x = da THEN 1 ELSE 0) = c1 + (IF x = recibe THEN 1 ELSE 0)
    BY <1>6
  <2>3. x = da => c1 > b1
    BY <1>3
  <2>4. /\ Cuantos(m, D) = IF b1 <= c1 THEN 0 ELSE b1 - c1
        /\ Cuantos(r, D) = IF b1 <= q1 THEN 0 ELSE b1 - q1
    BY <1>9
  <2> HIDE DEF D, q1, c1, b1
  <2>5. Cuantos(r, D) <= Cuantos(m, D)
    BY <2>1, <2>2, <2>3, <2>4
  <2>6. QED
    BY <2>5 DEF D
<1>11. Len(r) <= Len(m)
  BY <1>8, <1>10, Longitudes
<1>12. Contains(m, recibe) => Len(r) < Len(m)
  <2> HAVE Contains(m, recibe)
  <2> DEFINE D == C(recibe)
             q1 == Cuantos(q, D)
             c1 == Cuantos(cap, D)
             b1 == Cuantos(bus, D)
  <2>1. q1 \in Nat /\ c1 \in Nat /\ b1 \in Nat
    BY <1>2, <1>6
  <2>2. q1 + (IF recibe = da THEN 1 ELSE 0) = c1 + 1
    BY <1>6
  <2>3. recibe = da => c1 > b1
    BY <1>3
  <2>4. b1 > c1
    BY MenosContiene DEF m
  <2>5. /\ Cuantos(m, D) = IF b1 <= c1 THEN 0 ELSE b1 - c1
        /\ Cuantos(r, D) = IF b1 <= q1 THEN 0 ELSE b1 - q1
    BY <1>9
  <2> HIDE DEF D, q1, c1, b1
  <2>6. Cuantos(r, D) < Cuantos(m, D)
    BY <2>1, <2>2, <2>3, <2>4, <2>5
  <2>7. Cuantos(r, {recibe}) < Cuantos(m, {recibe})
    BY <2>6 DEF D
  <2>8. QED
    BY <1>8, <1>10, <2>7, MasCorta
<1>13. QED
  BY <1>5, <1>7, <1>11, <1>12 DEF m, r

\* Two trainers may exchange: what one gives the other needs, or has no use for.
Conviene(t, n, e, f) ==
  /\ t.entrenadores[e].tarea \in Intercambios(n) /\ t.entrenadores[e].tarea.entrenador_intercambio = f
  /\ e # f
  /\ Contains(Sobrantes(t.entrenadores[f]), t.entrenadores[e].tarea.pokemon_a_pedir)
  /\ Contains(Sobrantes(t.entrenadores[e]), t.entrenadores[e].tarea.pokemon_a_otorgar)
  /\ Contains(Faltantes(t.entrenadores[e]), t.entrenadores[e].tarea.pokemon_a_pedir)

Cambio(x, y) ==
  /\ y.buscados = x.buscados /\ Len(y.capturados) = Len(x.capturados)
  /\ y.esta_en_entrada_salida = x.esta_en_entrada_salida
  /\ y.id_correlativo_esperado = x.id_correlativo_esperado
  /\ ~y.esperando_intercambio /\ y.posicion = x.posicion
  /\ Len(Faltantes(y)) <= Len(Faltantes(x))

Cambiado(t, u, n, e, f) ==
  /\ u \in Equipos(n)
  /\ u.ready = t.ready /\ u.desocupados = t.desocupados
  /\ u.objetivos = t.objetivos /\ u.mapa = t.mapa
  /\ \A x \in 1..n : x # e /\ x # f => u.entrenadores[x] = t.entrenadores[x]
  /\ Cambio(t.entrenadores[e], u.entrenadores[e]) /\ Cambio(t.entrenadores[f], u.entrenadores[f])
  /\ u.entrenadores[e].tarea = SinTarea /\ u.entrenadores[f].tarea = t.entrenadores[f].tarea
  /\ Len(Faltantes(u.entrenadores[e])) < Len(Faltantes(t.entrenadores[e]))
  /\ \A s : EspecieCapturada(u, s) = EspecieCapturada(t, s)
  /\ \A s : EspecieBuscada(u, s) = EspecieBuscada(t, s)

LEMMA IntercambiarHace ==
  ASSUME NEW n \in Nat, NEW t \in Equipos(n), NEW e \in 1..n, NEW f \in 1..n,
         Conviene(t, n, e, f)
  PROVE  Cambiado(t, Intercambiar(t, e), n, e, f)
<1> DEFINE xe == t.entrenadores[e]
           xf == t.entrenadores[f]
           a == xe.tarea.pokemon_a_pedir
           b == xe.tarea.pokemon_a_otorgar
           qe == RemoveFirst(Append(xe.capturados, a), b)
           qf == RemoveFirst(Append(xf.capturados, b), a)
           je == [xe EXCEPT !.capturados = qe, !.esperando_intercambio = FALSE, !.rafagas_intercambio = 0]
           jf == [xf EXCEPT !.capturados = qf, !.esperando_intercambio = FALSE, !.rafagas_intercambio = 0]
           se == IF Cumplio(je) THEN "EXIT" ELSE "BLOCK"
           sf == IF Cumplio(jf) THEN "EXIT" ELSE "BLOCK"
           ye == [xe EXCEPT !.capturados = qe, !.esperando_intercambio = FALSE,
                            !.rafagas_intercambio = 0, !.estado = se, !.tarea = SinTarea]
           yf == [xf EXCEPT !.capturados = qf, !.esperando_intercambio = FALSE,
                            !.rafagas_intercambio = 0, !.estado = sf]
           u == Intercambiar(t, e)
<1>1. /\ t.entrenadores \in [1..n -> Fichas(n)] /\ xe \in Fichas(n) /\ xf \in Fichas(n)
      /\ a \in Especies /\ b \in Especies /\ e # f
      /\ xe.tarea.entrenador_intercambio = f
  <2>1. t.entrenadores \in [1..n -> Fichas(n)]
    BY Campos
  <2>2. QED
    BY <2>1 DEF Conviene, Intercambios
<1>2. u = [t EXCEPT !.entrenadores = [t.entrenadores EXCEPT ![e] = ye, ![f] = yf]]
  <2>1. u = [t EXCEPT !.entrenadores[e] =
                         [[je EXCEPT !.estado = se] EXCEPT !.tarea = SinTarea],
                      !.entrenadores[f] = [jf EXCEPT !.estado = sf]]
    <3> HIDE DEF se, sf
    <3>1. se = (IF Cumplio(je) THEN "EXIT" ELSE "BLOCK") /\ sf = (IF Cumplio(jf) THEN "EXIT" ELSE "BLOCK")
      BY DEF se, sf
    <3> HIDE DEF qe, qf
    <3>2. qe = RemoveFirst(Append(xe.capturados, a), b) /\ qf = RemoveFirst(Append(xf.capturados, b), a)
      BY DEF qe, qf
    <3>3. QED
      BY <1>1, <3>1, <3>2, Zenon DEF Intercambiar
  <2> HIDE DEF se, sf, qe, qf
  <2>2. [[je EXCEPT !.estado = se] EXCEPT !.tarea = SinTarea] = ye
        /\ [jf EXCEPT !.estado = sf] = yf
    BY <1>1 DEF Fichas
  <2> HIDE DEF ye, yf, je, jf
  <2>3. QED
    BY <2>1, <2>2
<1>3. /\ Contains(Menos(xf.capturados, xf.buscados), a)
      /\ Contains(Menos(xe.capturados, xe.buscados), b)
      /\ Contains(Menos(xe.buscados, xe.capturados), a)
  BY DEF Conviene, Sobrantes, Faltantes
<1>4. /\ xe.capturados \in Seq(Especies) /\ xe.buscados \in Seq(Especies)
      /\ xf.capturados \in Seq(Especies) /\ xf.buscados \in Seq(Especies)
  BY <1>1 DEF Fichas
<1>5. /\ qe \in Seq(Especies) /\ Len(qe) = Len(xe.capturados)
      /\ \A x : Cantidad(qe, x) + (IF x = b THEN 1 ELSE 0)
                  = Cantidad(xe.capturados, x) + (IF x = a THEN 1 ELSE 0)
      /\ Len(Menos(xe.buscados, qe)) < Len(Menos(xe.buscados, xe.capturados))
      /\ Len(Menos(xe.buscados, qe)) <= Len(Menos(xe.buscados, xe.capturados))
  <2> DEFINE cap == xe.capturados
             bus == xe.buscados
  <2>1. cap \in Seq(Especies) /\ bus \in Seq(Especies) /\ a \in Especies /\ b \in Especies
        /\ Contains(Menos(cap, bus), b) /\ Contains(Menos(bus, cap), a)
        /\ qe = RemoveFirst(Append(cap, a), b)
    BY <1>1, <1>3, <1>4
  <2> HIDE DEF qe, cap, bus, a, b
  <2>2. QED
    BY <2>1, Trueque DEF cap, bus
<1>6. /\ qf \in Seq(Especies) /\ Len(qf) = Len(xf.capturados)
      /\ \A x : Cantidad(qf, x) + (IF x = a THEN 1 ELSE 0)
                  = Cantidad(xf.capturados, x) + (IF x = b THEN 1 ELSE 0)
      /\ Len(Menos(xf.buscados, qf)) <= Len(Menos(xf.buscados, xf.capturados))
  <2> DEFINE cap == xf.capturados
             bus == xf.buscados
  <2>1. cap \in Seq(Especies) /\ bus \in Seq(Especies) /\ a \in Especies /\ b \in Especies
        /\ Contains(Menos(cap, bus), a)
        /\ qf = RemoveFirst(Append(cap, b), a)
    BY <1>1, <1>3, <1>4
  <2> HIDE DEF qf, cap, bus, a, b
  <2>2. QED
    BY <2>1, Trueque DEF cap, bus
<1> HIDE DEF qe, qf, je, jf
<1>7. ye \in Fichas(n) /\ yf \in Fichas(n)
  <2>1. se \in {"NEW", "READY", "EXEC", "BLOCK", "EXIT"} /\ sf \in {"NEW", "READY", "EXEC", "BLOCK", "EXIT"}
        /\ 0 \in 0..RafagasIntercambio /\ SinTarea \in Tareas(n)
    BY DEF Tareas, RafagasIntercambio
  <2> HIDE DEF se, sf
  <2>2. QED
    BY <1>1, <1>5, <1>6, <2>1 DEF Fichas
<1> HIDE DEF se, sf
<1>8. /\ ye.buscados = xe.buscados /\ ye.capturados = qe /\ ye.tarea = SinTarea
      /\ ye.esta_en_entrada_salida = xe.esta_en_entrada_salida
      /\ ye.id_correlativo_esperado = xe.id_correlativo_esperado
      /\ ~ye.esperando_intercambio /\ ye.posicion = xe.posicion
      /\ yf.buscados = xf.buscados /\ yf.capturados = qf /\ yf.tarea = xf.tarea
      /\ yf.esta_en_entrada_salida = xf.esta_en_entrada_salida
      /\ yf.id_correlativo_esperado = xf.id_correlativo_esperado
      /\ ~yf.esperando_intercambio /\ yf.posicion = xf.posicion
  BY <1>1 DEF Fichas
<1> HIDE DEF ye, yf, u
<1> DEFINE v == [t.entrenadores EXCEPT ![e] = ye]
           w == [v EXCEPT ![f] = yf]
<1>9. v \in [1..n -> Fichas(n)] /\ w \in [1..n -> Fichas(n)]
  BY <1>1, <1>7
<1>17. v[e] = ye /\ w[e] = ye /\ w[f] = yf
  BY <1>1
<1>18. \A x \in 1..n : x # e => v[x] = t.entrenadores[x]
  BY <1>1
<1>19. \A x \in 1..n : x # f => w[x] = v[x]
  BY <1>1
<1>10. u = [t EXCEPT !.entrenadores = w]
  BY <1>2
<1> HIDE DEF v, w
<1>11. u \in Equipos(n) /\ u.entrenadores = w /\ u.ready = t.ready /\ u.desocupados = t.desocupados
       /\ u.objetivos = t.objetivos /\ u.mapa = t.mapa
  BY <1>9, <1>10 DEF Equipos
<1>20. u.entrenadores[e] = ye /\ u.entrenadores[f] = yf
       /\ \A x \in 1..n : x # e /\ x # f => u.entrenadores[x] = t.entrenadores[x]
  BY <1>11, <1>17, <1>18, <1>19
<1>12. /\ Cambio(xe, u.entrenadores[e]) /\ Cambio(xf, u.entrenadores[f])
       /\ Len(Faltantes(u.entrenadores[e])) < Len(Faltantes(xe))
  BY <1>5, <1>6, <1>8, <1>20 DEF Cambio, Faltantes
<1>13. ASSUME NEW s PROVE EspecieCapturada(u, s) = EspecieCapturada(t, s)
  <2> DEFINE tv == [t EXCEPT !.entrenadores = v]
  <2>1. tv \in Equipos(n) /\ tv.entrenadores = v
    BY <1>9 DEF Equipos
  <2> HIDE DEF tv
  <2>2. SoloBolsillo(t, tv, n, e) /\ SoloBolsillo(tv, u, n, f)
    BY <1>11, <1>18, <1>19, <2>1 DEF SoloBolsillo
  <2>3. /\ EspecieCapturada(t, s) \in Nat /\ EspecieCapturada(tv, s) \in Nat
        /\ EspecieCapturada(tv, s) + Cantidad(xe.capturados, s)
              = EspecieCapturada(t, s) + Cantidad(qe, s)
    <3>1. EspecieCapturada(t, s) \in Nat /\ EspecieCapturada(tv, s) \in Nat
          /\ EspecieCapturada(tv, s) + Cantidad(t.entrenadores[e].capturados, s)
              = EspecieCapturada(t, s) + Cantidad(tv.entrenadores[e].capturados, s)
      BY <2>1, <2>2, CapturadaCambio
    <3>2. QED
      BY <1>8, <1>17, <2>1, <3>1
  <2>4. /\ EspecieCapturada(u, s) \in Nat
        /\ EspecieCapturada(u, s) + Cantidad(xf.capturados, s)
              = EspecieCapturada(tv, s) + Cantidad(qf, s)
    <3>1. EspecieCapturada(u, s) \in Nat
          /\ EspecieCapturada(u, s) + Cantidad(tv.entrenadores[f].capturados, s)
              = EspecieCapturada(tv, s) + Cantidad(u.entrenadores[f].capturados, s)
      BY <1>11, <2>1, <2>2, CapturadaCambio
    <3>2. tv.entrenadores[f] = xf
      BY <1>1, <1>18, <2>1
    <3>3. QED
      BY <1>8, <1>20, <3>1, <3>2
  <2>5. /\ Cantidad(qe, s) \in Nat /\ Cantidad(qf, s) \in Nat
        /\ Cantidad(xe.capturados, s) \in Nat /\ Cantidad(xf.capturados, s) \in Nat
    BY <1>4, <1>5, <1>6, CantidadCuantos
  <2>6. /\ Cantidad(qe, s) + (IF s = b THEN 1 ELSE 0)
              = Cantidad(xe.capturados, s) + (IF s = a THEN 1 ELSE 0)
        /\ Cantidad(qf, s) + (IF s = a THEN 1 ELSE 0)
              = Cantidad(xf.capturados, s) + (IF s = b THEN 1 ELSE 0)
    BY <1>5, <1>6
  <2> DEFINE k1 == Cantidad(qe, s)
             k2 == Cantidad(qf, s)
             k3 == Cantidad(xe.capturados, s)
             k4 == Cantidad(xf.capturados, s)
             i1 == IF s = a THEN 1 ELSE 0
             i2 == IF s = b THEN 1 ELSE 0
             c0 == EspecieCapturada(t, s)
             c1 == EspecieCapturada(tv, s)
             c2 == EspecieCapturada(u, s)
  <2>7. /\ k1 \in Nat /\ k2 \in Nat /\ k3 \in Nat /\ k4 \in Nat /\ i1 \in Nat /\ i2 \in Nat
        /\ c0 \in Nat /\ c1 \in Nat /\ c2 \in Nat
        /\ k1 + i2 = k3 + i1 /\ k2 + i1 = k4 + i2 /\ c1 + k3 = c0 + k1 /\ c2 + k4 = c1 + k2
    BY <2>3, <2>4, <2>5, <2>6
  <2> HIDE DEF k1, k2, k3, k4, i1, i2, c0, c1, c2
  <2>8. c2 = c0
    BY <2>7
  <2>9. QED
    BY <2>8 DEF c0, c2
<1>14. ASSUME NEW s PROVE EspecieBuscada(u, s) = EspecieBuscada(t, s)
  <2>1. MismosPedidos(t, u, n)
    BY <1>8, <1>20 DEF MismosPedidos
  <2>2. QED
    BY <1>11, <2>1, CuentasIguales
<1>15. /\ u.entrenadores[e].tarea = SinTarea /\ u.entrenadores[f].tarea = xf.tarea
       /\ \A x \in 1..n : x # e /\ x # f => u.entrenadores[x] = t.entrenadores[x]
  BY <1>8, <1>20
<1>16. QED
  BY <1>11, <1>12, <1>13, <1>14, <1>15 DEF Cambiado, u

Cita(t, u, n, e) ==       \* e gets a task with another one
  LET x == t.entrenadores[e]
      y == u.entrenadores[e]
      f == y.tarea.entrenador_intercambio
  IN  /\ x.estado = "BLOCK" /\ ~x.esperando_intercambio
      /\ y.tarea \in Intercambios(n)
      /\ y = [x EXCEPT !.tarea = y.tarea, !.estado = "READY"]
      /\ f \in 1..n /\ f # e
      /\ t.entrenadores[f].estado = "BLOCK" /\ ~t.entrenadores[f].esperando_intercambio
      /\ u.entrenadores[f] = [t.entrenadores[f] EXCEPT !.esperando_intercambio = TRUE]
      /\ Contains(Sobrantes(t.entrenadores[f]), y.tarea.pokemon_a_pedir)
      /\ Contains(Sobrantes(x), y.tarea.pokemon_a_otorgar)
      /\ Contains(Faltantes(x), y.tarea.pokemon_a_pedir)
      /\ Cantidad(u.ready, e) = Cantidad(t.ready, e) + 1
Quieto(t, u, e) == /\ u.entrenadores[e] = t.entrenadores[e]
                   /\ Cantidad(u.ready, e) = Cantidad(t.ready, e)
Espera(t, u, n, f) == /\ Cantidad(u.ready, f) = Cantidad(t.ready, f)
                      /\ \E e \in 1..n : Cita(t, u, n, e) /\ u.entrenadores[e].tarea.entrenador_intercambio = f

Resuelto(t, u, n) ==
  /\ u \in Equipos(n)
  /\ u.desocupados = t.desocupados /\ u.objetivos = t.objetivos /\ u.mapa = t.mapa
  /\ \A e \in 1..n : Quieto(t, u, e) \/ Cita(t, u, n, e) \/ Espera(t, u, n, e)
  /\ \A e, g \in 1..n :
       Cita(t, u, n, e) /\ Cita(t, u, n, g)
       /\ u.entrenadores[e].tarea.entrenador_intercambio = u.entrenadores[g].tarea.entrenador_intercambio
       => e = g

\* What the search has: those in the list are as they were.
Estado(t, n, v) ==
  /\ Resuelto(t, v.team, n)
  /\ \A x \in 1..n : Cantidad(v.lista, x) <= 1
  /\ \A x \in 1..n : Cantidad(v.lista, x) > 0 =>
       /\ Quieto(t, v.team, x)
       /\ t.entrenadores[x].estado = "BLOCK" /\ ~t.entrenadores[x].esperando_intercambio
Busquedas(t, n) == {v \in [team : Equipos(n), lista : Seq(1..n), i : Nat \ {0}] : Estado(t, n, v)}

\* The list that is left has neither of the two.
SinPar(l, lista, n, e, f) ==
  /\ l \in Seq(1..n)
  /\ \A x \in 1..n : Cantidad(l, x) <= Cantidad(lista, x)
  /\ Cantidad(l, e) = 0 /\ Cantidad(l, f) = 0

LEMMA AsignaPar ==
  ASSUME NEW n \in Nat, NEW t \in Equipos(n), NEW v \in Busquedas(t, n),
         NEW e \in 1..n, NEW f \in 1..n, e # f,
         Cantidad(v.lista, e) > 0, Cantidad(v.lista, f) > 0,
         QuiereAlgoDe(v.team, e, f),
         NEW b \in Especies, Contains(Sobrantes(v.team.entrenadores[e]), b),
         NEW l, SinPar(l, v.lista, n, e, f)
  PROVE  [team |-> AsignarTareaIntercambio(v.team, e, f, b), lista |-> l, i |-> 1] \in Busquedas(t, n)
<1> DEFINE u == v.team
           xe == u.entrenadores[e]
           xf == u.entrenadores[f]
           a == Head(Faltantes(xe))
           ye == [xe EXCEPT !.tarea = Intercambio(f, a, b)]
           yf == [xf EXCEPT !.esperando_intercambio = TRUE]
           w == [u EXCEPT !.entrenadores = [u.entrenadores EXCEPT ![f] = yf, ![e] = ye]]
           z == AsignarTareaIntercambio(u, e, f, b)
           ze == [xe EXCEPT !.tarea = Intercambio(f, a, b), !.estado = "READY"]
<1>1. u \in Equipos(n) /\ v.lista \in Seq(1..n) /\ Estado(t, n, v)
  BY DEF Busquedas
<1>2. /\ u.entrenadores \in [1..n -> Fichas(n)] /\ xe \in Fichas(n) /\ xf \in Fichas(n)
      /\ u.ready \in Seq(1..n) /\ t.ready \in Seq(1..n)
  <2>1. u.entrenadores \in [1..n -> Fichas(n)] /\ u.ready \in Seq(1..n) /\ t.ready \in Seq(1..n)
    BY <1>1, Campos
  <2>2. QED
    BY <2>1
<1>3. xe = t.entrenadores[e] /\ xe.estado = "BLOCK" /\ ~xe.esperando_intercambio
      /\ xf = t.entrenadores[f] /\ xf.estado = "BLOCK" /\ ~xf.esperando_intercambio
      /\ Cantidad(u.ready, e) = Cantidad(t.ready, e) /\ Cantidad(u.ready, f) = Cantidad(t.ready, f)
  BY <1>1 DEF Estado, Quieto
<1>4. a \in Especies /\ Contains(Faltantes(xe), a) /\ Contains(Sobrantes(xf), a)
  <2>1. Faltantes(xe) # <<>> /\ Contains(Sobrantes(xf), a)
    BY DEF QuiereAlgoDe
  <2>2. xe.capturados \in Seq(Especies) /\ xe.buscados \in Seq(Especies)
    BY <1>2 DEF Fichas
  <2>3. Faltantes(xe) \in Seq(Especies)
    BY <2>2, MenosCuenta DEF Faltantes
  <2> DEFINE m == Faltantes(xe)
  <2>4. m \in Seq(Especies) /\ m # <<>>
    BY <2>1, <2>3
  <2> HIDE DEF m
  <2>5. Len(m) \in Nat \ {0} /\ m[1] = Head(m) /\ Head(m) \in Especies
    BY <2>4, EmptySeq, LenProperties, ElementOfSeq
  <2>6. Contains(m, Head(m))
    BY <2>5 DEF Contains
  <2>7. QED
    BY <2>1, <2>5, <2>6 DEF m
<1>5. Intercambio(f, a, b) \in Intercambios(n) /\ Intercambio(f, a, b).entrenador_intercambio = f
      /\ Intercambio(f, a, b).pokemon_a_pedir = a /\ Intercambio(f, a, b).pokemon_a_otorgar = b
  BY <1>4 DEF Intercambio, Intercambios
<1> DEFINE ic == Intercambio(f, a, b)
<1> HIDE DEF ic, a
<1>6. ye \in Fichas(n) /\ yf \in Fichas(n) /\ ze \in Fichas(n)
  <2>1. ic \in Tareas(n)
    BY <1>5 DEF Tareas, ic
  <2>2. QED
    BY <1>2, <2>1 DEF Fichas, ic
<1>7. z = AgregarAReady(w, e)
  <2>1. z = AgregarAReady([u EXCEPT !.entrenadores[f].esperando_intercambio = TRUE,
                                    !.entrenadores[e].tarea = ic], e)
    BY Zenon DEF AsignarTareaIntercambio, a, ic
  <2>2. [u EXCEPT !.entrenadores[f].esperando_intercambio = TRUE,
                  !.entrenadores[e].tarea = ic] = w
    BY <1>1, <1>2 DEF Equipos, ic
  <2>3. QED
    BY <2>1, <2>2
<1>8. ye.estado = xe.estado /\ [ye EXCEPT !.estado = "READY"] = ze
      /\ ze.tarea = ic /\ ze.estado = "READY" /\ yf.esperando_intercambio
      /\ ze = [xe EXCEPT !.tarea = ze.tarea, !.estado = "READY"]
  BY <1>2 DEF Fichas, ic
<1> HIDE DEF ye, yf, ze
<1> DEFINE g == [u.entrenadores EXCEPT ![f] = yf, ![e] = ye]
<1>9. g \in [1..n -> Fichas(n)]
  BY <1>2, <1>6
<1>10. g[e] = ye /\ g[f] = yf /\ \A x \in 1..n : x # e /\ x # f => g[x] = u.entrenadores[x]
  BY <1>2
<1>11. w = [u EXCEPT !.entrenadores = g]
  OBVIOUS
<1> HIDE DEF g, w, z
<1>12. /\ w \in Equipos(n) /\ w.entrenadores = g /\ w.ready = u.ready
       /\ w.desocupados = u.desocupados /\ w.objetivos = u.objetivos /\ w.mapa = u.mapa
  BY <1>1, <1>9, <1>11 DEF Equipos
<1>13. Readmitido(w, z, n, e)
  BY <1>7, <1>12, AgregarAReadyHace
<1>14. /\ z \in Equipos(n)
       /\ z.entrenadores = [g EXCEPT ![e] = [g[e] EXCEPT !.estado = "READY"]]
       /\ z.desocupados = t.desocupados /\ z.objetivos = t.objetivos /\ z.mapa = t.mapa
       /\ \A x \in 1..n : Cantidad(z.ready, x) =
            IF x = e THEN Cantidad(u.ready, x) + 1 ELSE Cantidad(u.ready, x)
  BY <1>1, <1>12, <1>13 DEF Readmitido, Estado, Resuelto
<1>15. z.entrenadores[e] = ze /\ z.entrenadores[f] = yf
       /\ \A x \in 1..n : x # e /\ x # f => z.entrenadores[x] = u.entrenadores[x]
  <2>1. [g[e] EXCEPT !.estado = "READY"] = ze
    BY <1>8, <1>10
  <2>2. z.entrenadores = [g EXCEPT ![e] = ze]
    BY <1>14, <2>1
  <2>3. QED
    BY <1>9, <1>10, <2>2
<1>16. yf = [t.entrenadores[f] EXCEPT !.esperando_intercambio = TRUE]
  BY <1>3 DEF yf
<1>17. Cita(t, z, n, e) /\ z.entrenadores[e].tarea.entrenador_intercambio = f
  <2>1. ic.entrenador_intercambio = f /\ ic \in Intercambios(n) /\ ic.pokemon_a_pedir = a
        /\ ic.pokemon_a_otorgar = b
    BY <1>5 DEF ic
  <2>2. Cantidad(z.ready, e) = Cantidad(t.ready, e) + 1
    BY <1>3, <1>14
  <2>3. z.entrenadores[e].tarea = ic
    BY <1>8, <1>15
  <2>4. z.entrenadores[e] = [t.entrenadores[e] EXCEPT !.tarea = ic, !.estado = "READY"]
    BY <1>3, <1>8, <1>15
  <2>5. QED
    BY <1>3, <1>4, <1>15, <1>16, <2>1, <2>2, <2>3, <2>4 DEF Cita
<1>18. ze.estado = "READY" /\ ~ze.esperando_intercambio /\ yf.estado = "BLOCK"
       /\ yf.esperando_intercambio
  BY <1>2, <1>3 DEF ze, yf, Fichas
<1>19. ASSUME NEW x \in 1..n, Cita(t, u, n, x)
       PROVE  /\ x # e /\ x # f
              /\ z.entrenadores[x] = u.entrenadores[x]
              /\ u.entrenadores[x].tarea.entrenador_intercambio # f
              /\ Cita(t, z, n, x)
  <2> DEFINE h == u.entrenadores[x].tarea.entrenador_intercambio
             y == u.entrenadores[x]
  <2>1. y = [t.entrenadores[x] EXCEPT !.tarea = y.tarea, !.estado = "READY"]
        /\ h \in 1..n /\ u.entrenadores[h] = [t.entrenadores[h] EXCEPT !.esperando_intercambio = TRUE]
        /\ Cantidad(u.ready, x) = Cantidad(t.ready, x) + 1
    BY <1>19 DEF Cita
  <2>2. t.entrenadores[x] \in Fichas(n) /\ t.entrenadores[h] \in Fichas(n)
    <3>1. t.entrenadores \in [1..n -> Fichas(n)]
      BY Campos
    <3>2. QED
      BY <2>1, <3>1
  <2>3. y.estado = "READY" /\ u.entrenadores[h].esperando_intercambio
    BY <2>1, <2>2 DEF Fichas
  <2>4. x # e /\ x # f /\ h # e /\ h # f
    <3> HIDE DEF h, y
    <3>1. y.estado = "READY" /\ u.entrenadores[h].esperando_intercambio
      BY <2>3
    <3>2. xe.estado = "BLOCK" /\ ~xe.esperando_intercambio
          /\ xf.estado = "BLOCK" /\ ~xf.esperando_intercambio
      BY <1>3
    <3>3. QED
      BY <3>1, <3>2 DEF y
  <2>5. z.entrenadores[x] = u.entrenadores[x] /\ z.entrenadores[h] = u.entrenadores[h]
        /\ Cantidad(z.ready, x) = Cantidad(u.ready, x)
    BY <1>14, <1>15, <2>1, <2>4
  <2>6. Cita(t, z, n, x)
    BY <1>19, <2>5 DEF Cita
  <2>7. QED
    BY <2>4, <2>5, <2>6
<1>20. \A x \in 1..n : Quieto(t, u, x) \/ Cita(t, u, n, x) \/ Espera(t, u, n, x)
  BY <1>1 DEF Estado, Resuelto
<1>21. ASSUME NEW x \in 1..n, x # e
       PROVE  Quieto(t, z, x) \/ Cita(t, z, n, x) \/ Espera(t, z, n, x)
  <2>1. CASE x = f
    <3>1. Cantidad(z.ready, f) = Cantidad(t.ready, f)
      BY <1>3, <1>14
    <3>2. QED
      BY <1>17, <2>1, <3>1 DEF Espera
  <2>2. CASE x # f
    <3>1. z.entrenadores[x] = u.entrenadores[x] /\ Cantidad(z.ready, x) = Cantidad(u.ready, x)
      BY <1>14, <1>15, <1>21, <2>2
    <3>2. CASE Quieto(t, u, x)
      BY <3>1, <3>2 DEF Quieto
    <3>3. CASE Cita(t, u, n, x)
      BY <1>19, <3>3
    <3>4. CASE Espera(t, u, n, x)
      <4>1. PICK h \in 1..n : Cita(t, u, n, h) /\ u.entrenadores[h].tarea.entrenador_intercambio = x
        BY <3>4 DEF Espera
      <4>2. Cita(t, z, n, h) /\ z.entrenadores[h] = u.entrenadores[h]
        BY <1>19, <4>1
      <4>3. Cantidad(z.ready, x) = Cantidad(t.ready, x)
        BY <3>1, <3>4 DEF Espera
      <4>4. QED
        BY <4>1, <4>2, <4>3 DEF Espera
    <3>5. QED
      BY <1>20, <3>2, <3>3, <3>4
  <2>3. QED
    BY <2>1, <2>2
<1>22. ASSUME NEW x \in 1..n, Cita(t, z, n, x), x # e
       PROVE  Cita(t, u, n, x)
  <2>1. t.entrenadores[x] \in Fichas(n)
    <3>1. t.entrenadores \in [1..n -> Fichas(n)]
      BY Campos
    <3>2. QED
      BY <3>1
  <2>2. z.entrenadores[x].estado = "READY" /\ t.entrenadores[x].estado = "BLOCK"
    BY <1>22, <2>1 DEF Cita, Fichas
  <2>3. x # f
    BY <1>15, <1>18, <2>2
  <2>4. u.entrenadores[x].estado = "READY"
    BY <1>15, <1>22, <2>2, <2>3
  <2>5. ~Quieto(t, u, x)
    BY <2>2, <2>4 DEF Quieto
  <2>6. ~Espera(t, u, n, x)
    <3> SUFFICES ASSUME Espera(t, u, n, x) PROVE FALSE
      OBVIOUS
    <3>1. u.entrenadores[x] = [t.entrenadores[x] EXCEPT !.esperando_intercambio = TRUE]
      BY DEF Espera, Cita
    <3>2. u.entrenadores[x].estado = t.entrenadores[x].estado
      BY <2>1, <3>1 DEF Fichas
    <3>3. QED
      BY <2>2, <2>4, <3>2
  <2>7. QED
    BY <1>20, <2>5, <2>6
<1>23. ASSUME NEW x \in 1..n, NEW y \in 1..n, Cita(t, z, n, x), Cita(t, z, n, y),
              z.entrenadores[x].tarea.entrenador_intercambio
                = z.entrenadores[y].tarea.entrenador_intercambio
       PROVE  x = y
  <2>1. CASE x = e /\ y # e
    <3>1. Cita(t, u, n, y)
      BY <1>22, <1>23, <2>1
    <3>2. QED
      BY <1>17, <1>19, <1>23, <2>1, <3>1
  <2>2. CASE x # e /\ y = e
    <3>1. Cita(t, u, n, x)
      BY <1>22, <1>23, <2>2
    <3>2. QED
      BY <1>17, <1>19, <1>23, <2>2, <3>1
  <2>3. CASE x # e /\ y # e
    <3>1. Cita(t, u, n, x) /\ Cita(t, u, n, y)
      BY <1>22, <1>23, <2>3
    <3>2. z.entrenadores[x] = u.entrenadores[x] /\ z.entrenadores[y] = u.entrenadores[y]
      BY <1>19, <3>1
    <3>3. QED
      BY <1>1, <1>23, <3>1, <3>2 DEF Estado, Resuelto
  <2>4. QED
    BY <2>1, <2>2, <2>3
<1>24. Resuelto(t, z, n)
  BY <1>14, <1>17, <1>21, <1>23 DEF Resuelto
<1> DEFINE s == [team |-> z, lista |-> l, i |-> 1]
<1>25. ASSUME NEW x \in 1..n
       PROVE  /\ Cantidad(l, x) <= 1
              /\ Cantidad(l, x) > 0 =>
                   /\ Quieto(t, z, x)
                   /\ t.entrenadores[x].estado = "BLOCK" /\ ~t.entrenadores[x].esperando_intercambio
  <2>1. l \in Seq(1..n) /\ Cantidad(l, x) <= Cantidad(v.lista, x)
        /\ Cantidad(l, e) = 0 /\ Cantidad(l, f) = 0
    BY DEF SinPar
  <2>2. Cantidad(l, x) \in Nat /\ Cantidad(v.lista, x) \in Nat
    BY <1>1, <2>1, CantidadCuantos
  <2>3. Cantidad(v.lista, x) <= 1
    BY <1>1 DEF Estado
  <2>4. Cantidad(l, x) <= 1
    BY <2>1, <2>2, <2>3
  <2>5. ASSUME Cantidad(l, x) > 0
        PROVE  /\ Quieto(t, z, x)
               /\ t.entrenadores[x].estado = "BLOCK" /\ ~t.entrenadores[x].esperando_intercambio
    <3>1. Cantidad(v.lista, x) > 0 /\ x # e /\ x # f
      BY <2>1, <2>2, <2>5
    <3>2. Quieto(t, u, x) /\ t.entrenadores[x].estado = "BLOCK"
          /\ ~t.entrenadores[x].esperando_intercambio
      BY <1>1, <3>1 DEF Estado
    <3>3. Cantidad(z.ready, x) = Cantidad(u.ready, x) /\ z.entrenadores[x] = u.entrenadores[x]
      BY <1>14, <1>15, <3>1
    <3>4. QED
      BY <3>2, <3>3 DEF Quieto
  <2>6. QED
    BY <2>4, <2>5
<1>26. Estado(t, n, s)
  BY <1>24, <1>25 DEF Estado
<1>27. l \in Seq(1..n) /\ z \in Equipos(n) /\ 1 \in Nat \ {0}
  BY <1>14 DEF SinPar
<1>28. s \in [team : Equipos(n), lista : Seq(1..n), i : Nat \ {0}]
  BY <1>27
<1>29. s \in Busquedas(t, n)
  BY <1>26, <1>28 DEF Busquedas
<1>30. QED
  BY <1>29 DEF z

Libre(x) == x.estado = "BLOCK" /\ ~x.esperando_intercambio

\* The list of the search: the blocked ones that wait for nobody, once each.
LEMMA BloqueadosSon ==
  ASSUME NEW n \in Nat, NEW t \in Equipos(n)
  PROVE  /\ Bloqueados(t) \in Seq(1..n)
         /\ \A e \in 1..n : Cantidad(Bloqueados(t), e) = Bit(Libre(t.entrenadores[e]))
<1> DEFINE P == {e \in 1..n : Libre(t.entrenadores[e])}
           S == Seq(1..n)
           r == [e \in DOMAIN t.entrenadores |-> e]
           paso == [k \in 1..n |-> [v \in S |-> IF k \in P THEN Append(v, k) ELSE v]]
<1>1. DOMAIN t.entrenadores = 1..n
  BY Campos
<1>2. DOMAIN r = 1..n /\ \A k \in 1..n : r[k] = k
  BY <1>1
<1>3a. <<>> \in S
  OBVIOUS
<1>3. <<>> \in S /\ paso \in Pasos(S, n)
  <2>1. \A v \in S, k \in 1..n : Append(v, k) \in S
    BY AppendProperties
  <2> HIDE DEF P, S
  <2>2. \A k \in 1..n : [v \in S |-> IF k \in P THEN Append(v, k) ELSE v] \in [S -> S]
    BY <2>1
  <2>3. paso \in [1..n -> [S -> S]]
    BY <2>2
  <2>4. QED
    BY <1>3a, <2>3 DEF Pasos
<1>4. PICK f : EsPliegue(f, S, n, <<>>, paso)
  <2> HIDE DEF paso, S
  <2>1. QED
    BY <1>3, HayPliegue
<1>5. PICK c : /\ Bloqueados(t) = c[1..n]
               /\ \A x \in SUBSET (1..n) :
                    c[x] = IF x = {} THEN <<>>
                           ELSE IF r[Max(x)] \in P THEN Append(c[x \ {Max(x)}], r[Max(x)])
                           ELSE c[x \ {Max(x)}]
  <2> DEFINE Ec(it) == it = [x \in SUBSET (DOMAIN r) |->
                               IF x = {} THEN <<>>
                               ELSE IF Libre(t.entrenadores[r[Max(x)]])
                                    THEN Append(it[x \ {Max(x)}], r[Max(x)])
                                    ELSE it[x \ {Max(x)}]]
             d == CHOOSE it : Ec(it)
  <2>1. Bloqueados(t) = d[DOMAIN r]
    BY DEF Bloqueados, FoldLeft, MapThenFoldSet, Libre
  <2> HIDE DEF r
  <2>2. ASSUME NEW x \in SUBSET (1..n)
        PROVE  f[x] = IF x = {} THEN <<>>
                      ELSE IF Libre(t.entrenadores[r[Max(x)]])
                           THEN Append(f[x \ {Max(x)}], r[Max(x)])
                           ELSE f[x \ {Max(x)}]
    <3>1. f[x] = IF x = {} THEN <<>> ELSE paso[Max(x)][f[x \ {Max(x)}]]
      BY <1>4 DEF EsPliegue
    <3>2. CASE x # {}
      <4>1. Max(x) \in 1..n /\ x \ {Max(x)} \in SUBSET (1..n)
        BY <3>2, MaxEsta
      <4>2. f[x \ {Max(x)}] \in S
        BY <1>4, <4>1 DEF EsPliegue
      <4>3. QED
        BY <1>2, <3>1, <3>2, <4>1, <4>2
    <3>3. QED
      BY <3>1, <3>2
  <2>3. f = [x \in SUBSET (1..n) |-> f[x]]
    BY <1>4 DEF EsPliegue
  <2>4. Ec(f)
    BY <1>2, <2>2, <2>3
  <2>5. Ec(d)
    <3> HIDE DEF Ec
    <3>1. QED
      BY <2>4
  <2> HIDE DEF d
  <2>6. ASSUME NEW x \in SUBSET (1..n)
        PROVE  d[x] = IF x = {} THEN <<>>
                           ELSE IF r[Max(x)] \in P THEN Append(d[x \ {Max(x)}], r[Max(x)])
                           ELSE d[x \ {Max(x)}]
    <3>1. d[x] = IF x = {} THEN <<>>
                 ELSE IF Libre(t.entrenadores[r[Max(x)]])
                      THEN Append(d[x \ {Max(x)}], r[Max(x)])
                      ELSE d[x \ {Max(x)}]
      BY <1>2, <2>5
    <3>2. x # {} => r[Max(x)] \in 1..n
      BY <1>2, MaxEsta
    <3>3. QED
      BY <3>1, <3>2
  <2>7. QED
    BY <1>2, <2>1, <2>6
<1>6. c[{}] = <<>>
  BY <1>5
<1>7. \A x \in SUBSET (1..n) :
           x # {} => c[x] = IF Max(x) \in P THEN Append(c[x \ {Max(x)}], Max(x))
                                            ELSE c[x \ {Max(x)}]
  <2> TAKE x \in SUBSET (1..n)
  <2> HAVE x # {}
  <2>1. r[Max(x)] = Max(x)
    <3> HIDE DEF r
    <3>1. QED
      BY <1>2, MaxEsta
  <2> HIDE DEF r, P
  <2>2. QED
    BY <1>5, <2>1
<1>8. c[1..n] \in Seq(1..n) /\ \A x \in 1..n : Cuantos(c[1..n], {x}) = Bit(x \in P)
  <2> HIDE DEF P
  <2>1. QED
    BY <1>6, <1>7, PliegueFiltra
<1>9. ASSUME NEW e \in 1..n
      PROVE  Cantidad(Bloqueados(t), e) = Bit(Libre(t.entrenadores[e]))
  <2>1. Cantidad(c[1..n], e) = Cuantos(c[1..n], {e})
    <3> DEFINE l == c[1..n]
    <3>1. l \in Seq(1..n)
      BY <1>8
    <3> HIDE DEF l
    <3>2. Cantidad(l, e) = Cuantos(l, {e})
      BY <3>1, CantidadCuantos
    <3>3. QED
      BY <3>2 DEF l
  <2>2. Cantidad(Bloqueados(t), e) = Bit(e \in P)
    BY <1>5, <1>8, <2>1
  <2>3. QED
    BY <2>2 DEF Bit
<1>10. QED
  BY <1>5, <1>8, <1>9

LEMMA QuitarLugar ==
  ASSUME NEW T, NEW s \in Seq(T), NEW k \in 1..Len(s)
  PROVE  /\ RemoveAt(s, k) \in Seq(T) /\ s[k] \in T
         /\ \A x : /\ Cantidad(s, x) \in Nat /\ Cantidad(RemoveAt(s, k), x) \in Nat
                  /\ Cantidad(s, x) = Cantidad(RemoveAt(s, k), x) + (IF x = s[k] THEN 1 ELSE 0)
<1>0. RemoveAt(s, k) \in Seq(T) /\ s[k] \in T
  BY CuantosQuitar, ElementOfSeq
<1>9. SUFFICES ASSUME NEW x
      PROVE  /\ Cantidad(s, x) \in Nat /\ Cantidad(RemoveAt(s, k), x) \in Nat
             /\ Cantidad(s, x) = Cantidad(RemoveAt(s, k), x) + (IF x = s[k] THEN 1 ELSE 0)
  BY <1>0
<1> DEFINE C == {x}
           r == RemoveAt(s, k)
<1>1. Bit(s[k] \in C) = IF x = s[k] THEN 1 ELSE 0
  BY DEF Bit
<1>2. r \in Seq(T) /\ s[k] \in T
  BY CuantosQuitar, ElementOfSeq
<1> HIDE DEF r
<1>3. /\ Cantidad(s, x) = Cuantos(s, C) /\ Cantidad(s, x) \in Nat
      /\ Cantidad(r, x) = Cuantos(r, C) /\ Cantidad(r, x) \in Nat
  BY <1>2, CantidadCuantos
<1> HIDE DEF C
<1>4. Cuantos(s, C) = Cuantos(r, C) + Bit(s[k] \in C)
  BY CuantosQuitar DEF r
<1>5. QED
  BY <1>1, <1>2, <1>3, <1>4 DEF r

\* Trainers with their hands full.
Llenos(t, n) == \A e \in 1..n : Len(t.entrenadores[e].capturados) = Len(t.entrenadores[e].buscados)

Con(v, l, i) == [v EXCEPT !.lista = l, !.i = i]
\* Fewer trainers in the list.
Acorta(l, lista, n) == l \in Seq(1..n) /\ \A x \in 1..n : Cantidad(l, x) <= Cantidad(lista, x)
LEMMA SigueBuscando ==
  ASSUME NEW n \in Nat, NEW t, NEW v \in Busquedas(t, n), NEW l, Acorta(l, v.lista, n),
         NEW i \in Nat \ {0}
  PROVE  Con(v, l, i) \in Busquedas(t, n)
<1> DEFINE s == Con(v, l, i)
<1>1. /\ v \in [team : Equipos(n), lista : Seq(1..n), i : Nat \ {0}] /\ Estado(t, n, v)
      /\ l \in Seq(1..n)
  BY DEF Busquedas, Acorta
<1>2. s \in [team : Equipos(n), lista : Seq(1..n), i : Nat \ {0}] /\ s.team = v.team /\ s.lista = l
  BY <1>1 DEF Con
<1>3. v.lista \in Seq(1..n)
  BY <1>1
<1>4. \A x \in 1..n : Cantidad(l, x) \in Nat /\ Cantidad(v.lista, x) \in Nat
  BY <1>1, <1>3, CantidadCuantos
<1> HIDE DEF s
<1>5. \A x \in 1..n : Cantidad(l, x) <= 1 /\ (Cantidad(l, x) > 0 => Cantidad(v.lista, x) > 0)
  <2> TAKE x \in 1..n
  <2>1. Cantidad(v.lista, x) <= 1 /\ Cantidad(l, x) <= Cantidad(v.lista, x)
    BY <1>1 DEF Estado, Acorta
  <2>2. QED
    BY <1>4, <2>1
<1>6. Estado(t, n, s)
  BY <1>1, <1>2, <1>5 DEF Estado
<1>7. QED
  BY <1>2, <1>6 DEF Busquedas, s

\* Who is in a list.
LEMMA EnLista ==
  ASSUME NEW T, NEW s \in Seq(T), NEW k \in 1..Len(s)
  PROVE  s[k] \in T /\ Cantidad(s, s[k]) > 0
<1> DEFINE x == s[k]
<1>1. /\ Cantidad(s, x) \in Nat /\ Cantidad(RemoveAt(s, k), x) \in Nat /\ x \in T
      /\ Cantidad(s, x) = Cantidad(RemoveAt(s, k), x) + 1
  BY QuitarLugar
<1> HIDE DEF x
<1>2. Cantidad(s, x) > 0
  BY <1>1
<1>3. QED
  BY <1>1, <1>2 DEF x

\* What is missing of a trainer, and what it has to spare.
LEMMA Balance ==
  ASSUME NEW n \in Nat, NEW x \in Fichas(n)
  PROVE  /\ Faltantes(x) \in Seq(Especies) /\ Sobrantes(x) \in Seq(Especies)
         /\ Faltantes(x) # <<>> => Head(Faltantes(x)) \in Especies /\ ~Contains(Sobrantes(x), Head(Faltantes(x)))
         /\ Faltantes(x) # <<>> /\ Len(x.capturados) = Len(x.buscados) =>
              /\ Head(Sobrantes(x)) \in Especies /\ Sobrantes(x) # <<>>
              /\ Contains(Sobrantes(x), Head(Sobrantes(x)))
<1> DEFINE cap == x.capturados
           bus == x.buscados
           a == Head(Menos(bus, cap))
<1>1. cap \in Seq(Especies) /\ bus \in Seq(Especies)
  BY DEF Fichas
<1>2. Faltantes(x) = Menos(bus, cap) /\ Sobrantes(x) = Menos(cap, bus)
  BY DEF Faltantes, Sobrantes
<1> HIDE DEF cap, bus
<1>3. Menos(bus, cap) \in Seq(Especies) /\ Menos(cap, bus) \in Seq(Especies)
  BY <1>1, MenosCuenta
<1>4. ASSUME Menos(bus, cap) # <<>>
      PROVE  a \in Especies /\ ~Contains(Menos(cap, bus), a)
  <2> DEFINE m == Menos(bus, cap)
  <2>1. m \in Seq(Especies) /\ m # <<>>
    BY <1>3, <1>4
  <2> HIDE DEF m
  <2>2. Len(m) \in Nat \ {0} /\ m[1] = Head(m) /\ Head(m) \in Especies
    BY <2>1, EmptySeq, LenProperties, ElementOfSeq
  <2>3. Contains(m, Head(m))
    BY <2>2 DEF Contains
  <2>4. a \in Especies /\ Contains(Menos(bus, cap), a)
    BY <2>2, <2>3 DEF m
  <2> HIDE DEF a
  <2>5. /\ Cuantos(bus, {a}) > Cuantos(cap, {a})
        /\ Cuantos(bus, {a}) \in Nat /\ Cuantos(cap, {a}) \in Nat
    BY <1>1, <2>4, MenosContiene
  <2>6. Contains(Menos(cap, bus), a) => Cuantos(cap, {a}) > Cuantos(bus, {a})
    BY <1>1, <2>4, MenosContiene
  <2>7. QED
    BY <2>4, <2>5, <2>6
<1>5. ASSUME Menos(bus, cap) # <<>>, Len(cap) = Len(bus)
      PROVE  /\ Head(Menos(cap, bus)) \in Especies /\ Menos(cap, bus) # <<>>
             /\ Contains(Menos(cap, bus), Head(Menos(cap, bus)))
  <2>1. Menos(cap, bus) # <<>>
    BY <1>1, <1>5, IgualLargo
  <2>2. QED
    BY <1>1, <1>5, <2>1, IgualLargo
<1>6. QED
  BY <1>2, <1>3, <1>4, <1>5 DEF cap, bus, a

LEMMA PasoCiclosSigue ==
  ASSUME NEW n \in Nat, NEW t \in Equipos(n), NEW v \in Busquedas(t, n), EnCurso(v)
  PROVE  PasoCiclos(v) \in Busquedas(t, n)
<1> DEFINE e == v.lista[v.i]
           resto == RemoveAt(v.lista, v.i)
           I == {k \in 1..Len(resto) : HayCiclo(v.team, e, resto[k])}
           k == IF I # {} THEN Min(I) ELSE 0
           f == resto[k]
           l == RemoveAt(resto, k)
           b == Head(Faltantes(v.team.entrenadores[f]))
<1>1. v.team \in Equipos(n) /\ v.lista \in Seq(1..n) /\ v.i \in Nat \ {0} /\ Estado(t, n, v)
      /\ v \in [team : Equipos(n), lista : Seq(1..n), i : Nat \ {0}]
  BY DEF Busquedas
<1>2. v.i \in 1..Len(v.lista)
  BY <1>1, LenProperties DEF EnCurso
<1>3. PasoCiclos(v) = IF k = 0 THEN [v EXCEPT !.lista = resto, !.i = @ + 1]
                      ELSE [team |-> AsignarTareaIntercambio(v.team, e, f, b), lista |-> l, i |-> 1]
  BY DEF PasoCiclos, SelectInSeq
<1>4. /\ resto \in Seq(1..n) /\ e \in 1..n /\ Cantidad(v.lista, e) > 0
      /\ \A x \in 1..n : /\ Cantidad(v.lista, x) \in Nat /\ Cantidad(resto, x) \in Nat
                         /\ Cantidad(v.lista, x) = Cantidad(resto, x) + (IF x = e THEN 1 ELSE 0)
                         /\ Cantidad(v.lista, x) <= 1
  <2> DEFINE s == v.lista
             i == v.i
  <2>1. s \in Seq(1..n) /\ i \in 1..Len(s)
    BY <1>1, <1>2
  <2>2. \A x \in 1..n : Cantidad(s, x) <= 1
    BY <1>1 DEF Estado
  <2> HIDE DEF s, i
  <2>3. s[i] \in 1..n /\ Cantidad(s, s[i]) > 0
    BY <2>1, EnLista
  <2>4. /\ RemoveAt(s, i) \in Seq(1..n)
        /\ \A x : /\ Cantidad(s, x) \in Nat /\ Cantidad(RemoveAt(s, i), x) \in Nat
                 /\ Cantidad(s, x) = Cantidad(RemoveAt(s, i), x) + (IF x = s[i] THEN 1 ELSE 0)
    BY <2>1, QuitarLugar
  <2>5. QED
    BY <2>2, <2>3, <2>4 DEF s, i
<1> HIDE DEF resto, e
<1>5. CASE I = {}
  <2> DEFINE j == v.i + 1
  <2>1. k = 0
    BY <1>5
  <2>2. j \in Nat \ {0}
    BY <1>1
  <2>3. PasoCiclos(v) = Con(v, resto, j)
    BY <1>1, <1>3, <2>1 DEF Con
  <2> HIDE DEF j, k, I
  <2>4. Acorta(resto, v.lista, n)
    BY <1>4 DEF Acorta
  <2>5. QED
    BY <2>2, <2>3, <2>4, SigueBuscando
<1>6. CASE I # {}
  <2>1. k \in 1..Len(resto) /\ k \in I /\ k # 0
    <3>1. I \subseteq 1..Len(resto) /\ k = Min(I)
      BY <1>6
    <3>2. k \in 1..Len(resto) /\ k \in I
      <4> HIDE DEF I
      <4>1. Min(I) \in 1..Len(resto) /\ Min(I) \in I
        BY <1>4, <1>6, <3>1, PrimeroDeSus
      <4>2. QED
        BY <3>1, <4>1
    <3> HIDE DEF I, k
    <3>3. Len(resto) \in Nat
      BY <1>4, LenProperties
    <3>4. QED
      BY <3>2, <3>3
  <2>2. HayCiclo(v.team, e, f)
    BY <2>1
  <2> HIDE DEF I, k
  <2>3. /\ l \in Seq(1..n) /\ f \in 1..n /\ Cantidad(resto, f) > 0
        /\ \A x \in 1..n : /\ Cantidad(l, x) \in Nat
                           /\ Cantidad(resto, x) = Cantidad(l, x) + (IF x = f THEN 1 ELSE 0)
    BY <1>4, <2>1, QuitarLugar, EnLista
  <2> HIDE DEF l, f
  <2>4. e # f
    BY <1>4, <2>3
  <2>5. Cantidad(v.lista, f) > 0
    BY <1>4, <2>3
  <2>6. SinPar(l, v.lista, n, e, f)
    <3>1. Cantidad(l, e) = 0 /\ Cantidad(l, f) = 0
      BY <1>4, <2>3, <2>4
    <3>2. \A x \in 1..n : Cantidad(l, x) <= Cantidad(v.lista, x)
      <4> TAKE x \in 1..n
      <4> DEFINE p == Cantidad(l, x)
                 q == Cantidad(resto, x)
                 o == Cantidad(v.lista, x)
      <4>1. p \in Nat /\ q \in Nat /\ o \in Nat
            /\ q = p + (IF x = f THEN 1 ELSE 0) /\ o = q + (IF x = e THEN 1 ELSE 0)
        BY <1>4, <2>3
      <4> HIDE DEF p, q, o
      <4>2. p <= o
        BY <4>1
      <4>3. QED
        BY <4>2 DEF p, o
    <3>3. QED
      BY <2>3, <3>1, <3>2 DEF SinPar
  <2>7. QuiereAlgoDe(v.team, e, f) /\ QuiereAlgoDe(v.team, f, e)
    BY <2>2 DEF HayCiclo
  <2>8. b \in Especies /\ Contains(Sobrantes(v.team.entrenadores[e]), b)
    <3>1. v.team.entrenadores[f] \in Fichas(n)
      BY <1>1, <2>3, Campos
    <3>2. Faltantes(v.team.entrenadores[f]) # <<>> /\ Contains(Sobrantes(v.team.entrenadores[e]), b)
      BY <2>7 DEF QuiereAlgoDe
    <3>3. QED
      BY <3>1, <3>2, Balance
  <2>9. PasoCiclos(v) = [team |-> AsignarTareaIntercambio(v.team, e, f, b), lista |-> l, i |-> 1]
    BY <1>3, <2>1
  <2> HIDE DEF b
  <2>10. QED
    BY <1>4, <2>3, <2>4, <2>5, <2>6, <2>7, <2>8, <2>9, AsignaPar
<1>7. QED
  BY <1>5, <1>6

LEMMA PasoCualquieraSigue ==
  ASSUME NEW n \in Nat, NEW t \in Equipos(n), Llenos(t, n), NEW v \in Busquedas(t, n), EnCurso(v)
  PROVE  PasoCualquiera(v) \in Busquedas(t, n)
<1> DEFINE e == v.lista[v.i]
           I == {k \in 1..Len(v.lista) : QuiereAlgoDe(v.team, e, v.lista[k])}
           k == IF I # {} THEN Min(I) ELSE 0
           f == v.lista[k]
           resto == RemoveFirst(v.lista, e)
           l == RemoveFirst(resto, f)
           b == Primero(Sobrantes(v.team.entrenadores[e]))
<1>1. v.team \in Equipos(n) /\ v.lista \in Seq(1..n) /\ v.i \in Nat \ {0} /\ Estado(t, n, v)
      /\ v \in [team : Equipos(n), lista : Seq(1..n), i : Nat \ {0}]
  BY DEF Busquedas
<1>2. v.i \in 1..Len(v.lista)
  BY <1>1, LenProperties DEF EnCurso
<1>3. PasoCualquiera(v) = IF k = 0 THEN [v EXCEPT !.i = @ + 1]
                      ELSE [team |-> AsignarTareaIntercambio(v.team, e, f, b), lista |-> l, i |-> 1]
  BY DEF PasoCualquiera, SelectInSeq
<1>4. /\ e \in 1..n /\ Cantidad(v.lista, e) > 0
      /\ \A x \in 1..n : Cantidad(v.lista, x) \in Nat /\ Cantidad(v.lista, x) <= 1
  BY <1>1, <1>2, EnLista, CantidadCuantos DEF Estado
<1> HIDE DEF e
<1>5. CASE I = {}
  <2> DEFINE j == v.i + 1
             m == v.lista
  <2>1. k = 0
    BY <1>5
  <2>2. j \in Nat \ {0}
    BY <1>1
  <2>3. PasoCualquiera(v) = Con(v, m, j)
    BY <1>1, <1>3, <2>1 DEF Con
  <2>4. Acorta(m, v.lista, n)
    BY <1>1, <1>4 DEF Acorta
  <2> HIDE DEF j, k, I, m
  <2>5. QED
    BY <2>2, <2>3, <2>4, SigueBuscando
<1>6. CASE I # {}
  <2>1. k \in 1..Len(v.lista) /\ k \in I /\ k # 0
    <3>1. I \subseteq 1..Len(v.lista) /\ k = Min(I)
      BY <1>6
    <3>2. k \in 1..Len(v.lista) /\ k \in I
      <4> HIDE DEF I
      <4>1. Min(I) \in 1..Len(v.lista) /\ Min(I) \in I
        BY <1>1, <1>6, <3>1, PrimeroDeSus
      <4>2. QED
        BY <3>1, <4>1
    <3>3. QED
      BY <3>2, LenProperties, <1>1
  <2>2. QuiereAlgoDe(v.team, e, f)
    BY <2>1
  <2> HIDE DEF I, k
  <2>3. f \in 1..n /\ Cantidad(v.lista, f) > 0
    BY <1>1, <2>1, EnLista
  <2> HIDE DEF f
  <2>4. v.team.entrenadores[e] \in Fichas(n)
    BY <1>1, <1>4, Campos
  <2>5. e # f
    BY <2>2, <2>4, Balance DEF QuiereAlgoDe
  <2>6. /\ resto \in Seq(1..n)
        /\ \A x \in 1..n : Cantidad(resto, x) = IF x = e /\ Contains(v.lista, e)
                             THEN Cantidad(v.lista, x) - 1 ELSE Cantidad(v.lista, x)
        /\ Contains(v.lista, e)
    BY <1>1, <1>4, QuitarCantidad
  <2> HIDE DEF resto
  <2>7. /\ l \in Seq(1..n)
        /\ \A x \in 1..n : Cantidad(l, x) = IF x = f /\ Contains(resto, f)
                             THEN Cantidad(resto, x) - 1 ELSE Cantidad(resto, x)
        /\ (Contains(resto, f) <=> Cantidad(resto, f) > 0)
    <3>1. resto \in Seq(1..n)
      BY <2>6
    <3>2. QED
      BY <3>1, QuitarCantidad
  <2> HIDE DEF l
  <2>8. Contains(resto, f)
    BY <2>3, <2>5, <2>6, <2>7
  <2>9. SinPar(l, v.lista, n, e, f)
    <3>1. Cantidad(l, e) = 0 /\ Cantidad(l, f) = 0
      BY <1>4, <2>3, <2>5, <2>6, <2>7, <2>8
    <3>2. \A x \in 1..n : Cantidad(l, x) <= Cantidad(v.lista, x)
      BY <1>4, <2>6, <2>7, <2>8
    <3>3. QED
      BY <2>7, <3>1, <3>2 DEF SinPar
  <2>10. b \in Especies /\ Contains(Sobrantes(v.team.entrenadores[e]), b)
    <3>1. v.team.entrenadores[e] = t.entrenadores[e]
      BY <1>1, <1>4 DEF Estado, Quieto
    <3>2. Len(v.team.entrenadores[e].capturados) = Len(v.team.entrenadores[e].buscados)
      BY <1>4, <3>1 DEF Llenos
    <3>3. Faltantes(v.team.entrenadores[e]) # <<>>
      BY <2>2 DEF QuiereAlgoDe
    <3>4. QED
      BY <2>4, <3>2, <3>3, Balance DEF Primero
  <2>11. PasoCualquiera(v) = [team |-> AsignarTareaIntercambio(v.team, e, f, b), lista |-> l, i |-> 1]
    BY <1>3, <2>1
  <2> HIDE DEF b
  <2>12. QED
    BY <1>4, <2>2, <2>3, <2>5, <2>9, <2>10, <2>11, AsignaPar
<1>7. QED
  BY <1>5, <1>6

LEMMA Empieza ==
  ASSUME NEW n \in Nat, NEW t \in Equipos(n), NEW u, Resuelto(t, u, n)
  PROVE  [team |-> u, lista |-> Bloqueados(u), i |-> 1] \in Busquedas(t, n)
<1> DEFINE l == Bloqueados(u)
           s == [team |-> u, lista |-> l, i |-> 1]
<1>1. u \in Equipos(n)
  BY DEF Resuelto
<1>2. l \in Seq(1..n) /\ \A e \in 1..n : Cantidad(l, e) = Bit(Libre(u.entrenadores[e]))
  BY <1>1, BloqueadosSon
<1> HIDE DEF l
<1>3. t.entrenadores \in [1..n -> Fichas(n)]
  BY Campos
<1>4. ASSUME NEW x \in 1..n
      PROVE  /\ Cantidad(l, x) <= 1
             /\ Cantidad(l, x) > 0 => Libre(u.entrenadores[x])
  BY <1>2 DEF Bit
<1>5. ASSUME NEW x \in 1..n, Libre(u.entrenadores[x])
      PROVE  Quieto(t, u, x) /\ Libre(t.entrenadores[x])
  <2>1. ~Cita(t, u, n, x)
    <3> SUFFICES ASSUME Cita(t, u, n, x) PROVE FALSE
      OBVIOUS
    <3> DEFINE y == u.entrenadores[x]
    <3>1. y = [t.entrenadores[x] EXCEPT !.tarea = y.tarea, !.estado = "READY"]
      BY DEF Cita
    <3>2. t.entrenadores[x] \in Fichas(n)
      BY <1>3
    <3> HIDE DEF y
    <3>3. y.estado = "READY"
      BY <3>1, <3>2 DEF Fichas
    <3>4. QED
      BY <1>5, <3>3 DEF y, Libre
  <2>2. ~Espera(t, u, n, x)
    <3> SUFFICES ASSUME Espera(t, u, n, x) PROVE FALSE
      OBVIOUS
    <3>1. u.entrenadores[x] = [t.entrenadores[x] EXCEPT !.esperando_intercambio = TRUE]
      BY DEF Espera, Cita
    <3>2. t.entrenadores[x] \in Fichas(n)
      BY <1>3
    <3>3. u.entrenadores[x].esperando_intercambio
      BY <3>1, <3>2 DEF Fichas
    <3>4. QED
      BY <1>5, <3>3 DEF Libre
  <2>3. Quieto(t, u, x)
    BY <2>1, <2>2 DEF Resuelto
  <2>4. QED
    BY <1>5, <2>3 DEF Quieto
<1>6. Estado(t, n, s)
  BY <1>4, <1>5 DEF Estado, Libre
<1>7. s \in [team : Equipos(n), lista : Seq(1..n), i : Nat \ {0}]
  BY <1>1, <1>2
<1>8. s \in Busquedas(t, n)
  BY <1>6, <1>7 DEF Busquedas
<1>9. QED
  BY <1>8 DEF l

Ciclos(u, m) == FoldLeft(LAMBDA v, k : IF EnCurso(v) THEN PasoCiclos(v) ELSE v, u, [k \in 1..m |-> k])
Otros(u, m) == FoldLeft(LAMBDA v, k : IF EnCurso(v) THEN PasoCualquiera(v) ELSE v, u, [k \in 1..m |-> k])

LEMMA CiclosSigue ==
  ASSUME NEW n \in Nat, NEW t \in Equipos(n), NEW u \in Busquedas(t, n), NEW m \in Nat
  PROVE  Ciclos(u, m) \in Busquedas(t, n)
<1> DEFINE S == Busquedas(t, n)
           da(v) == IF EnCurso(v) THEN PasoCiclos(v) ELSE v
           p == [v \in S |-> da(v)]
           paso == [k \in 1..m |-> p]
           r == [k \in 1..m |-> k]
<1>1. \A v \in S : da(v) \in S
  BY PasoCiclosSigue
<1> HIDE DEF S, da
<1>2. p \in [S -> S]
  BY <1>1
<1>3. u \in S /\ paso \in Pasos(S, m)
  BY <1>2 DEF Pasos, S
<1>4. PICK f : EsPliegue(f, S, m, u, paso)
  <2> HIDE DEF paso
  <2>1. QED
    BY <1>3, HayPliegue
<1>5. PICK c : /\ Ciclos(u, m) = c[1..m]
               /\ \A x \in SUBSET (1..m) : c[x] = IF x = {} THEN u ELSE da(c[x \ {Max(x)}])
  <2> DEFINE Ec(it) == it = [x \in SUBSET (DOMAIN r) |->
                               IF x = {} THEN u ELSE da(it[x \ {Max(x)}])]
             d == CHOOSE it : Ec(it)
  <2>1. Ciclos(u, m) = d[DOMAIN r]
    BY DEF Ciclos, FoldLeft, MapThenFoldSet, da
  <2>2. DOMAIN r = 1..m
    OBVIOUS
  <2> HIDE DEF r
  <2>3. ASSUME NEW x \in SUBSET (1..m)
        PROVE  f[x] = IF x = {} THEN u ELSE da(f[x \ {Max(x)}])
    <3>1. f[x] = IF x = {} THEN u ELSE paso[Max(x)][f[x \ {Max(x)}]]
      BY <1>4 DEF EsPliegue
    <3>2. CASE x # {}
      <4>1. Max(x) \in 1..m /\ x \ {Max(x)} \in SUBSET (1..m)
        BY <3>2, MaxEsta
      <4>2. f[x \ {Max(x)}] \in S
        BY <1>4, <4>1 DEF EsPliegue
      <4>3. QED
        BY <3>1, <3>2, <4>1, <4>2
    <3>3. QED
      BY <3>1, <3>2
  <2>4. f = [x \in SUBSET (1..m) |-> f[x]]
    BY <1>4 DEF EsPliegue
  <2>5. Ec(f)
    BY <2>2, <2>3, <2>4
  <2>6. Ec(d)
    <3> HIDE DEF Ec
    <3>1. QED
      BY <2>5
  <2> HIDE DEF d
  <2>7. \A x \in SUBSET (1..m) : d[x] = IF x = {} THEN u ELSE da(d[x \ {Max(x)}])
    BY <2>2, <2>6
  <2>8. QED
    BY <2>1, <2>2, <2>7
<1>6. PICK g : EsCadena(g, S, m, u, paso) /\ g[m] = c[1..m]
  <2>1. Itera(c, S, m, u, paso)
    <3>1. c[{}] = u
      BY <1>5
    <3>2. ASSUME NEW x \in SUBSET (1..m), x # {}, c[x \ {Max(x)}] \in S
          PROVE  c[x] = paso[Max(x)][c[x \ {Max(x)}]]
      <4>1. Max(x) \in 1..m
        BY <3>2, MaxEsta
      <4>2. QED
        BY <1>5, <3>2, <4>1
    <3> HIDE DEF paso
    <3>3. QED
      BY <3>1, <3>2 DEF Itera
  <2> HIDE DEF paso
  <2>2. QED
    BY <1>3, <2>1, Plegar
<1>7. g[m] \in S
  BY <1>6 DEF EsCadena
<1>8. QED
  BY <1>5, <1>6, <1>7 DEF S

LEMMA OtrosSigue ==
  ASSUME NEW n \in Nat, NEW t \in Equipos(n), Llenos(t, n), NEW u \in Busquedas(t, n), NEW m \in Nat
  PROVE  Otros(u, m) \in Busquedas(t, n)
<1> DEFINE S == Busquedas(t, n)
           da(v) == IF EnCurso(v) THEN PasoCualquiera(v) ELSE v
           p == [v \in S |-> da(v)]
           paso == [k \in 1..m |-> p]
           r == [k \in 1..m |-> k]
<1>1. \A v \in S : da(v) \in S
  BY PasoCualquieraSigue
<1> HIDE DEF S, da
<1>2. p \in [S -> S]
  BY <1>1
<1>3. u \in S /\ paso \in Pasos(S, m)
  BY <1>2 DEF Pasos, S
<1>4. PICK f : EsPliegue(f, S, m, u, paso)
  <2> HIDE DEF paso
  <2>1. QED
    BY <1>3, HayPliegue
<1>5. PICK c : /\ Otros(u, m) = c[1..m]
               /\ \A x \in SUBSET (1..m) : c[x] = IF x = {} THEN u ELSE da(c[x \ {Max(x)}])
  <2> DEFINE Ec(it) == it = [x \in SUBSET (DOMAIN r) |->
                               IF x = {} THEN u ELSE da(it[x \ {Max(x)}])]
             d == CHOOSE it : Ec(it)
  <2>1. Otros(u, m) = d[DOMAIN r]
    BY DEF Otros, FoldLeft, MapThenFoldSet, da
  <2>2. DOMAIN r = 1..m
    OBVIOUS
  <2> HIDE DEF r
  <2>3. ASSUME NEW x \in SUBSET (1..m)
        PROVE  f[x] = IF x = {} THEN u ELSE da(f[x \ {Max(x)}])
    <3>1. f[x] = IF x = {} THEN u ELSE paso[Max(x)][f[x \ {Max(x)}]]
      BY <1>4 DEF EsPliegue
    <3>2. CASE x # {}
      <4>1. Max(x) \in 1..m /\ x \ {Max(x)} \in SUBSET (1..m)
        BY <3>2, MaxEsta
      <4>2. f[x \ {Max(x)}] \in S
        BY <1>4, <4>1 DEF EsPliegue
      <4>3. QED
        BY <3>1, <3>2, <4>1, <4>2
    <3>3. QED
      BY <3>1, <3>2
  <2>4. f = [x \in SUBSET (1..m) |-> f[x]]
    BY <1>4 DEF EsPliegue
  <2>5. Ec(f)
    BY <2>2, <2>3, <2>4
  <2>6. Ec(d)
    <3> HIDE DEF Ec
    <3>1. QED
      BY <2>5
  <2> HIDE DEF d
  <2>7. \A x \in SUBSET (1..m) : d[x] = IF x = {} THEN u ELSE da(d[x \ {Max(x)}])
    BY <2>2, <2>6
  <2>8. QED
    BY <2>1, <2>2, <2>7
<1>6. PICK g : EsCadena(g, S, m, u, paso) /\ g[m] = c[1..m]
  <2>1. Itera(c, S, m, u, paso)
    <3>1. c[{}] = u
      BY <1>5
    <3>2. ASSUME NEW x \in SUBSET (1..m), x # {}, c[x \ {Max(x)}] \in S
          PROVE  c[x] = paso[Max(x)][c[x \ {Max(x)}]]
      <4>1. Max(x) \in 1..m
        BY <3>2, MaxEsta
      <4>2. QED
        BY <1>5, <3>2, <4>1
    <3> HIDE DEF paso
    <3>3. QED
      BY <3>1, <3>2 DEF Itera
  <2> HIDE DEF paso
  <2>2. QED
    BY <1>3, <2>1, Plegar
<1>7. g[m] \in S
  BY <1>6 DEF EsCadena
<1>8. QED
  BY <1>5, <1>6, <1>7 DEF S

\* resolver_deadlock, when everybody has full hands.
LEMMA ResolverHace ==
  ASSUME NEW n \in Nat, NEW t \in Equipos(n), Llenos(t, n)
  PROVE  Resuelto(t, ResolverDeadlock(t), n)
<1> DEFINE largo == Len(t.entrenadores)
           m == largo * (largo + 1)
           u1 == [team |-> t, lista |-> Bloqueados(t), i |-> 1]
           v1 == Ciclos(u1, m)
           u2 == [team |-> v1.team, lista |-> Bloqueados(v1.team), i |-> 1]
           v2 == Otros(u2, m)
<1>1. ResolverDeadlock(t) = v2.team
  BY Zenon DEF ResolverDeadlock, Ciclos, Otros
<1>2. m \in Nat
  <2>1. t.entrenadores \in [1..n -> Fichas(n)]
    BY Campos
  <2>2. largo = n
    BY <2>1, UnaLista
  <2>3. QED
    BY <2>2
<1> HIDE DEF m
<1>3. Resuelto(t, t, n)
  <2>1. \A e \in 1..n : Quieto(t, t, e)
    BY DEF Quieto
  <2>2. ASSUME NEW e \in 1..n, Cita(t, t, n, e) PROVE FALSE
    <3>1. t.entrenadores[e] \in Fichas(n)
      BY Campos
    <3> DEFINE x == t.entrenadores[e]
    <3>2. x = [x EXCEPT !.tarea = x.tarea, !.estado = "READY"] /\ x.estado = "BLOCK"
      BY <2>2 DEF Cita
    <3>3. x \in Fichas(n)
      BY <3>1
    <3> HIDE DEF x
    <3>4. QED
      BY <3>2, <3>3 DEF Fichas
  <2>3. QED
    BY <2>1, <2>2 DEF Resuelto
<1>4. u1 \in Busquedas(t, n)
  BY <1>3, Empieza
<1> HIDE DEF u1
<1>5. v1 \in Busquedas(t, n)
  BY <1>2, <1>4, CiclosSigue
<1> HIDE DEF v1
<1>6. Resuelto(t, v1.team, n)
  BY <1>5 DEF Busquedas, Estado
<1>7. u2 \in Busquedas(t, n)
  <2> DEFINE u == v1.team
  <2>1. Resuelto(t, u, n)
    BY <1>6
  <2> HIDE DEF u
  <2>2. [team |-> u, lista |-> Bloqueados(u), i |-> 1] \in Busquedas(t, n)
    BY <2>1, Empieza
  <2>3. QED
    BY <2>2 DEF u
<1> HIDE DEF u2
<1>8. v2 \in Busquedas(t, n)
  BY <1>2, <1>7, OtrosSigue
<1> HIDE DEF v2
<1>9. QED
  BY <1>1, <1>8 DEF Busquedas, Estado

\* Of a trainer x.
Lleno(x) == ~PuedeCapturar(x)
Atrapa(x) == x.tarea.tipo_tarea = "ATRAPAR"
Va(x) == x.tarea.tipo_tarea = "INTERCAMBIO"
Otro(x) == x.tarea.entrenador_intercambio

EnMano(k, e) == k.que \in {"desocupar", "reponer"} /\ k.e = e
Sitios(x, d, r, c, k, e) ==
  d + r + Uno(c.e = e) + Uno(c.e # e /\ x.esta_en_entrada_salida) + Uno(EnMano(k, e))

\* Where a trainer is: d times idle, r times ready, with cpu = c, caught = k and the
\* mishaps i.
Puesto(x, d, r, c, k, i, e) ==
  /\ Len(x.capturados) <= Len(x.buscados)
  /\ Atrapa(x) => ~Lleno(x) /\ d = 0 /\ ~EnMano(k, e)
  /\ ~Lleno(x) => /\ Sitios(x, d, r, c, k, e) <= 1
                  /\ ("sin rafagas" \notin i => Sitios(x, d, r, c, k, e) = 1)
  /\ ~Lleno(x) /\ x.tarea = SinTarea => r = 0 /\ c.e # e
  /\ d > 0 \/ EnMano(k, e) => x.tarea = SinTarea /\ ~Lleno(x)
  /\ Lleno(x) /\ "pisado" \notin i =>
       /\ r + Uno(c.e = e) <= Uno(x.tarea # SinTarea)
       /\ "sin rafagas" \notin i => r + Uno(c.e = e) = Uno(x.tarea # SinTarea)
  /\ c.e = e => x.tarea # SinTarea
  /\ c.lugar = "rafaga" /\ c.e = e => ~x.esta_en_entrada_salida
  /\ c.lugar \in {"enviar", "anotar"} /\ c.e = e => x.esta_en_entrada_salida
  /\ x.esta_en_entrada_salida => Atrapa(x) /\ r = 0
  /\ (c.e = e \/ ~x.esta_en_entrada_salida) => x.id_correlativo_esperado = -1
  /\ k.que = "cerrar" /\ k.e = e => Lleno(x)
Puestos(t, n, c, k, i) ==
  \A e \in 1..n :
    Puesto(t.entrenadores[e], Cantidad(t.desocupados, e), Cantidad(t.ready, e), c, k, i, e)

\* The first loop and the second.
Fases(t, n, c, i, res) ==
  /\ c.etapa = 2 => \A e \in 1..n : Lleno(t.entrenadores[e])
  /\ c.etapa = 1 => /\ res = 0 /\ "pisado" \notin i
                    /\ \A e \in 1..n : /\ ~Va(t.entrenadores[e])
                                       /\ ~t.entrenadores[e].esperando_intercambio

Par(x, y) ==
  /\ y.esperando_intercambio /\ y.tarea = SinTarea
  /\ ~x.esperando_intercambio /\ x.estado \in {"READY", "EXEC"}
  /\ Contains(Sobrantes(y), x.tarea.pokemon_a_pedir)
  /\ Contains(Sobrantes(x), x.tarea.pokemon_a_otorgar)
  /\ Contains(Faltantes(x), x.tarea.pokemon_a_pedir)
Pares(t, n, i) ==
  /\ \A e \in 1..n : Va(t.entrenadores[e]) =>
       Otro(t.entrenadores[e]) # e /\ Par(t.entrenadores[e], t.entrenadores[Otro(t.entrenadores[e])])
  /\ \A e, g \in 1..n :
       Va(t.entrenadores[e]) /\ Va(t.entrenadores[g])
         /\ Otro(t.entrenadores[e]) = Otro(t.entrenadores[g]) => e = g
  /\ "pisado" \notin i =>
       \A f \in 1..n : t.entrenadores[f].esperando_intercambio =>
         /\ t.entrenadores[f].estado = "BLOCK"
         /\ \E e \in 1..n : Va(t.entrenadores[e]) /\ Otro(t.entrenadores[e]) = f

Orden(t, n, c, k, i, res) ==
  Fases(t, n, c, i, res) /\ Puestos(t, n, c, k, i) /\ Pares(t, n, i)

Cuentas(t, n, k, ac) ==
  \A s \in Especies :
    /\ EnMapa(t, s) + EnTareas(t, n, s) + EspecieCapturada(t, s) = ac[s]
    /\ Cantidad(t.objetivos, s) + EnTareas(t, n, s) + Uno(k.que = "reponer" /\ k.especie = s)
         >= EspecieBuscada(t, s) - EspecieCapturada(t, s)

------------------------------------------------------------------------------
\* The two are on one exchange still, or both take part in none.
Parecido(x, y, j) ==
  \/ /\ y.tarea = x.tarea /\ y.esperando_intercambio = x.esperando_intercambio
     /\ y.capturados = x.capturados /\ y.buscados = x.buscados
     /\ Va(x) => y.estado \in {"READY", "EXEC"}
     /\ x.esperando_intercambio /\ "pisado" \notin j => y.estado = "BLOCK"
  \/ /\ Va(x) => "pisado" \in j
     /\ ~Va(y) /\ ~x.esperando_intercambio /\ ~y.esperando_intercambio
Parecidos(t, u, n, j) == \A e \in 1..n : Parecido(t.entrenadores[e], u.entrenadores[e], j)

LEMMA UnOtro ==
  ASSUME NEW n \in Nat, NEW t \in Equipos(n), NEW e \in 1..n, Va(t.entrenadores[e])
  PROVE  Otro(t.entrenadores[e]) \in 1..n /\ t.entrenadores[e].tarea \in Intercambios(n)
<1> DEFINE x == t.entrenadores[e].tarea
<1>1. t.entrenadores[e] \in Fichas(n)
  BY Campos
<1>2. x \in Tareas(n)
  BY <1>1 DEF Fichas
<1>3. x.tipo_tarea = "INTERCAMBIO"
  BY DEF Va
<1> HIDE DEF x
<1>4. x \in Intercambios(n)
  BY <1>2, <1>3, UnaTarea
<1>5. QED
  BY <1>4 DEF Intercambios, Otro, x

LEMMA ParesSiguen ==
  ASSUME NEW n \in Nat, NEW t \in Equipos(n), NEW u, NEW i, NEW j,
         Pares(t, n, i), Parecidos(t, u, n, j), "pisado" \in i => "pisado" \in j
  PROVE  Pares(u, n, j)
<1>1. ASSUME NEW e \in 1..n, Va(u.entrenadores[e])
      PROVE  /\ Va(t.entrenadores[e]) /\ Otro(u.entrenadores[e]) = Otro(t.entrenadores[e])
             /\ Otro(u.entrenadores[e]) # e
             /\ Par(u.entrenadores[e], u.entrenadores[Otro(u.entrenadores[e])])
  <2> DEFINE x == t.entrenadores[e]
             y == u.entrenadores[e]
             f == Otro(x)
             v == t.entrenadores[f]
             w == u.entrenadores[f]
  <2>1. Parecido(x, y, j)
    BY DEF Parecidos
  <2>2. /\ Va(x) /\ Otro(y) = f /\ y.tarea = x.tarea /\ y.capturados = x.capturados
        /\ y.buscados = x.buscados /\ y.esperando_intercambio = x.esperando_intercambio
        /\ y.estado \in {"READY", "EXEC"}
    BY <1>1, <2>1 DEF Parecido, Va, Otro
  <2>3. f # e /\ Par(x, v) /\ f \in 1..n
    BY <2>2, UnOtro DEF Pares
  <2>4. Parecido(v, w, j)
    BY <2>3 DEF Parecidos
  <2> HIDE DEF x, y, f, v, w
  <2>5. /\ w.tarea = v.tarea /\ w.esperando_intercambio = v.esperando_intercambio
        /\ w.capturados = v.capturados /\ w.buscados = v.buscados
    BY <2>3, <2>4 DEF Parecido, Par
  <2>6. Par(y, w)
    BY <2>2, <2>3, <2>5 DEF Par, Sobrantes, Faltantes
  <2>7. QED
    BY <2>2, <2>3, <2>6 DEF x, y, f, v, w
<1>2. ASSUME NEW f \in 1..n, u.entrenadores[f].esperando_intercambio, "pisado" \notin j
      PROVE  /\ u.entrenadores[f].estado = "BLOCK"
             /\ \E e \in 1..n : Va(u.entrenadores[e]) /\ Otro(u.entrenadores[e]) = f
  <2>1. Parecido(t.entrenadores[f], u.entrenadores[f], j)
    BY DEF Parecidos
  <2>2. t.entrenadores[f].esperando_intercambio /\ u.entrenadores[f].estado = "BLOCK"
    BY <1>2, <2>1 DEF Parecido
  <2>3. PICK e \in 1..n : Va(t.entrenadores[e]) /\ Otro(t.entrenadores[e]) = f
    BY <1>2, <2>2 DEF Pares
  <2>4. Parecido(t.entrenadores[e], u.entrenadores[e], j)
    BY DEF Parecidos
  <2>5. Va(u.entrenadores[e]) /\ Otro(u.entrenadores[e]) = f
    BY <1>2, <2>3, <2>4 DEF Parecido, Va, Otro
  <2>6. QED
    BY <2>2, <2>5
<1>3. ASSUME NEW e \in 1..n, NEW g \in 1..n,
             Va(u.entrenadores[e]), Va(u.entrenadores[g]),
             Otro(u.entrenadores[e]) = Otro(u.entrenadores[g])
      PROVE  e = g
  <2>1. /\ Va(t.entrenadores[e]) /\ Otro(u.entrenadores[e]) = Otro(t.entrenadores[e])
        /\ Va(t.entrenadores[g]) /\ Otro(u.entrenadores[g]) = Otro(t.entrenadores[g])
    BY <1>1, <1>3
  <2>2. QED
    BY <1>3, <2>1 DEF Pares
<1>4. \A e \in 1..n : Va(u.entrenadores[e]) =>
         Otro(u.entrenadores[e]) # e /\ Par(u.entrenadores[e], u.entrenadores[Otro(u.entrenadores[e])])
  BY <1>1
<1>5. "pisado" \notin j =>
       \A f \in 1..n : u.entrenadores[f].esperando_intercambio =>
         /\ u.entrenadores[f].estado = "BLOCK"
         /\ \E e \in 1..n : Va(u.entrenadores[e]) /\ Otro(u.entrenadores[e]) = f
  BY <1>2
<1>6. \A e, g \in 1..n :
       Va(u.entrenadores[e]) /\ Va(u.entrenadores[g])
         /\ Otro(u.entrenadores[e]) = Otro(u.entrenadores[g]) => e = g
  <2> TAKE e \in 1..n, g \in 1..n
  <2> HAVE Va(u.entrenadores[e]) /\ Va(u.entrenadores[g])
             /\ Otro(u.entrenadores[e]) = Otro(u.entrenadores[g])
  <2>1. QED
    BY <1>3
<1>7. QED
  BY <1>4, <1>5, <1>6, Zenon DEF Pares

LEMMA CantidadTipo ==
  ASSUME NEW T, NEW s \in Seq(T), NEW x
  PROVE  Cantidad(s, x) \in Nat
BY CantidadCuantos

\* An idle trainer gets a pokemon.
LEMMA PuestoSale ==
  ASSUME NEW n, NEW x \in Fichas(n), NEW p \in Pokemones, NEW d \in Nat, NEW r \in Nat,
         NEW c, NEW k, NEW i, NEW e, d > 0, Puesto(x, d, r, c, k, i, e)
  PROVE  Puesto([x EXCEPT !.tarea = Atrapar(p), !.estado = "READY"], d - 1, r + 1, c, k, i, e)
<1> DEFINE y == [x EXCEPT !.tarea = Atrapar(p), !.estado = "READY"]
<1>1. /\ y.capturados = x.capturados /\ y.buscados = x.buscados /\ y.tarea = Atrapar(p)
      /\ y.esta_en_entrada_salida = x.esta_en_entrada_salida
      /\ y.id_correlativo_esperado = x.id_correlativo_esperado
      /\ x.esta_en_entrada_salida \in BOOLEAN
  BY DEF Fichas
<1> HIDE DEF y
<1>0. x.tarea = SinTarea /\ ~Lleno(x)
  BY DEF Puesto
<1>2. x.tarea = SinTarea /\ ~Lleno(x) /\ ~Atrapa(x)
  BY <1>0 DEF Atrapa, SinTarea
<1>3. Lleno(y) = Lleno(x)
  BY <1>1 DEF Lleno, PuedeCapturar
<1>4. Atrapa(y) /\ y.tarea # SinTarea
  BY <1>1 DEF Atrapa, Atrapar, SinTarea
<1>5. ~x.esta_en_entrada_salida /\ r = 0 /\ c.e # e
  BY <1>2 DEF Puesto
<1>6. Sitios(x, d, r, c, k, e) = d + r + Uno(EnMano(k, e))
      /\ Sitios(y, d - 1, r + 1, c, k, e) = d - 1 + r + 1 + Uno(EnMano(k, e))
      /\ Uno(EnMano(k, e)) \in {0, 1}
  BY <1>1, <1>5 DEF Sitios, Uno
<1>7. Sitios(x, d, r, c, k, e) <= 1
      /\ ("sin rafagas" \notin i => Sitios(x, d, r, c, k, e) = 1)
  BY <1>2 DEF Puesto
<1>8. d = 1 /\ Uno(EnMano(k, e)) = 0 /\ ~EnMano(k, e)
  <2> DEFINE m == Uno(EnMano(k, e))
  <2>1. m \in {0, 1} /\ d + r + m <= 1
    BY <1>6, <1>7
  <2>2. m = 0 => ~EnMano(k, e)
    BY DEF Uno
  <2> HIDE DEF m
  <2>3. d = 1 /\ m = 0
    BY <1>5, <2>1
  <2>4. QED
    BY <2>2, <2>3 DEF m
<1>9. Sitios(y, d - 1, r + 1, c, k, e) = 1
  BY <1>5, <1>6, <1>8
<1>12. d - 1 = 0 /\ r + 1 = 1
  BY <1>5, <1>8
<1>13. Puesto(y, 0, 1, c, k, i, e)
  <2>1. Sitios(y, 0, 1, c, k, e) = 1
    BY <1>9, <1>12
  <2>2. ~Lleno(y) /\ ~EnMano(k, e) /\ c.e # e /\ Atrapa(y) /\ ~y.esta_en_entrada_salida
        /\ y.tarea # SinTarea
    BY <1>1, <1>2, <1>3, <1>4, <1>5, <1>8
  <2>3. Len(y.capturados) <= Len(y.buscados) /\ y.id_correlativo_esperado = -1
        /\ (k.que = "cerrar" /\ k.e = e => Lleno(y))
    BY <1>1, <1>3, <1>5 DEF Puesto
  <2>4. Sitios(y, 0, 1, c, k, e) <= 1 /\ ~(0 > 0)
    BY <2>1
  <2>5. QED
    BY <2>1, <2>2, <2>3, <2>4, Zenon DEF Puesto
<1>10. Puesto(y, d - 1, r + 1, c, k, i, e)
  BY <1>12, <1>13
<1>11. QED
  BY <1>10 DEF y

LEMMA SonOciosos ==
  ASSUME NEW n \in Nat, NEW t \in Equipos(n), NEW c, NEW k, NEW i, Puestos(t, n, c, k, i)
  PROVE  Ociosos(t, n)
<1> SUFFICES ASSUME NEW e \in 1..n, Cantidad(t.desocupados, e) > 0
             PROVE  Cantidad(t.desocupados, e) = 1 /\ t.entrenadores[e].tarea = SinTarea
  BY DEF Ociosos
<1> DEFINE x == t.entrenadores[e]
           d == Cantidad(t.desocupados, e)
           r == Cantidad(t.ready, e)
<1>1. Puesto(x, d, r, c, k, i, e)
  BY DEF Puestos
<1>2. d \in Nat /\ r \in Nat
  BY Campos, CantidadTipo
<1>3. d > 0
  OBVIOUS
<1> HIDE DEF x, d, r
<1>4. x.tarea = SinTarea /\ ~Lleno(x) /\ Sitios(x, d, r, c, k, e) <= 1
  BY <1>1, <1>3 DEF Puesto
<1>5. d = 1
  BY <1>2, <1>3, <1>4 DEF Sitios, Uno
<1>6. QED
  BY <1>4, <1>5 DEF x, d

LEMMA PlanificarOrden ==
  ASSUME NEW n \in Nat, NEW t \in Equipos(n), NEW c, c.etapa \in {1, 2}, NEW k, NEW i, NEW res,
         Orden(t, n, c, k, i, res)
  PROVE  Orden(Planificar(t), n, c, k, i, res) /\ Planificado(t, Planificar(t), n)
<1> DEFINE u == Planificar(t)
<1>1. Puestos(t, n, c, k, i) /\ Fases(t, n, c, i, res) /\ Pares(t, n, i)
  BY DEF Orden
<1>2. Planificado(t, u, n)
  BY <1>1, SonOciosos, PlanificarHace
<1> HIDE DEF u
<1>3. \A e \in 1..n : t.entrenadores[e] \in Fichas(n)
  BY Campos
<1>4. \A e \in 1..n : Cantidad(t.desocupados, e) \in Nat /\ Cantidad(t.ready, e) \in Nat
  BY Campos, CantidadTipo
<1>5. ASSUME NEW e \in 1..n
      PROVE  /\ Puesto(u.entrenadores[e], Cantidad(u.desocupados, e), Cantidad(u.ready, e), c, k, i, e)
             /\ Lleno(u.entrenadores[e]) = Lleno(t.entrenadores[e])
             /\ Parecido(t.entrenadores[e], u.entrenadores[e], i)
             /\ c.etapa = 1 => ~Va(u.entrenadores[e]) /\ ~u.entrenadores[e].esperando_intercambio
  <2> DEFINE x == t.entrenadores[e]
             y == u.entrenadores[e]
             d == Cantidad(t.desocupados, e)
             r == Cantidad(t.ready, e)
  <2>1. Puesto(x, d, r, c, k, i, e) /\ x \in Fichas(n)
    BY <1>1, <1>3 DEF Puestos
  <2>2. Igual(t, u, e) \/ Sale(t, u, e)
    BY <1>2 DEF Planificado
  <2>3. c.etapa = 1 => ~Va(x) /\ ~x.esperando_intercambio
    BY <1>1 DEF Fases
  <2>4. CASE Igual(t, u, e)
    <3>1. y = x /\ Cantidad(u.desocupados, e) = d /\ Cantidad(u.ready, e) = r
      BY <2>4 DEF Igual
    <3>2. Parecido(x, x, i)
      <4>1. Va(x) => x.estado \in {"READY", "EXEC"}
        BY <1>1 DEF Pares, Par
      <4>2. x.esperando_intercambio /\ "pisado" \notin i => x.estado = "BLOCK"
        BY <1>1 DEF Pares
      <4>3. QED
        BY <4>1, <4>2 DEF Parecido
    <3> HIDE DEF x, y, d, r
    <3>3. QED
      BY <2>1, <2>3, <3>1, <3>2 DEF x, y, d, r
  <2>5. CASE Sale(t, u, e)
    <3>1. d > 0 /\ Cantidad(u.desocupados, e) = d - 1 /\ Cantidad(u.ready, e) = r + 1
      BY <2>5 DEF Sale
    <3>2. PICK p \in Pokemones : y = [x EXCEPT !.tarea = Atrapar(p), !.estado = "READY"]
      BY <2>5 DEF Sale
    <3>3. d \in Nat /\ r \in Nat
      BY <1>4
    <3>4. ~Lleno(x)
      BY <2>1, <3>1 DEF Puesto
    <3>5. c.etapa = 1
      BY <1>1, <3>4 DEF Fases
    <3> HIDE DEF x, y, d, r
    <3>6. Puesto(y, d - 1, r + 1, c, k, i, e)
      <4> DEFINE z == [x EXCEPT !.tarea = Atrapar(p), !.estado = "READY"]
      <4>1. Puesto(z, d - 1, r + 1, c, k, i, e)
        BY <2>1, <3>1, <3>3, PuestoSale
      <4>2. QED
        BY <3>2, <4>1
    <3>7. y.esperando_intercambio = x.esperando_intercambio /\ y.tarea = Atrapar(p)
          /\ y.capturados = x.capturados /\ y.buscados = x.buscados
      BY <2>1, <3>2 DEF Fichas
    <3>8. ~Va(y) /\ ~y.esperando_intercambio
      BY <2>3, <3>5, <3>7 DEF Va, Atrapar
    <3>9. Lleno(y) = Lleno(x)
      BY <3>7 DEF Lleno, PuedeCapturar
    <3>10. Parecido(x, y, i)
      BY <2>3, <3>5, <3>8 DEF Parecido
    <3>11. QED
      BY <3>1, <3>6, <3>8, <3>9, <3>10 DEF x, y, d, r
  <2>6. QED
    BY <2>2, <2>4, <2>5
<1>6. Puestos(u, n, c, k, i)
  BY <1>5 DEF Puestos
<1>7. Fases(u, n, c, i, res)
  BY <1>1, <1>5 DEF Fases
<1>8. Pares(u, n, i)
  <2>1. Parecidos(t, u, n, i)
    BY <1>5 DEF Parecidos
  <2>2. QED
    BY <1>1, <2>1, ParesSiguen
<1>9. QED
  BY <1>2, <1>6, <1>7, <1>8 DEF Orden, u

LEMMA CuentasTipo ==
  ASSUME NEW n \in Nat, NEW t \in Equipos(n), NEW s
  PROVE  /\ EnMapa(t, s) \in Nat /\ EnTareas(t, n, s) \in Nat /\ Cantidad(t.objetivos, s) \in Nat
         /\ EspecieCapturada(t, s) \in Nat /\ EspecieBuscada(t, s) \in Nat
<1>1. t.mapa \in Seq(Pokemones) /\ t.objetivos \in Seq(Especies)
  BY Campos
<1>2. EnMapa(t, s) \in Nat
  BY <1>1, CuantosTipo DEF EnMapa
<1>3. QED
  BY <1>1, <1>2, EnTareasTipo, CantidadTipo, CuentasIguales

\* What every step of a trainer leaves as it was.
Permanece(t, u, n) == MismosBolsillos(t, u, n) /\ MismosPedidos(t, u, n)

LEMMA PlanificarCuentas ==
  ASSUME NEW n \in Nat, NEW t \in Equipos(n), NEW u, Planificado(t, u, n), NEW k, NEW ac,
         Cuentas(t, n, k, ac)
  PROVE  Cuentas(u, n, k, ac)
<1>1. u \in Equipos(n)
  BY DEF Planificado
<1>2. Permanece(t, u, n)
  <2> SUFFICES ASSUME NEW e \in 1..n
               PROVE  /\ u.entrenadores[e].capturados = t.entrenadores[e].capturados
                      /\ u.entrenadores[e].buscados = t.entrenadores[e].buscados
    BY DEF Permanece, MismosBolsillos, MismosPedidos
  <2>1. t.entrenadores[e] \in Fichas(n)
    BY Campos
  <2>2. CASE Igual(t, u, e)
    BY <2>2 DEF Igual
  <2>3. CASE Sale(t, u, e)
    <3> DEFINE x == t.entrenadores[e]
               y == u.entrenadores[e]
    <3>1. PICK p \in Pokemones : y = [x EXCEPT !.tarea = Atrapar(p), !.estado = "READY"]
      BY <2>3 DEF Sale
    <3>2. x \in Fichas(n)
      BY <2>1
    <3> HIDE DEF x, y
    <3>3. y.capturados = x.capturados /\ y.buscados = x.buscados
      BY <3>1, <3>2 DEF Fichas
    <3>4. QED
      BY <3>3 DEF x, y
  <2>4. QED
    BY <2>2, <2>3 DEF Planificado
<1>3. SUFFICES ASSUME NEW s \in Especies
               PROVE  /\ EnMapa(u, s) + EnTareas(u, n, s) + EspecieCapturada(u, s) = ac[s]
                      /\ Cantidad(u.objetivos, s) + EnTareas(u, n, s)
                           + Uno(k.que = "reponer" /\ k.especie = s)
                           >= EspecieBuscada(u, s) - EspecieCapturada(u, s)
  BY DEF Cuentas
<1> DEFINE m1 == EnMapa(t, s)
           t1 == EnTareas(t, n, s)
           o1 == Cantidad(t.objetivos, s)
           c1 == EspecieCapturada(t, s)
           b1 == EspecieBuscada(t, s)
           m2 == EnMapa(u, s)
           t2 == EnTareas(u, n, s)
           o2 == Cantidad(u.objetivos, s)
           h == Uno(k.que = "reponer" /\ k.especie = s)
<1>4. m1 \in Nat /\ t1 \in Nat /\ o1 \in Nat /\ c1 \in Nat /\ b1 \in Nat
      /\ m2 \in Nat /\ t2 \in Nat /\ o2 \in Nat /\ h \in {0, 1}
  BY <1>1, CuentasTipo DEF Uno
<1>5. EspecieCapturada(u, s) = c1 /\ EspecieBuscada(u, s) = b1
  BY <1>1, <1>2, CuentasIguales DEF Permanece
<1>6. m1 + t1 + c1 = ac[s] /\ o1 + t1 + h >= b1 - c1
  BY DEF Cuentas
<1>7. m2 + t2 = m1 + t1 /\ o2 + t2 >= o1 + t1
  BY DEF Planificado
<1> HIDE DEF m1, t1, o1, c1, b1, m2, t2, o2, h
<1>8. m2 + t2 + c1 = ac[s] /\ o2 + t2 + h >= b1 - c1
  BY <1>4, <1>6, <1>7
<1>9. QED
  BY <1>5, <1>8 DEF m2, t2, o2, h

\* The trainer is where it was.
Quieta(x, y) ==
  /\ y.tarea = x.tarea /\ y.esta_en_entrada_salida = x.esta_en_entrada_salida
  /\ y.id_correlativo_esperado = x.id_correlativo_esperado
  /\ y.capturados = x.capturados /\ y.buscados = x.buscados
Manos(c, k, c2, k2, e) ==
  /\ c2.e = e <=> c.e = e
  /\ c.e = e => /\ c2.lugar = "rafaga" => c.lugar = "rafaga"
                /\ c2.lugar \in {"enviar", "anotar"} => c.lugar \in {"enviar", "anotar"}
  /\ EnMano(k2, e) <=> EnMano(k, e)
  /\ k2.que = "cerrar" /\ k2.e = e <=> k.que = "cerrar" /\ k.e = e
\* As many pokemons, if not the same.
Igualada(x, y) ==
  /\ y.tarea = x.tarea /\ y.esta_en_entrada_salida = x.esta_en_entrada_salida
  /\ y.id_correlativo_esperado = x.id_correlativo_esperado
  /\ Len(y.capturados) = Len(x.capturados) /\ y.buscados = x.buscados
LEMMA PuestoIgual ==
  ASSUME NEW x, NEW y, NEW d, NEW r, NEW c, NEW k, NEW i, NEW c2, NEW k2, NEW j, NEW e,
         Puesto(x, d, r, c, k, i, e), Igualada(x, y), Manos(c, k, c2, k2, e), i \subseteq j
  PROVE  Puesto(y, d, r, c2, k2, j, e)
<1>1. Lleno(y) = Lleno(x) /\ Atrapa(y) = Atrapa(x)
  BY DEF Igualada, Lleno, PuedeCapturar, Atrapa
<1>2. Sitios(y, d, r, c2, k2, e) = Sitios(x, d, r, c, k, e)
  <2>1. /\ Uno(c2.e = e) = Uno(c.e = e)
        /\ Uno(c2.e # e /\ y.esta_en_entrada_salida) = Uno(c.e # e /\ x.esta_en_entrada_salida)
        /\ Uno(EnMano(k2, e)) = Uno(EnMano(k, e))
    BY DEF Igualada, Manos, Uno
  <2>2. QED
    BY <2>1 DEF Sitios
<1>3. Uno(c2.e = e) = Uno(c.e = e) /\ Uno(y.tarea # SinTarea) = Uno(x.tarea # SinTarea)
  BY DEF Igualada, Manos, Uno
<1>4. /\ c2.e = e => c.e = e
      /\ c2.lugar = "rafaga" /\ c2.e = e => c.lugar = "rafaga" /\ c.e = e
      /\ c2.lugar \in {"enviar", "anotar"} /\ c2.e = e => c.lugar \in {"enviar", "anotar"} /\ c.e = e
  BY DEF Manos
<1>5. /\ c2.e = e <=> c.e = e
      /\ EnMano(k2, e) <=> EnMano(k, e)
      /\ k2.que = "cerrar" /\ k2.e = e <=> k.que = "cerrar" /\ k.e = e
  BY DEF Manos
<1>6. /\ "pisado" \in i => "pisado" \in j
      /\ "sin rafagas" \in i => "sin rafagas" \in j
  OBVIOUS
<1>7. QED
  BY <1>1, <1>2, <1>3, <1>4, <1>5, <1>6, Zenon DEF Puesto, Igualada

LEMMA PuestoSigue ==
  ASSUME NEW x, NEW y, NEW d, NEW r, NEW c, NEW k, NEW i, NEW c2, NEW k2, NEW j, NEW e,
         Puesto(x, d, r, c, k, i, e), Quieta(x, y), Manos(c, k, c2, k2, e), i \subseteq j
  PROVE  Puesto(y, d, r, c2, k2, j, e)
<1>1. Igualada(x, y)
  BY DEF Quieta, Igualada
<1>2. QED
  BY <1>1, PuestoIgual

\* Only one trainer does something.
Resto(t, u, n, e) ==
  \A x \in 1..n : x # e =>
    /\ u.entrenadores[x] = t.entrenadores[x]
    /\ Cantidad(u.desocupados, x) = Cantidad(t.desocupados, x)
    /\ Cantidad(u.ready, x) = Cantidad(t.ready, x)
OtrasManos(c, k, c2, k2, n, e) == \A x \in 1..n : x # e => Manos(c, k, c2, k2, x)
Avanza(x, y) ==
  /\ Lleno(x) => Lleno(y)
  /\ ~Va(x) => ~Va(y)
  /\ ~x.esperando_intercambio => ~y.esperando_intercambio

LEMMA OrdenCambia ==
  ASSUME NEW n \in Nat, NEW t \in Equipos(n), NEW u, NEW e \in 1..n,
         NEW c, NEW k, NEW i, NEW res, NEW c2, NEW k2, NEW j, NEW res2,
         Orden(t, n, c, k, i, res),
         Resto(t, u, n, e), OtrasManos(c, k, c2, k2, n, e), i \subseteq j,
         c.etapa = 1 /\ "pisado" \in j => "pisado" \in i, c2.etapa = c.etapa, c.etapa = 1 /\ res = 0 => res2 = 0,
         Avanza(t.entrenadores[e], u.entrenadores[e]),
         Parecido(t.entrenadores[e], u.entrenadores[e], j),
         Puesto(u.entrenadores[e], Cantidad(u.desocupados, e), Cantidad(u.ready, e), c2, k2, j, e)
  PROVE  Orden(u, n, c2, k2, j, res2)
<1>1. Puestos(t, n, c, k, i) /\ Fases(t, n, c, i, res) /\ Pares(t, n, i)
  BY DEF Orden
<1>2. Puestos(u, n, c2, k2, j)
  <2> SUFFICES ASSUME NEW x \in 1..n, x # e
               PROVE  Puesto(u.entrenadores[x], Cantidad(u.desocupados, x), Cantidad(u.ready, x),
                             c2, k2, j, x)
    BY DEF Puestos
  <2> DEFINE a == t.entrenadores[x]
             d == Cantidad(t.desocupados, x)
             r == Cantidad(t.ready, x)
  <2>1. Puesto(a, d, r, c, k, i, x)
    BY <1>1 DEF Puestos
  <2>2. u.entrenadores[x] = a /\ Cantidad(u.desocupados, x) = d /\ Cantidad(u.ready, x) = r
    BY DEF Resto
  <2>3. Quieta(a, a) /\ Manos(c, k, c2, k2, x)
    BY DEF Quieta, OtrasManos
  <2> HIDE DEF a, d, r
  <2>4. Puesto(a, d, r, c2, k2, j, x)
    BY <2>1, <2>3, PuestoSigue
  <2>5. QED
    BY <2>2, <2>4
<1>3. Fases(u, n, c2, j, res2)
  <2>1. ASSUME c.etapa = 2, NEW x \in 1..n PROVE Lleno(u.entrenadores[x])
    BY <1>1, <2>1 DEF Fases, Resto, Avanza
  <2>2. ASSUME c.etapa = 1, NEW x \in 1..n
        PROVE  ~Va(u.entrenadores[x]) /\ ~u.entrenadores[x].esperando_intercambio
    BY <1>1, <2>2 DEF Fases, Resto, Avanza
  <2>3. QED
    BY <1>1, <2>1, <2>2 DEF Fases
<1>4. Pares(u, n, j)
  <2>1. ASSUME NEW x \in 1..n, x # e
        PROVE  Parecido(t.entrenadores[x], u.entrenadores[x], j)
    <3> DEFINE a == t.entrenadores[x]
    <3>1. u.entrenadores[x] = a
      BY <2>1 DEF Resto
    <3>2. Va(a) => a.estado \in {"READY", "EXEC"}
      BY <1>1 DEF Pares, Par
    <3>3. a.esperando_intercambio /\ "pisado" \notin j => a.estado = "BLOCK"
      BY <1>1 DEF Pares
    <3> HIDE DEF a
    <3>4. QED
      BY <3>1, <3>2, <3>3 DEF Parecido, a
  <2>2. Parecidos(t, u, n, j)
    BY <2>1 DEF Parecidos
  <2>3. "pisado" \in i => "pisado" \in j
    OBVIOUS
  <2>4. QED
    BY <1>1, <2>2, <2>3, ParesSiguen
<1>5. QED
  BY <1>2, <1>3, <1>4 DEF Orden

\* Only one trainer's record is written.
Pon(t, e, y) == [t EXCEPT !.entrenadores = [t.entrenadores EXCEPT ![e] = y]]
Ponen(t, u, n, e, y) ==
  /\ u \in Equipos(n) /\ u.entrenadores[e] = y
  /\ \A x \in 1..n : x # e => u.entrenadores[x] = t.entrenadores[x]
  /\ u.ready = t.ready /\ u.desocupados = t.desocupados /\ u.objetivos = t.objetivos
  /\ u.mapa = t.mapa /\ u.planificador = t.planificador /\ u.semaforo_ready = t.semaforo_ready
LEMMA PonHace ==
  ASSUME NEW n \in Nat, NEW t \in Equipos(n), NEW e \in 1..n, NEW y \in Fichas(n)
  PROVE  Ponen(t, Pon(t, e, y), n, e, y)
<1> DEFINE f == [t.entrenadores EXCEPT ![e] = y]
<1>1. t.entrenadores \in [1..n -> Fichas(n)]
  BY Campos
<1>2. f \in [1..n -> Fichas(n)]
  BY <1>1
<1>3. f[e] = y /\ \A x \in 1..n : x # e => f[x] = t.entrenadores[x]
  BY <1>1
<1> DEFINE u == [t EXCEPT !.entrenadores = f]
<1>4. Pon(t, e, y) = u
  BY DEF Pon
<1> HIDE DEF f
<1>5. /\ u \in Equipos(n) /\ u.entrenadores = f
      /\ u.ready = t.ready /\ u.desocupados = t.desocupados /\ u.objetivos = t.objetivos
      /\ u.mapa = t.mapa /\ u.planificador = t.planificador /\ u.semaforo_ready = t.semaforo_ready
  BY <1>2 DEF Equipos
<1> HIDE DEF u
<1>6. QED
  BY <1>3, <1>4, <1>5 DEF Ponen

LEMMA MoverTipo ==
  ASSUME NEW a \in Posiciones, NEW b \in Posiciones
  PROVE  MoverUnaPosicion(a, b) \in Posiciones
<1>1. a[1] \in Int /\ a[2] \in Int /\ b[1] \in Int /\ b[2] \in Int
  BY DEF Posiciones
<1>2. a[1] # b[1] => MoverUnaPosicion(a, b) =
        <<a[1] + (IF a[1] < b[1] THEN 1 ELSE IF a[1] > b[1] THEN -1 ELSE 0), a[2]>>
  BY DEF MoverUnaPosicion
<1>3. a[1] = b[1] => MoverUnaPosicion(a, b) =
        <<a[1], a[2] + (IF a[2] < b[2] THEN 1 ELSE IF a[2] > b[2] THEN -1 ELSE 0)>>
  BY DEF MoverUnaPosicion
<1>4. QED
  BY <1>1, <1>2, <1>3 DEF Posiciones

\* A cycle of a trainer that has a task.
ConTarea(t, n, e) ==
  /\ t.entrenadores[e].tarea # SinTarea
  /\ Va(t.entrenadores[e]) => Otro(t.entrenadores[e]) # e
Anduvo(x, y) == Quieta(x, y) /\ y.esperando_intercambio = x.esperando_intercambio /\ y.estado = "READY"
LEMMA CicloHace ==
  ASSUME NEW n \in Nat, NEW t \in Equipos(n), NEW e \in 1..n, ConTarea(t, n, e),
         LET r == RafagasNecesarias(CicloCpu(t, e), e) IN r > 0 \/ r = 0
  PROVE  \E y \in Fichas(n) : CicloCpu(t, e) = Pon(t, e, y) /\ Anduvo(t.entrenadores[e], y)
<1> DEFINE x == t.entrenadores[e]
           D == Destino(t, e)
           llego == x.posicion = D /\ x.tarea.tipo_tarea = "INTERCAMBIO"
           r == x.rafagas_intercambio + 1
           m == MoverUnaPosicion(x.posicion, D)
           y1 == [x EXCEPT !.rafagas_intercambio = r, !.estado = "READY"]
           y2 == [x EXCEPT !.posicion = m, !.estado = "READY"]
           y == IF llego THEN y1 ELSE y2
<1>1. x \in Fichas(n) /\ x.tarea \in Tareas(n) /\ x.posicion \in Posiciones
      /\ x.rafagas_intercambio \in 0..RafagasIntercambio
  <2>1. x \in Fichas(n)
    BY Campos
  <2> HIDE DEF x
  <2>2. QED
    BY <2>1 DEF Fichas
<1>2. D \in Posiciones
  <2>1. CASE Va(x)
    <3>1. Otro(x) \in 1..n
      BY <2>1, UnOtro
    <3>2. t.entrenadores[Otro(x)] \in Fichas(n)
      BY <3>1, Campos
    <3>3. D = t.entrenadores[Otro(x)].posicion
      BY <2>1 DEF Destino, Va, Otro
    <3>4. QED
      BY <3>2, <3>3 DEF Fichas
  <2>2. CASE ~Va(x)
    <3>1. x.tarea.tipo_tarea = "ATRAPAR" /\ x.tarea.pokemon \in Pokemones
      BY <1>1, <2>2, UnaTarea DEF ConTarea, Va, Intercambios
    <3>2. D = x.tarea.pokemon.posicion
      BY <3>1 DEF Destino
    <3>3. QED
      BY <3>1, <3>2 DEF Pokemones
  <2>3. QED
    BY <2>1, <2>2
<1>3. CicloCpu(t, e) = Pon(t, e, y)
  <2>1. CASE llego
    <3>1. CicloCpu(t, e) = [t EXCEPT !.entrenadores[e] =
             [[x EXCEPT !.rafagas_intercambio = r] EXCEPT !.estado = "READY"]]
      BY <2>1 DEF CicloCpu
    <3>2. QED
      BY <2>1, <3>1 DEF Pon
  <2>2. CASE ~llego
    <3>1. CicloCpu(t, e) = [t EXCEPT !.entrenadores[e] =
             [[x EXCEPT !.posicion = m] EXCEPT !.estado = "READY"]]
      BY <2>2 DEF CicloCpu
    <3>2. QED
      BY <2>2, <3>1 DEF Pon
  <2>3. QED
    BY <2>1, <2>2
<1>4. m \in Posiciones
  BY <1>1, <1>2, MoverTipo
<1> HIDE DEF m
<1>5. y2 \in Fichas(n) /\ Anduvo(x, y2)
  <2> HIDE DEF x
  <2>1. QED
    BY <1>1, <1>4 DEF Fichas, Anduvo, Quieta
<1>6. ASSUME llego
      PROVE  r \in 0..RafagasIntercambio
  <2> DEFINE u == Pon(t, e, y1)
             f == Otro(x)
  <2>1. f \in 1..n /\ f # e
    BY <1>6, UnOtro DEF ConTarea, Va
  <2>2. u = [t EXCEPT !.entrenadores = [t.entrenadores EXCEPT ![e] = y1]]
    BY DEF Pon
  <2> HIDE DEF x, r, y1
  <2>3. u.entrenadores[e] = y1 /\ u.entrenadores[f] = t.entrenadores[f]
    <3> DEFINE g == [t.entrenadores EXCEPT ![e] = y1]
    <3>1. DOMAIN t.entrenadores = 1..n
      BY Campos
    <3>2. g[e] = y1 /\ g[f] = t.entrenadores[f]
      BY <2>1, <3>1
    <3> HIDE DEF g
    <3>3. u = [t EXCEPT !.entrenadores = g]
      BY <2>2 DEF g
    <3>4. u.entrenadores = g
      BY <3>3 DEF Equipos
    <3>5. QED
      BY <3>2, <3>4
  <2> HIDE DEF u
  <2>4. y1.tarea = x.tarea /\ y1.posicion = x.posicion /\ y1.rafagas_intercambio = r
    BY <1>1 DEF Fichas, y1
  <2>5. x.tarea.tipo_tarea = "INTERCAMBIO" /\ x.posicion = D
    BY <1>6
  <2>6. D = t.entrenadores[f].posicion
    BY <2>5 DEF Destino, Otro, x
  <2>7. Destino(u, e) = D
    BY <2>3, <2>4, <2>5, <2>6 DEF Destino, Otro
  <2>8. RafagasNecesarias(u, e) = Distancia(y1.posicion, Destino(u, e)) + RafagasIntercambio - y1.rafagas_intercambio
    BY <2>3, <2>4, <2>5 DEF RafagasNecesarias
  <2>9. Distancia(y1.posicion, Destino(u, e)) = 0
    BY <1>2, <2>4, <2>5, <2>7, DistanciaTipo
  <2>10. RafagasNecesarias(u, e) > 0 \/ RafagasNecesarias(u, e) = 0
    BY <1>3, <1>6 DEF u
  <2>11. r \in Int /\ r >= 0
    BY <1>1 DEF r, RafagasIntercambio
  <2>12. QED
    BY <2>4, <2>8, <2>9, <2>10, <2>11 DEF RafagasIntercambio
<1>7. ASSUME llego
      PROVE  y1 \in Fichas(n) /\ Anduvo(x, y1)
  <2>1. r \in 0..RafagasIntercambio
    BY <1>6, <1>7
  <2> HIDE DEF x, r
  <2>2. QED
    BY <1>1, <2>1 DEF Fichas, Anduvo, Quieta
<1>8. y \in Fichas(n) /\ Anduvo(x, y)
  <2> HIDE DEF y1, y2
  <2>1. QED
    BY <1>5, <1>7
<1> HIDE DEF y
<1>9. QED
  BY <1>3, <1>8

\* Nothing that counts changes.
MismasCapturas(t, u, n) ==
  \A e \in 1..n : /\ Atrapa(u.entrenadores[e]) <=> Atrapa(t.entrenadores[e])
                  /\ Atrapa(t.entrenadores[e]) => u.entrenadores[e].tarea = t.entrenadores[e].tarea
MismoReponer(k, k2) ==
  /\ k2.que = "reponer" <=> k.que = "reponer"
  /\ k.que = "reponer" => k2.especie = k.especie
LEMMA CuentasIgualan ==
  ASSUME NEW n \in Nat, NEW t, NEW u, NEW k, NEW k2, NEW ac,
         Cuentas(t, n, k, ac), u.mapa = t.mapa, u.objetivos = t.objetivos,
         \A s : EspecieCapturada(u, s) = EspecieCapturada(t, s),
         \A s : EspecieBuscada(u, s) = EspecieBuscada(t, s),
         MismasCapturas(t, u, n), MismoReponer(k, k2)
  PROVE  Cuentas(u, n, k2, ac)
<1> SUFFICES ASSUME NEW s \in Especies
             PROVE  /\ EnMapa(u, s) + EnTareas(u, n, s) + EspecieCapturada(u, s) = ac[s]
                    /\ Cantidad(u.objetivos, s) + EnTareas(u, n, s)
                         + Uno(k2.que = "reponer" /\ k2.especie = s)
                         >= EspecieBuscada(u, s) - EspecieCapturada(u, s)
  BY DEF Cuentas
<1>1. {e \in 1..n : VaPor(u, e, s)} = {e \in 1..n : VaPor(t, e, s)}
  BY DEF VaPor, MismasCapturas, Atrapa
<1>2. EnTareas(u, n, s) = EnTareas(t, n, s)
  BY <1>1 DEF EnTareas
<1>3. EnMapa(u, s) = EnMapa(t, s)
  BY DEF EnMapa
<1>4. Uno(k2.que = "reponer" /\ k2.especie = s) = Uno(k.que = "reponer" /\ k.especie = s)
  BY DEF Uno, MismoReponer
<1>5. QED
  BY <1>2, <1>3, <1>4 DEF Cuentas

\* One trainer's record changes, not its pockets nor its capture.
MismaCaptura(x, y) == /\ Atrapa(y) <=> Atrapa(x)
                      /\ Atrapa(x) => y.tarea = x.tarea
                      /\ y.capturados = x.capturados /\ y.buscados = x.buscados
LEMMA CuentasPonen ==
  ASSUME NEW n \in Nat, NEW t \in Equipos(n), NEW u, NEW e \in 1..n, NEW y,
         Ponen(t, u, n, e, y), MismaCaptura(t.entrenadores[e], y),
         NEW k, NEW k2, MismoReponer(k, k2), NEW ac, Cuentas(t, n, k, ac)
  PROVE  Cuentas(u, n, k2, ac)
<1>1. u \in Equipos(n) /\ u.mapa = t.mapa /\ u.objetivos = t.objetivos
  BY DEF Ponen
<1>2. MismosBolsillos(t, u, n) /\ MismosPedidos(t, u, n) /\ MismasCapturas(t, u, n)
  BY DEF Ponen, MismaCaptura, MismosBolsillos, MismosPedidos, MismasCapturas
<1>3. \A s : EspecieCapturada(u, s) = EspecieCapturada(t, s)
  BY <1>1, <1>2, CuentasIguales
<1>4. \A s : EspecieBuscada(u, s) = EspecieBuscada(t, s)
  BY <1>1, <1>2, CuentasIguales
<1>5. QED
  BY <1>1, <1>2, <1>3, <1>4, CuentasIgualan

\* The ids that the trainers wait for.
MismaEspera(t, u, n) ==
  \A e \in 1..n :
    /\ u.entrenadores[e].esta_en_entrada_salida = t.entrenadores[e].esta_en_entrada_salida
    /\ u.entrenadores[e].id_correlativo_esperado = t.entrenadores[e].id_correlativo_esperado

Todo(t, n, c, k, i, res, ac) ==
  t \in Equipos(n) /\ Orden(t, n, c, k, i, res) /\ Cuentas(t, n, k, ac)

LEMMA PlanificarTodo ==
  ASSUME NEW n \in Nat, NEW t, NEW c, c.etapa \in {1, 2}, NEW k, NEW i, NEW res, NEW ac,
         Todo(t, n, c, k, i, res, ac)
  PROVE  Todo(Planificar(t), n, c, k, i, res, ac) /\ MismaEspera(t, Planificar(t), n)
<1> DEFINE u == Planificar(t)
<1>1. t \in Equipos(n) /\ Orden(t, n, c, k, i, res) /\ Cuentas(t, n, k, ac)
  BY DEF Todo
<1>2. Orden(u, n, c, k, i, res) /\ Planificado(t, u, n)
  BY <1>1, PlanificarOrden
<1> HIDE DEF u
<1>3. u \in Equipos(n) /\ Cuentas(u, n, k, ac)
  BY <1>1, <1>2, PlanificarCuentas DEF Planificado
<1>4. MismaEspera(t, u, n)
  <2> SUFFICES ASSUME NEW e \in 1..n
               PROVE  /\ u.entrenadores[e].esta_en_entrada_salida = t.entrenadores[e].esta_en_entrada_salida
                      /\ u.entrenadores[e].id_correlativo_esperado = t.entrenadores[e].id_correlativo_esperado
    BY DEF MismaEspera
  <2> DEFINE x == t.entrenadores[e]
             y == u.entrenadores[e]
  <2>1. x \in Fichas(n)
    BY <1>1, Campos
  <2>2. Igual(t, u, e) \/ Sale(t, u, e)
    BY <1>2 DEF Planificado
  <2>3. CASE Igual(t, u, e)
    BY <2>3 DEF Igual
  <2>4. CASE Sale(t, u, e)
    <3>1. PICK p \in Pokemones : y = [x EXCEPT !.tarea = Atrapar(p), !.estado = "READY"]
      BY <2>4 DEF Sale
    <3> HIDE DEF x, y
    <3>2. /\ y.esta_en_entrada_salida = x.esta_en_entrada_salida
          /\ y.id_correlativo_esperado = x.id_correlativo_esperado
      BY <2>1, <3>1 DEF Fichas
    <3>3. QED
      BY <3>2 DEF x, y
  <2>5. QED
    BY <2>2, <2>3, <2>4
<1>5. QED
  BY <1>2, <1>3, <1>4 DEF Todo, u

\* The estimate of the one that ran.
LEMMA EstimarHace ==
  ASSUME NEW n \in Nat, NEW t \in Equipos(n), NEW e \in 1..n, NEW real \in Int
  PROVE  \E y \in Fichas(n) :
           /\ ActualizarEstimados(t, e, real) = Pon(t, e, y) /\ Quieta(t.entrenadores[e], y)
           /\ y.estado = t.entrenadores[e].estado
           /\ y.esperando_intercambio = t.entrenadores[e].esperando_intercambio
<1> DEFINE x == t.entrenadores[e]
           v == (ALPHA * real + (100 - ALPHA) * x.estimado) \div 100
           y == [x EXCEPT !.estimado = v]
<1>1. x \in Fichas(n)
  BY Campos
<1>2. ALPHA \in Int /\ x.estimado \in Int
  <2> HIDE DEF x
  <2>1. x.estimado \in Int
    BY <1>1 DEF Fichas
  <2>2. QED
    BY <2>1, EntrenadoresAssumption
<1>3. v \in Int
  <2> DEFINE a == ALPHA * real
             b == (100 - ALPHA) * x.estimado
  <2>1. a \in Int /\ b \in Int
    BY <1>2
  <2> HIDE DEF a, b
  <2>2. (a + b) \div 100 \in Int
    BY <2>1
  <2>3. QED
    BY <2>2 DEF a, b
<1>4. ActualizarEstimados(t, e, real) = Pon(t, e, y)
  BY DEF ActualizarEstimados, Pon
<1> HIDE DEF v, x
<1>5. /\ y \in Fichas(n) /\ Quieta(x, y) /\ y.estado = x.estado
      /\ y.esperando_intercambio = x.esperando_intercambio
  BY <1>1, <1>3 DEF Fichas, Quieta
<1> HIDE DEF y
<1>6. QED
  BY <1>4, <1>5 DEF x

LEMMA ManosIguales ==
  ASSUME NEW c, NEW k, NEW n, NEW e
  PROVE  Manos(c, k, c, k, e) /\ OtrasManos(c, k, c, k, n, e) /\ MismoReponer(k, k)
BY DEF Manos, OtrasManos, MismoReponer

LEMMA SigueParecido ==
  ASSUME NEW n \in Nat, NEW t \in Equipos(n), NEW i, Pares(t, n, i), NEW e \in 1..n, NEW y,
         Quieta(t.entrenadores[e], y), y.estado = t.entrenadores[e].estado,
         y.esperando_intercambio = t.entrenadores[e].esperando_intercambio
  PROVE  Parecido(t.entrenadores[e], y, i) /\ Avanza(t.entrenadores[e], y)
<1> DEFINE x == t.entrenadores[e]
<1>1. Va(x) => x.estado \in {"READY", "EXEC"}
  BY DEF Pares, Par
<1>2. x.esperando_intercambio /\ "pisado" \notin i => x.estado = "BLOCK"
  BY DEF Pares
<1> HIDE DEF x
<1>3. Quieta(x, y) /\ y.estado = x.estado /\ y.esperando_intercambio = x.esperando_intercambio
  BY DEF x
<1>4. Parecido(x, y, i) /\ Avanza(x, y)
  BY <1>1, <1>2, <1>3 DEF Parecido, Avanza, Quieta, Lleno, PuedeCapturar, Va
<1>5. QED
  BY <1>4 DEF x

\* Of no consequence for the rest: one trainer's record is written, but nothing that the
\* others, the lists or the accounts depend on.
LEMMA EstimarTodo ==
  ASSUME NEW n \in Nat, NEW t, NEW c, NEW k, NEW i, NEW res, NEW ac,
         Todo(t, n, c, k, i, res, ac), NEW e \in 1..n, NEW real \in Int
  PROVE  /\ Todo(ActualizarEstimados(t, e, real), n, c, k, i, res, ac)
         /\ MismaEspera(t, ActualizarEstimados(t, e, real), n)
<1> DEFINE u == ActualizarEstimados(t, e, real)
           x == t.entrenadores[e]
<1>1. t \in Equipos(n) /\ Orden(t, n, c, k, i, res) /\ Cuentas(t, n, k, ac)
  BY DEF Todo
<1>2. PICK y \in Fichas(n) :
           /\ u = Pon(t, e, y) /\ Quieta(x, y)
           /\ y.estado = x.estado /\ y.esperando_intercambio = x.esperando_intercambio
  BY <1>1, EstimarHace
<1> HIDE DEF u
<1>3. Ponen(t, u, n, e, y)
  BY <1>1, <1>2, PonHace
<1>4. u.entrenadores[e] = y /\ Resto(t, u, n, e) /\ u \in Equipos(n)
  BY <1>3 DEF Ponen, Resto
<1>5. MismaEspera(t, u, n)
  BY <1>2, <1>3 DEF Ponen, MismaEspera, Quieta
<1>6. Parecido(x, y, i) /\ Avanza(x, y)
  BY <1>1, <1>2, SigueParecido DEF Orden
<1>7. Puesto(y, Cantidad(u.desocupados, e), Cantidad(u.ready, e), c, k, i, e)
  <2> DEFINE d == Cantidad(t.desocupados, e)
             r == Cantidad(t.ready, e)
  <2>1. Puesto(x, d, r, c, k, i, e)
    BY <1>1 DEF Orden, Puestos
  <2>2. Cantidad(u.desocupados, e) = d /\ Cantidad(u.ready, e) = r
    BY <1>3 DEF Ponen
  <2> HIDE DEF x, d, r
  <2>3. Puesto(y, d, r, c, k, i, e)
    BY <1>2, <2>1, ManosIguales, PuestoSigue
  <2>4. QED
    BY <2>2, <2>3
<1>8. Orden(u, n, c, k, i, res)
  <2>1. OtrasManos(c, k, c, k, n, e)
    BY ManosIguales
  <2>2. QED
    BY <1>1, <1>4, <1>6, <1>7, <2>1, OrdenCambia
<1>9. Cuentas(u, n, k, ac)
  <2>1. MismaCaptura(x, y)
    BY <1>2 DEF Quieta, MismaCaptura, Atrapa
  <2>2. MismoReponer(k, k)
    BY ManosIguales
  <2>3. QED
    BY <1>1, <1>3, <2>1, <2>2, CuentasPonen
<1>10. QED
  BY <1>4, <1>5, <1>8, <1>9 DEF Todo, u

\* The ids that a trainer waits for, or is about to.
Espera1(t, n, c, id) ==
  \/ \E e \in 1..n : /\ t.entrenadores[e].esta_en_entrada_salida
                     /\ t.entrenadores[e].id_correlativo_esperado = id
  \/ c.lugar = "anotar" /\ c.id = id

LEMMA MismoNumero ==
  ASSUME NEW n \in Nat, NEW t \in Equipos(n)
  PROVE  Len(t.entrenadores) = n /\ DOMAIN t.entrenadores = 1..n
<1>1. t.entrenadores \in [1..n -> Fichas(n)]
  BY Campos
<1>2. QED
  BY <1>1, UnaLista
SigueEsperando(t, n, c, t2, c2) ==
  \A id \in Int : id # -1 /\ Espera1(t, n, c, id) => Espera1(t2, n, c2, id)

LEMMA EsperaIgual ==
  ASSUME NEW n, NEW t, NEW u, NEW c, NEW c2, MismaEspera(t, u, n),
         c.lugar = "anotar" => c2.lugar = "anotar" /\ c2.id = c.id
  PROVE  SigueEsperando(t, n, c, u, c2)
BY DEF SigueEsperando, MismaEspera, Espera1

LEMMA OrdenIgual ==
  ASSUME NEW n \in Nat, NEW t \in Equipos(n),
         NEW c, NEW k, NEW i, NEW res, NEW c2, NEW k2, NEW j, NEW res2,
         Orden(t, n, c, k, i, res), \A x \in 1..n : Manos(c, k, c2, k2, x), i \subseteq j,
         c.etapa = 1 /\ "pisado" \in j => "pisado" \in i, c2.etapa = c.etapa, c.etapa = 1 /\ res = 0 => res2 = 0
  PROVE  Orden(t, n, c2, k2, j, res2)
<1>1. Puestos(t, n, c, k, i) /\ Fases(t, n, c, i, res) /\ Pares(t, n, i)
  BY DEF Orden
<1>2. Puestos(t, n, c2, k2, j)
  <2> SUFFICES ASSUME NEW x \in 1..n
               PROVE  Puesto(t.entrenadores[x], Cantidad(t.desocupados, x), Cantidad(t.ready, x),
                             c2, k2, j, x)
    BY DEF Puestos
  <2> DEFINE a == t.entrenadores[x]
             d == Cantidad(t.desocupados, x)
             r == Cantidad(t.ready, x)
  <2>1. Puesto(a, d, r, c, k, i, x)
    BY <1>1 DEF Puestos
  <2>2. Quieta(a, a) /\ Manos(c, k, c2, k2, x)
    BY DEF Quieta
  <2> HIDE DEF a, d, r
  <2>3. Puesto(a, d, r, c2, k2, j, x)
    BY <2>1, <2>2, PuestoSigue
  <2>4. QED
    BY <2>3 DEF a, d, r
<1>3. Fases(t, n, c2, j, res2)
  BY <1>1 DEF Fases
<1>4. Pares(t, n, j)
  BY <1>1 DEF Pares
<1>5. QED
  BY <1>2, <1>3, <1>4 DEF Orden

LEMMA Igualdad ==
  ASSUME NEW n, NEW t
  PROVE  MismaEspera(t, t, n)
BY DEF MismaEspera

\* The semaphore and the flag of the deadlocks are of no consequence.
Casi(t, u, n) ==
  /\ u \in Equipos(n) /\ u.entrenadores = t.entrenadores /\ u.ready = t.ready
  /\ u.desocupados = t.desocupados /\ u.objetivos = t.objetivos /\ u.mapa = t.mapa
LEMMA CasiTodo ==
  ASSUME NEW n \in Nat, NEW t, NEW u, Casi(t, u, n),
         NEW c, NEW k, NEW i, NEW res, NEW ac, Todo(t, n, c, k, i, res, ac)
  PROVE  Todo(u, n, c, k, i, res, ac) /\ MismaEspera(t, u, n)
<1>1. t \in Equipos(n) /\ Orden(t, n, c, k, i, res) /\ Cuentas(t, n, k, ac)
  BY DEF Todo
<1>2. /\ u \in Equipos(n) /\ u.entrenadores = t.entrenadores /\ u.ready = t.ready
      /\ u.desocupados = t.desocupados /\ u.objetivos = t.objetivos /\ u.mapa = t.mapa
  BY DEF Casi
<1>3. MismaEspera(t, u, n) /\ MismosBolsillos(t, u, n) /\ MismosPedidos(t, u, n)
      /\ MismasCapturas(t, u, n)
  BY <1>2 DEF MismaEspera, MismosBolsillos, MismosPedidos, MismasCapturas
<1>4. Orden(u, n, c, k, i, res)
  BY <1>1, <1>2 DEF Orden, Fases, Puestos, Pares
<1>5. Cuentas(u, n, k, ac)
  <2>1. \A s : EspecieCapturada(u, s) = EspecieCapturada(t, s)
    BY <1>1, <1>2, <1>3, CuentasIguales
  <2>2. \A s : EspecieBuscada(u, s) = EspecieBuscada(t, s)
    BY <1>1, <1>2, <1>3, CuentasIguales
  <2>3. MismoReponer(k, k)
    BY DEF MismoReponer
  <2>4. QED
    BY <1>1, <1>2, <1>3, <2>1, <2>2, <2>3, CuentasIgualan
<1>6. QED
  BY <1>2, <1>3, <1>4, <1>5 DEF Todo

\* A trainer with its hands full and no task is nowhere.
LEMMA EnNingunLado ==
  ASSUME NEW x, NEW d \in Nat, NEW r \in Nat, NEW c, NEW k, NEW i, NEW e,
         Puesto(x, d, r, c, k, i, e), Lleno(x)
  PROVE  /\ ~Atrapa(x) /\ ~x.esta_en_entrada_salida /\ d = 0 /\ ~EnMano(k, e)
         /\ x.tarea = SinTarea => c.e # e
         /\ x.tarea = SinTarea /\ "pisado" \notin i => r = 0
<1>1. ~Atrapa(x) /\ ~x.esta_en_entrada_salida /\ d = 0 /\ ~EnMano(k, e)
  <2>1. ~Atrapa(x) /\ ~x.esta_en_entrada_salida /\ ~(d > 0) /\ ~EnMano(k, e)
    BY Zenon DEF Puesto
  <2>2. QED
    BY <2>1
<1>2. x.tarea = SinTarea => c.e # e
  BY DEF Puesto
<1>3. ASSUME x.tarea = SinTarea, "pisado" \notin i PROVE r = 0
  <2>1. r + Uno(c.e = e) <= Uno(x.tarea # SinTarea)
    BY <1>3 DEF Puesto
  <2>2. Uno(c.e = e) \in {0, 1} /\ Uno(x.tarea # SinTarea) = 0
    BY <1>3 DEF Uno
  <2> DEFINE a == Uno(c.e = e)
             b == Uno(x.tarea # SinTarea)
  <2>3. a \in {0, 1} /\ b = 0 /\ r + a <= b
    BY <2>1, <2>2
  <2> HIDE DEF a, b
  <2>4. QED
    BY <2>3
<1>4. QED
  BY <1>1, <1>2, <1>3

\* The one that gets a task of exchange.
LEMMA PuestoCitado ==
  ASSUME NEW n, NEW x \in Fichas(n), NEW z \in Intercambios(n), NEW d \in Nat, NEW r \in Nat,
         NEW c, NEW k, NEW i, NEW e, Puesto(x, d, r, c, k, i, e), Lleno(x), x.tarea = SinTarea
  PROVE  Puesto([x EXCEPT !.tarea = z, !.estado = "READY"], d, r + 1, c, k, i, e)
<1> DEFINE y == [x EXCEPT !.tarea = z, !.estado = "READY"]
<1>1. /\ y.capturados = x.capturados /\ y.buscados = x.buscados /\ y.tarea = z
      /\ y.esta_en_entrada_salida = x.esta_en_entrada_salida
      /\ y.id_correlativo_esperado = x.id_correlativo_esperado
      /\ x.esta_en_entrada_salida \in BOOLEAN
  BY DEF Fichas
<1> HIDE DEF y
<1>2. Lleno(y) /\ ~Atrapa(y) /\ y.tarea # SinTarea
  BY <1>1 DEF Lleno, PuedeCapturar, Atrapa, Intercambios, SinTarea
<1>3. /\ ~y.esta_en_entrada_salida /\ d = 0 /\ ~EnMano(k, e) /\ c.e # e
      /\ "pisado" \notin i => r = 0
  BY <1>1, EnNingunLado
<1>4. ASSUME "pisado" \notin i
      PROVE  r + 1 + Uno(c.e = e) = Uno(y.tarea # SinTarea)
  <2>1. Uno(c.e = e) = 0 /\ Uno(y.tarea # SinTarea) = 1 /\ r = 0
    BY <1>2, <1>3, <1>4 DEF Uno
  <2>2. QED
    BY <2>1
<1>5. Len(y.capturados) <= Len(y.buscados) /\ y.id_correlativo_esperado = -1
      /\ ~(d > 0)
  BY <1>1, <1>3 DEF Puesto
<1>6. "pisado" \notin i => r + 1 + Uno(c.e = e) <= Uno(y.tarea # SinTarea)
  <2>1. Uno(y.tarea # SinTarea) \in Int
    BY DEF Uno
  <2>2. QED
    BY <1>4, <2>1
<1>7. Puesto(y, d, r + 1, c, k, i, e)
  BY <1>2, <1>3, <1>4, <1>5, <1>6, Zenon DEF Puesto
<1>8. QED
  BY <1>7 DEF y

LEMMA BloqueadoSinTarea ==
  ASSUME NEW n \in Nat, NEW t \in Equipos(n), NEW i, Pares(t, n, i), NEW e \in 1..n,
         ~Atrapa(t.entrenadores[e]), t.entrenadores[e].estado = "BLOCK"
  PROVE  t.entrenadores[e].tarea = SinTarea /\ ~Va(t.entrenadores[e])
<1> DEFINE x == t.entrenadores[e]
<1>1. x \in Fichas(n)
  BY Campos
<1>2. ~Va(x)
  BY DEF Pares, Par
<1> HIDE DEF x
<1>3. x.tarea \in Tareas(n)
  BY <1>1 DEF Fichas
<1>4. x.tarea = SinTarea
  BY <1>2, <1>3, UnaTarea DEF Va, Atrapa, Intercambios, x
<1>5. QED
  BY <1>2, <1>4 DEF x

\* The one that the other one waits for, and the one that goes to it.
LEMMA EnCita ==
  ASSUME NEW n \in Nat, NEW t \in Equipos(n), NEW u, NEW e \in 1..n, Cita(t, u, n, e)
  PROVE  LET x == t.entrenadores[e]
             y == u.entrenadores[e]
             f == Otro(y)
             v == t.entrenadores[f]
             w == u.entrenadores[f]
         IN  /\ x.estado = "BLOCK" /\ ~x.esperando_intercambio
             /\ y.tarea \in Intercambios(n) /\ Va(y)
             /\ y.estado = "READY" /\ ~y.esperando_intercambio
             /\ y.capturados = x.capturados /\ y.buscados = x.buscados
             /\ y.esta_en_entrada_salida = x.esta_en_entrada_salida
             /\ y.id_correlativo_esperado = x.id_correlativo_esperado
             /\ f \in 1..n /\ f # e
             /\ v.estado = "BLOCK" /\ ~v.esperando_intercambio
             /\ w.estado = "BLOCK" /\ w.esperando_intercambio /\ w.tarea = v.tarea
             /\ w.capturados = v.capturados /\ w.buscados = v.buscados
             /\ w.esta_en_entrada_salida = v.esta_en_entrada_salida
             /\ w.id_correlativo_esperado = v.id_correlativo_esperado
             /\ Contains(Sobrantes(w), y.tarea.pokemon_a_pedir)
             /\ Contains(Sobrantes(y), y.tarea.pokemon_a_otorgar)
             /\ Contains(Faltantes(y), y.tarea.pokemon_a_pedir)
             /\ Cantidad(u.ready, e) = Cantidad(t.ready, e) + 1
<1> DEFINE x == t.entrenadores[e]
           y == u.entrenadores[e]
           f == Otro(y)
           v == t.entrenadores[f]
           w == u.entrenadores[f]
<1>1. /\ x.estado = "BLOCK" /\ ~x.esperando_intercambio
      /\ y.tarea \in Intercambios(n)
      /\ y = [x EXCEPT !.tarea = y.tarea, !.estado = "READY"]
      /\ f \in 1..n /\ f # e
      /\ v.estado = "BLOCK" /\ ~v.esperando_intercambio
      /\ w = [v EXCEPT !.esperando_intercambio = TRUE]
      /\ Contains(Sobrantes(v), y.tarea.pokemon_a_pedir)
      /\ Contains(Sobrantes(x), y.tarea.pokemon_a_otorgar)
      /\ Contains(Faltantes(x), y.tarea.pokemon_a_pedir)
      /\ Cantidad(u.ready, e) = Cantidad(t.ready, e) + 1
  BY DEF Cita, Otro
<1>2. x \in Fichas(n) /\ v \in Fichas(n)
  BY <1>1, Campos
<1> HIDE DEF x, y, f, v, w
<1>3. Va(y)
  BY <1>1 DEF Intercambios, Va
<1>4. /\ y.estado = "READY" /\ ~y.esperando_intercambio
      /\ y.capturados = x.capturados /\ y.buscados = x.buscados
      /\ y.esta_en_entrada_salida = x.esta_en_entrada_salida
      /\ y.id_correlativo_esperado = x.id_correlativo_esperado
  BY <1>1, <1>2 DEF Fichas
<1>5. /\ w.estado = "BLOCK" /\ w.esperando_intercambio /\ w.tarea = v.tarea
      /\ w.capturados = v.capturados /\ w.buscados = v.buscados
      /\ w.esta_en_entrada_salida = v.esta_en_entrada_salida
      /\ w.id_correlativo_esperado = v.id_correlativo_esperado
  BY <1>1, <1>2 DEF Fichas
<1>6. Contains(Sobrantes(w), y.tarea.pokemon_a_pedir)
  BY <1>1, <1>5 DEF Sobrantes
<1>7. Contains(Sobrantes(y), y.tarea.pokemon_a_otorgar)
      /\ Contains(Faltantes(y), y.tarea.pokemon_a_pedir)
  BY <1>1, <1>4 DEF Sobrantes, Faltantes
<1>8. QED
  BY <1>1, <1>3, <1>4, <1>5, <1>6, <1>7 DEF x, y, f, v, w

\* What the search does to a trainer.
Despues(x, y, r, r2, n) ==
  \/ y = x /\ r2 = r
  \/ /\ x.estado = "BLOCK" /\ y.tarea \in Intercambios(n) /\ r2 = r + 1
     /\ y = [x EXCEPT !.tarea = y.tarea, !.estado = "READY"]
  \/ x.estado = "BLOCK" /\ y = [x EXCEPT !.esperando_intercambio = TRUE] /\ r2 = r
LEMMA ResolverCadaUno ==
  ASSUME NEW n \in Nat, NEW t \in Equipos(n), NEW u, Resuelto(t, u, n), NEW e \in 1..n
  PROVE  /\ Despues(t.entrenadores[e], u.entrenadores[e], Cantidad(t.ready, e),
                    Cantidad(u.ready, e), n)
         /\ t.entrenadores[e].estado # "BLOCK" \/ t.entrenadores[e].esperando_intercambio =>
              Quieto(t, u, e)
<1>1. CASE Quieto(t, u, e)
  BY <1>1 DEF Quieto, Despues
<1>2. CASE Cita(t, u, n, e)
  <2>1. /\ t.entrenadores[e].estado = "BLOCK" /\ u.entrenadores[e].tarea \in Intercambios(n)
        /\ Cantidad(u.ready, e) = Cantidad(t.ready, e) + 1
        /\ u.entrenadores[e] = [t.entrenadores[e] EXCEPT !.tarea = u.entrenadores[e].tarea,
                                                         !.estado = "READY"]
    BY <1>2 DEF Cita
  <2>2. ~t.entrenadores[e].esperando_intercambio
    BY <1>2 DEF Cita
  <2>3. QED
    BY <2>1, <2>2, Zenon DEF Despues
<1>3. CASE Espera(t, u, n, e)
  <2>1. PICK g \in 1..n : Cita(t, u, n, g) /\ u.entrenadores[g].tarea.entrenador_intercambio = e
    BY <1>3 DEF Espera
  <2>2. /\ t.entrenadores[e].estado = "BLOCK" /\ ~t.entrenadores[e].esperando_intercambio
        /\ u.entrenadores[e] = [t.entrenadores[e] EXCEPT !.esperando_intercambio = TRUE]
    BY <2>1 DEF Cita
  <2>3. Cantidad(u.ready, e) = Cantidad(t.ready, e)
    BY <1>3 DEF Espera
  <2>4. QED
    BY <2>2, <2>3, Zenon DEF Despues
<1>4. QED
  BY <1>1, <1>2, <1>3 DEF Resuelto

LEMMA ResolverUno ==
  ASSUME NEW n \in Nat, NEW x \in Fichas(n), NEW y, NEW d \in Nat, NEW r \in Nat, NEW r2,
         Despues(x, y, r, r2, n), x.estado = "BLOCK" => x.tarea = SinTarea,
         NEW c, NEW k, NEW i, NEW e, Puesto(x, d, r, c, k, i, e), Lleno(x)
  PROVE  /\ Puesto(y, d, r2, c, k, i, e) /\ Lleno(y) /\ ~Atrapa(y)
         /\ y.capturados = x.capturados /\ y.buscados = x.buscados
         /\ y.esta_en_entrada_salida = x.esta_en_entrada_salida
         /\ y.id_correlativo_esperado = x.id_correlativo_esperado
<1>1. ~Atrapa(x)
  BY EnNingunLado
<1>2. CASE y = x /\ r2 = r
  BY <1>1, <1>2
<1>3. CASE /\ x.estado = "BLOCK" /\ y.tarea \in Intercambios(n) /\ r2 = r + 1
           /\ y = [x EXCEPT !.tarea = y.tarea, !.estado = "READY"]
  <2>1. Puesto([x EXCEPT !.tarea = y.tarea, !.estado = "READY"], d, r + 1, c, k, i, e)
    BY <1>3, PuestoCitado
  <2>2. /\ y.capturados = x.capturados /\ y.buscados = x.buscados
        /\ y.esta_en_entrada_salida = x.esta_en_entrada_salida
        /\ y.id_correlativo_esperado = x.id_correlativo_esperado
    BY <1>3 DEF Fichas
  <2>3. ~Atrapa(y) /\ Lleno(y)
    BY <1>3, <2>2 DEF Atrapa, Intercambios, Lleno, PuedeCapturar
  <2>4. Puesto(y, d, r2, c, k, i, e)
    BY <1>3, <2>1
  <2>5. QED
    BY <2>2, <2>3, <2>4
<1>4. CASE x.estado = "BLOCK" /\ y = [x EXCEPT !.esperando_intercambio = TRUE] /\ r2 = r
  <2>1. Quieta(x, y)
    BY <1>4 DEF Fichas, Quieta
  <2>2. Manos(c, k, c, k, e)
    BY ManosIguales
  <2>3. Puesto(y, d, r2, c, k, i, e)
    BY <1>4, <2>1, <2>2, PuestoSigue
  <2>4. Lleno(y) /\ ~Atrapa(y)
    BY <1>1, <2>1 DEF Quieta, Lleno, PuedeCapturar, Atrapa
  <2>5. QED
    BY <2>1, <2>3, <2>4 DEF Quieta
<1>5. QED
  BY <1>2, <1>3, <1>4 DEF Despues

\* The exchanges that were under way still are, and the new ones join two free trainers.
LEMMA ResolverPares ==
  ASSUME NEW n \in Nat, NEW t \in Equipos(n), NEW u, Resuelto(t, u, n), NEW i, Pares(t, n, i),
         \A e \in 1..n : ~Atrapa(t.entrenadores[e])
  PROVE  Pares(u, n, i)
<1>1. ASSUME NEW e \in 1..n, Va(t.entrenadores[e])
      PROVE  /\ u.entrenadores[e] = t.entrenadores[e] /\ Otro(t.entrenadores[e]) \in 1..n
             /\ Otro(t.entrenadores[e]) # e
             /\ t.entrenadores[Otro(t.entrenadores[e])].esperando_intercambio
             /\ u.entrenadores[Otro(t.entrenadores[e])] = t.entrenadores[Otro(t.entrenadores[e])]
             /\ Par(t.entrenadores[e], t.entrenadores[Otro(t.entrenadores[e])])
  <2> DEFINE f == Otro(t.entrenadores[e])
  <2>1. f \in 1..n /\ f # e /\ Par(t.entrenadores[e], t.entrenadores[f])
    BY <1>1, UnOtro DEF Pares
  <2> HIDE DEF f
  <2>2. t.entrenadores[e].estado # "BLOCK" /\ t.entrenadores[f].esperando_intercambio
    BY <2>1 DEF Par
  <2>3. Quieto(t, u, e)
    BY <2>2, ResolverCadaUno
  <2>4. Quieto(t, u, f)
    BY <2>1, <2>2, ResolverCadaUno
  <2>5. QED
    BY <2>1, <2>2, <2>3, <2>4 DEF Quieto, f
<1>2. ASSUME NEW e \in 1..n, Va(u.entrenadores[e])
      PROVE  \/ Va(t.entrenadores[e]) /\ u.entrenadores[e] = t.entrenadores[e]
             \/ Cita(t, u, n, e)
  <2>1. CASE Quieto(t, u, e)
    BY <1>2, <2>1 DEF Quieto
  <2>2. CASE Espera(t, u, n, e)
    <3>1. PICK g \in 1..n : Cita(t, u, n, g) /\ Otro(u.entrenadores[g]) = e
      BY <2>2 DEF Espera, Otro
    <3>2. t.entrenadores[e].estado = "BLOCK" /\ u.entrenadores[e].tarea = t.entrenadores[e].tarea
      BY <3>1, EnCita
    <3>3. ~Va(t.entrenadores[e])
      BY <3>2, BloqueadoSinTarea
    <3>4. QED
      BY <1>2, <3>2, <3>3 DEF Va
  <2>3. QED
    BY <2>1, <2>2 DEF Resuelto
<1>3. ASSUME NEW e \in 1..n, Va(u.entrenadores[e])
      PROVE  Otro(u.entrenadores[e]) # e /\ Par(u.entrenadores[e], u.entrenadores[Otro(u.entrenadores[e])])
  <2>1. CASE Va(t.entrenadores[e]) /\ u.entrenadores[e] = t.entrenadores[e]
    BY <1>1, <2>1
  <2>2. CASE Cita(t, u, n, e)
    <3> DEFINE y == u.entrenadores[e]
               f == Otro(y)
               v == t.entrenadores[f]
               w == u.entrenadores[f]
    <3>1. /\ y.estado = "READY" /\ ~y.esperando_intercambio /\ f \in 1..n /\ f # e
          /\ v.estado = "BLOCK" /\ w.esperando_intercambio /\ w.tarea = v.tarea
          /\ Contains(Sobrantes(w), y.tarea.pokemon_a_pedir)
          /\ Contains(Sobrantes(y), y.tarea.pokemon_a_otorgar)
          /\ Contains(Faltantes(y), y.tarea.pokemon_a_pedir)
      <4>1. y.estado = "READY" /\ ~y.esperando_intercambio /\ f \in 1..n /\ f # e
        BY <2>2, EnCita
      <4>2. v.estado = "BLOCK" /\ w.esperando_intercambio /\ w.tarea = v.tarea
        BY <2>2, EnCita
      <4>3. /\ Contains(Sobrantes(w), y.tarea.pokemon_a_pedir)
            /\ Contains(Sobrantes(y), y.tarea.pokemon_a_otorgar)
            /\ Contains(Faltantes(y), y.tarea.pokemon_a_pedir)
        BY <2>2, EnCita
      <4>4. QED
        BY <4>1, <4>2, <4>3
    <3>2. v.tarea = SinTarea
      BY <3>1, BloqueadoSinTarea
    <3> HIDE DEF y, f, v, w
    <3>3. Par(y, w) /\ f # e
      BY <3>1, <3>2 DEF Par
    <3>4. QED
      BY <3>3 DEF y, f, w
  <2>3. QED
    BY <1>2, <1>3, <2>1, <2>2
<1>4. ASSUME NEW e \in 1..n, Va(u.entrenadores[e]), NEW g \in 1..n, Va(u.entrenadores[g]),
             Otro(u.entrenadores[e]) = Otro(u.entrenadores[g])
      PROVE  e = g
  <2> DEFINE f == Otro(u.entrenadores[e])
  <2>1. ASSUME NEW a \in 1..n, Va(t.entrenadores[a]) /\ u.entrenadores[a] = t.entrenadores[a]
        PROVE  t.entrenadores[Otro(u.entrenadores[a])].esperando_intercambio
    BY <1>1, <2>1
  <2>2. ASSUME NEW a \in 1..n, Cita(t, u, n, a)
        PROVE  ~t.entrenadores[Otro(u.entrenadores[a])].esperando_intercambio
    BY <2>2, EnCita
  <2>3. \/ Va(t.entrenadores[e]) /\ u.entrenadores[e] = t.entrenadores[e]
        \/ Cita(t, u, n, e)
    BY <1>2, <1>4
  <2>4. \/ Va(t.entrenadores[g]) /\ u.entrenadores[g] = t.entrenadores[g]
        \/ Cita(t, u, n, g)
    BY <1>2, <1>4
  <2>5. \/ /\ Va(t.entrenadores[e]) /\ u.entrenadores[e] = t.entrenadores[e]
           /\ Va(t.entrenadores[g]) /\ u.entrenadores[g] = t.entrenadores[g]
        \/ Cita(t, u, n, e) /\ Cita(t, u, n, g)
    BY <1>4, <2>1, <2>2, <2>3, <2>4
  <2>6. CASE /\ Va(t.entrenadores[e]) /\ u.entrenadores[e] = t.entrenadores[e]
             /\ Va(t.entrenadores[g]) /\ u.entrenadores[g] = t.entrenadores[g]
    BY <1>4, <2>6 DEF Pares
  <2>7. CASE Cita(t, u, n, e) /\ Cita(t, u, n, g)
    BY <1>4, <2>7 DEF Resuelto, Otro
  <2>8. QED
    BY <2>5, <2>6, <2>7
<1>5. ASSUME NEW f \in 1..n, u.entrenadores[f].esperando_intercambio, "pisado" \notin i
      PROVE  /\ u.entrenadores[f].estado = "BLOCK"
             /\ \E e \in 1..n : Va(u.entrenadores[e]) /\ Otro(u.entrenadores[e]) = f
  <2>1. CASE Quieto(t, u, f)
    <3>1. u.entrenadores[f] = t.entrenadores[f] /\ t.entrenadores[f].estado = "BLOCK"
      BY <1>5, <2>1 DEF Quieto, Pares
    <3>2. PICK e \in 1..n : Va(t.entrenadores[e]) /\ Otro(t.entrenadores[e]) = f
      BY <1>5, <3>1 DEF Pares
    <3>3. u.entrenadores[e] = t.entrenadores[e]
      BY <1>1, <3>2
    <3>4. QED
      BY <3>1, <3>2, <3>3
  <2>2. CASE Cita(t, u, n, f)
    BY <1>5, <2>2, EnCita
  <2>3. CASE Espera(t, u, n, f)
    <3>1. PICK g \in 1..n : Cita(t, u, n, g) /\ Otro(u.entrenadores[g]) = f
      BY <2>3 DEF Espera, Otro
    <3>2. u.entrenadores[f].estado = "BLOCK" /\ Va(u.entrenadores[g])
      <4>1. u.entrenadores[Otro(u.entrenadores[g])].estado = "BLOCK" /\ Va(u.entrenadores[g])
        BY <3>1, EnCita
      <4>2. QED
        BY <3>1, <4>1
    <3>3. QED
      BY <3>1, <3>2
  <2>4. QED
    BY <2>1, <2>2, <2>3 DEF Resuelto
<1>6. \A e \in 1..n : Va(u.entrenadores[e]) =>
         Otro(u.entrenadores[e]) # e /\ Par(u.entrenadores[e], u.entrenadores[Otro(u.entrenadores[e])])
  BY <1>3
<1>7. \A e, g \in 1..n :
       Va(u.entrenadores[e]) /\ Va(u.entrenadores[g])
         /\ Otro(u.entrenadores[e]) = Otro(u.entrenadores[g]) => e = g
  BY <1>4
<1>8. "pisado" \notin i =>
       \A f \in 1..n : u.entrenadores[f].esperando_intercambio =>
         /\ u.entrenadores[f].estado = "BLOCK"
         /\ \E e \in 1..n : Va(u.entrenadores[e]) /\ Otro(u.entrenadores[e]) = f
  BY <1>5
<1>9. QED
  BY <1>6, <1>7, <1>8, Zenon DEF Pares

LEMMA ResolverTodo ==
  ASSUME NEW n \in Nat, NEW t, NEW c, c.etapa = 2, NEW k, NEW i, NEW res, NEW res2, NEW ac,
         Todo(t, n, c, k, i, res, ac)
  PROVE  /\ Todo(ResolverDeadlock(t), n, c, k, i, res2, ac)
         /\ MismaEspera(t, ResolverDeadlock(t), n)
<1> DEFINE u == ResolverDeadlock(t)
<1>1. t \in Equipos(n) /\ Puestos(t, n, c, k, i) /\ Fases(t, n, c, i, res) /\ Pares(t, n, i)
      /\ Cuentas(t, n, k, ac)
  BY DEF Todo, Orden
<1>2. \A e \in 1..n : Lleno(t.entrenadores[e])
  BY <1>1 DEF Fases
<1>3. Llenos(t, n)
  <2> SUFFICES ASSUME NEW e \in 1..n
               PROVE  Len(t.entrenadores[e].capturados) = Len(t.entrenadores[e].buscados)
    BY DEF Llenos
  <2> DEFINE x == t.entrenadores[e]
  <2>1. x \in Fichas(n) /\ Lleno(x)
    BY <1>1, <1>2, Campos
  <2>2. Len(x.capturados) <= Len(x.buscados)
    BY <1>1 DEF Puestos, Puesto
  <2> HIDE DEF x
  <2>3. Len(x.capturados) \in Nat /\ Len(x.buscados) \in Nat
    BY <2>1, LenProperties DEF Fichas
  <2>4. Len(x.capturados) = Len(x.buscados)
    BY <2>1, <2>2, <2>3 DEF Lleno, PuedeCapturar
  <2>5. QED
    BY <2>4 DEF x
<1>4. Resuelto(t, u, n)
  BY <1>1, <1>3, ResolverHace
<1> HIDE DEF u
<1>5. \A e \in 1..n : ~Atrapa(t.entrenadores[e])
  BY <1>1, <1>2 DEF Puestos, Puesto
<1>6. ASSUME NEW e \in 1..n
      PROVE  LET x == t.entrenadores[e]
                 y == u.entrenadores[e]
             IN  /\ Puesto(y, Cantidad(u.desocupados, e), Cantidad(u.ready, e), c, k, i, e)
                 /\ Lleno(y) /\ ~Atrapa(y)
                 /\ y.capturados = x.capturados /\ y.buscados = x.buscados
                 /\ y.esta_en_entrada_salida = x.esta_en_entrada_salida
                 /\ y.id_correlativo_esperado = x.id_correlativo_esperado
  <2> DEFINE x == t.entrenadores[e]
             y == u.entrenadores[e]
             d == Cantidad(t.desocupados, e)
             r == Cantidad(t.ready, e)
             d2 == Cantidad(u.desocupados, e)
             r2 == Cantidad(u.ready, e)
  <2>1. x \in Fichas(n) /\ d \in Nat /\ r \in Nat
    BY <1>1, Campos, CantidadTipo
  <2>2. Puesto(x, d, r, c, k, i, e) /\ Lleno(x)
    BY <1>1, <1>2 DEF Puestos
  <2>3. x.estado = "BLOCK" => x.tarea = SinTarea
    BY <1>1, <1>5, BloqueadoSinTarea
  <2>4. Despues(x, y, r, r2, n)
    BY <1>1, <1>4, ResolverCadaUno
  <2>5. d2 = d
    BY <1>4 DEF Resuelto
  <2> HIDE DEF x, y, d, r, d2, r2
  <2>6. /\ Puesto(y, d, r2, c, k, i, e) /\ Lleno(y) /\ ~Atrapa(y)
        /\ y.capturados = x.capturados /\ y.buscados = x.buscados
        /\ y.esta_en_entrada_salida = x.esta_en_entrada_salida
        /\ y.id_correlativo_esperado = x.id_correlativo_esperado
    BY <2>1, <2>2, <2>3, <2>4, ResolverUno
  <2>7. QED
    BY <2>5, <2>6 DEF x, y, d, r, d2, r2
<1>7. u \in Equipos(n) /\ u.mapa = t.mapa /\ u.objetivos = t.objetivos
  BY <1>4 DEF Resuelto
<1>8. Puestos(u, n, c, k, i)
  BY <1>6 DEF Puestos
<1>9. Fases(u, n, c, i, res2)
  BY <1>6 DEF Fases
<1>10. Pares(u, n, i)
  BY <1>1, <1>4, <1>5, ResolverPares
<1>11. MismaEspera(t, u, n) /\ MismosBolsillos(t, u, n) /\ MismosPedidos(t, u, n)
  BY <1>6 DEF MismaEspera, MismosBolsillos, MismosPedidos
<1>12. MismasCapturas(t, u, n)
  BY <1>5, <1>6 DEF MismasCapturas
<1>13. Cuentas(u, n, k, ac)
  <2>1. \A s : EspecieCapturada(u, s) = EspecieCapturada(t, s)
    BY <1>1, <1>7, <1>11, CuentasIguales
  <2>2. \A s : EspecieBuscada(u, s) = EspecieBuscada(t, s)
    BY <1>1, <1>7, <1>11, CuentasIguales
  <2>3. MismoReponer(k, k)
    BY DEF MismoReponer
  <2>4. QED
    BY <1>1, <1>7, <1>12, <2>1, <2>2, <2>3, CuentasIgualan
<1>14. QED
  BY <1>7, <1>8, <1>9, <1>10, <1>11, <1>13 DEF Todo, Orden, u

\* One trainer does something that catches nothing.
LEMMA UnoTodo ==
  ASSUME NEW n \in Nat, NEW t, NEW u \in Equipos(n), NEW e \in 1..n,
         NEW c, NEW k, NEW i, NEW res, NEW c2, NEW k2, NEW j, NEW res2, NEW ac,
         Todo(t, n, c, k, i, res, ac),
         Resto(t, u, n, e), u.mapa = t.mapa, u.objetivos = t.objetivos,
         OtrasManos(c, k, c2, k2, n, e), MismoReponer(k, k2), i \subseteq j,
         c.etapa = 1 /\ "pisado" \in j => "pisado" \in i, c2.etapa = c.etapa,
         c.etapa = 1 /\ res = 0 => res2 = 0,
         MismaCaptura(t.entrenadores[e], u.entrenadores[e]),
         Avanza(t.entrenadores[e], u.entrenadores[e]),
         Parecido(t.entrenadores[e], u.entrenadores[e], j),
         Puesto(u.entrenadores[e], Cantidad(u.desocupados, e), Cantidad(u.ready, e), c2, k2, j, e)
  PROVE  Todo(u, n, c2, k2, j, res2, ac)
<1>1. t \in Equipos(n) /\ Orden(t, n, c, k, i, res) /\ Cuentas(t, n, k, ac)
  BY DEF Todo
<1>2. Orden(u, n, c2, k2, j, res2)
  BY <1>1, OrdenCambia
<1>3. MismosBolsillos(t, u, n) /\ MismosPedidos(t, u, n) /\ MismasCapturas(t, u, n)
  BY DEF Resto, MismaCaptura, MismosBolsillos, MismosPedidos, MismasCapturas
<1>4. \A s : EspecieCapturada(u, s) = EspecieCapturada(t, s)
  BY <1>1, <1>3, CuentasIguales
<1>5. \A s : EspecieBuscada(u, s) = EspecieBuscada(t, s)
  BY <1>1, <1>3, CuentasIguales
<1>6. Cuentas(u, n, k2, ac)
  BY <1>1, <1>3, <1>4, <1>5, CuentasIgualan
<1>7. QED
  BY <1>2, <1>6 DEF Todo

\* Who has a task waits for nobody.
LEMMA ConTareaNoEspera ==
  ASSUME NEW n \in Nat, NEW t, NEW i, Pares(t, n, i), NEW e \in 1..n,
         t.entrenadores[e].tarea # SinTarea, "pisado" \notin i
  PROVE  ~t.entrenadores[e].esperando_intercambio
<1> SUFFICES ASSUME t.entrenadores[e].esperando_intercambio
             PROVE  FALSE
  OBVIOUS
<1>1. PICK g \in 1..n : Va(t.entrenadores[g]) /\ Otro(t.entrenadores[g]) = e
  BY DEF Pares
<1>2. t.entrenadores[e].tarea = SinTarea
  BY <1>1 DEF Pares, Par
<1>3. QED
  BY <1>2

\* A cycle of the one that runs.
LEMMA CicloTodo ==
  ASSUME NEW n \in Nat, NEW t, NEW c, NEW k, NEW i, NEW res, NEW ac, NEW e \in 1..n,
         Todo(t, n, c, k, i, res, ac), c.e = e, c.lugar = "rafaga",
         LET r == RafagasNecesarias(CicloCpu(t, e), e) IN r > 0 \/ r = 0
  PROVE  /\ Todo(CicloCpu(t, e), n, c, k, i, res, ac) /\ MismaEspera(t, CicloCpu(t, e), n)
         /\ CicloCpu(t, e).entrenadores[e].estado = "READY"
<1> DEFINE u == CicloCpu(t, e)
           x == t.entrenadores[e]
<1>1. /\ t \in Equipos(n) /\ Orden(t, n, c, k, i, res) /\ Puestos(t, n, c, k, i)
      /\ Pares(t, n, i)
  BY DEF Todo, Orden
<1>2. x.tarea # SinTarea /\ ConTarea(t, n, e)
  <2>1. x.tarea # SinTarea
    BY <1>1 DEF Puestos, Puesto
  <2>2. QED
    BY <1>1, <2>1 DEF ConTarea, Pares
<1>3. PICK y \in Fichas(n) : u = Pon(t, e, y) /\ Anduvo(x, y)
  BY <1>1, <1>2, CicloHace
<1> HIDE DEF u
<1>4. Ponen(t, u, n, e, y)
  BY <1>1, <1>3, PonHace
<1>5. u \in Equipos(n) /\ u.entrenadores[e] = y /\ Resto(t, u, n, e)
      /\ u.mapa = t.mapa /\ u.objetivos = t.objetivos
  BY <1>4 DEF Ponen, Resto
<1>6. MismaEspera(t, u, n)
  BY <1>3, <1>4 DEF Ponen, MismaEspera, Anduvo, Quieta
<1>7. MismaCaptura(x, y) /\ Avanza(x, y)
  BY <1>3 DEF MismaCaptura, Avanza, Anduvo, Quieta, Atrapa, Lleno, PuedeCapturar, Va
<1>8. Parecido(x, y, i)
  <2>1. "pisado" \notin i => ~x.esperando_intercambio
    BY <1>1, <1>2, ConTareaNoEspera
  <2> HIDE DEF x
  <2>2. QED
    BY <1>3, <2>1 DEF Parecido, Anduvo, Quieta
<1>9. Puesto(y, Cantidad(u.desocupados, e), Cantidad(u.ready, e), c, k, i, e)
  <2> DEFINE d == Cantidad(t.desocupados, e)
             r == Cantidad(t.ready, e)
  <2>1. Puesto(x, d, r, c, k, i, e)
    BY <1>1 DEF Puestos
  <2>2. Cantidad(u.desocupados, e) = d /\ Cantidad(u.ready, e) = r
    BY <1>4 DEF Ponen
  <2>3. Quieta(x, y)
    BY <1>3 DEF Anduvo
  <2> HIDE DEF x, d, r
  <2>4. Puesto(y, d, r, c, k, i, e)
    BY <2>1, <2>3, ManosIguales, PuestoSigue
  <2>5. QED
    BY <2>2, <2>4
<1>10. OtrasManos(c, k, c, k, n, e) /\ MismoReponer(k, k)
  BY ManosIguales
<1>11. Todo(u, n, c, k, i, res, ac)
  BY <1>5, <1>7, <1>8, <1>9, <1>10, UnoTodo
<1>12. QED
  BY <1>3, <1>5, <1>6, <1>11 DEF u, Anduvo

\* Out of the cpu: nobody runs.
SinCpu(c, c2) == c2.e = 0 /\ c2.lugar = "evaluar" /\ c2.etapa = c.etapa
LEMMA OtrasSinCpu ==
  ASSUME NEW n, NEW c, NEW c2, NEW k, NEW e, c.e = e, SinCpu(c, c2)
  PROVE  OtrasManos(c, k, c2, k, n, e) /\ MismoReponer(k, k)
BY DEF OtrasManos, Manos, SinCpu, MismoReponer

\* The one that runs goes back to the ready list.
LEMMA VuelveTodo ==
  ASSUME NEW n \in Nat, NEW t, NEW c, NEW c2, NEW k, NEW i, NEW res, NEW ac, NEW e \in 1..n,
         Todo(t, n, c, k, i, res, ac), c.e = e, c.lugar = "rafaga", SinCpu(c, c2)
  PROVE  /\ Todo(AgregarAReady(t, e), n, c2, k, i, res, ac)
         /\ MismaEspera(t, AgregarAReady(t, e), n)
<1> DEFINE u == AgregarAReady(t, e)
           x == t.entrenadores[e]
           y == [x EXCEPT !.estado = "READY"]
           d == Cantidad(t.desocupados, e)
           r == Cantidad(t.ready, e)
<1>1. /\ t \in Equipos(n) /\ Orden(t, n, c, k, i, res) /\ Puestos(t, n, c, k, i)
      /\ Pares(t, n, i)
  BY DEF Todo, Orden
<1>2. x \in Fichas(n) /\ t.entrenadores \in [1..n -> Fichas(n)] /\ d \in Nat /\ r \in Nat
  BY <1>1, Campos, CantidadTipo
<1>3. Readmitido(t, u, n, e)
  BY <1>1, AgregarAReadyHace
<1> HIDE DEF u
<1>4. /\ u \in Equipos(n) /\ u.entrenadores = [t.entrenadores EXCEPT ![e] = y]
      /\ u.desocupados = t.desocupados /\ u.objetivos = t.objetivos /\ u.mapa = t.mapa
      /\ \A z \in 1..n : Cantidad(u.ready, z) =
            IF z = e THEN Cantidad(t.ready, z) + 1 ELSE Cantidad(t.ready, z)
  BY <1>3, Zenon DEF Readmitido
<1>5. u.entrenadores[e] = y /\ \A z \in 1..n : z # e => u.entrenadores[z] = t.entrenadores[z]
  <2> HIDE DEF y
  <2>1. QED
    BY <1>2, <1>4
<1>6. Resto(t, u, n, e) /\ Cantidad(u.ready, e) = r + 1 /\ Cantidad(u.desocupados, e) = d
  BY <1>4, <1>5 DEF Resto
<1>7. Quieta(x, y) /\ y.estado = "READY" /\ y.esperando_intercambio = x.esperando_intercambio
  <2> HIDE DEF x
  <2>1. QED
    BY <1>2 DEF Fichas, Quieta
<1>8. MismaEspera(t, u, n)
  BY <1>5, <1>7 DEF MismaEspera, Quieta
<1>9. Puesto(x, d, r, c, k, i, e)
  BY <1>1 DEF Puestos
<1>10. x.tarea # SinTarea
  BY <1>9 DEF Puesto
<1>11. "pisado" \notin i => ~x.esperando_intercambio
  BY <1>1, <1>10, ConTareaNoEspera
<1>12. OtrasManos(c, k, c2, k, n, e) /\ MismoReponer(k, k)
  BY OtrasSinCpu
<1> HIDE DEF x, y, d, r
<1>13. MismaCaptura(x, y) /\ Avanza(x, y) /\ Parecido(x, y, i)
  BY <1>7, <1>11 DEF MismaCaptura, Avanza, Quieta, Atrapa, Lleno, PuedeCapturar, Va, Parecido
<1>14. Puesto(y, d, r + 1, c2, k, i, e)
  <2>1. /\ Lleno(y) <=> Lleno(x)
        /\ Atrapa(y) <=> Atrapa(x)
        /\ ~x.esta_en_entrada_salida /\ ~y.esta_en_entrada_salida /\ y.tarea # SinTarea
        /\ c2.e # e /\ c2.lugar = "evaluar"
    <3>1. ~x.esta_en_entrada_salida
      BY <1>9, Zenon DEF Puesto
    <3>2. /\ Lleno(y) <=> Lleno(x)
          /\ Atrapa(y) <=> Atrapa(x)
          /\ y.esta_en_entrada_salida = x.esta_en_entrada_salida /\ y.tarea = x.tarea
      BY <1>7 DEF Quieta, Lleno, PuedeCapturar, Atrapa
    <3>3. c2.e # e /\ c2.lugar = "evaluar"
      BY DEF SinCpu
    <3>4. QED
      BY <1>10, <3>1, <3>2, <3>3
  <2>2. Sitios(y, d, r + 1, c2, k, e) = Sitios(x, d, r, c, k, e)
    <3>1. /\ Uno(c.e = e) = 1 /\ Uno(c2.e = e) = 0
          /\ Uno(c.e # e /\ x.esta_en_entrada_salida) = 0
          /\ Uno(c2.e # e /\ y.esta_en_entrada_salida) = 0
          /\ Uno(EnMano(k, e)) \in Int
      BY <2>1 DEF Uno
    <3>2. QED
      BY <1>2, <3>1 DEF Sitios
  <2>3. r + 1 + Uno(c2.e = e) = r + Uno(c.e = e) /\ Uno(y.tarea # SinTarea) = Uno(x.tarea # SinTarea)
    <3>1. Uno(c.e = e) = 1 /\ Uno(c2.e = e) = 0
      BY <2>1 DEF Uno
    <3>2. Uno(y.tarea # SinTarea) = Uno(x.tarea # SinTarea)
      BY <1>10, <2>1 DEF Uno
    <3>3. QED
      BY <1>2, <3>1, <3>2
  <2>4. /\ y.capturados = x.capturados /\ y.buscados = x.buscados /\ y.tarea = x.tarea
        /\ y.id_correlativo_esperado = -1
    BY <1>7, <1>9, <2>1 DEF Quieta, Puesto
  <2>5. QED
    BY <1>9, <1>10, <2>1, <2>2, <2>3, <2>4, Zenon DEF Puesto
<1>15. Todo(u, n, c2, k, i, res, ac)
  <2>1. c2.etapa = c.etapa
    BY DEF SinCpu
  <2>2. QED
    BY <1>4, <1>5, <1>6, <1>12, <1>13, <1>14, <2>1, UnoTodo DEF x
<1>16. QED
  BY <1>8, <1>15 DEF u

LEMMA RafagasTipo ==
  ASSUME NEW n \in Nat, NEW t \in Equipos(n), NEW e \in 1..n
  PROVE  /\ RafagasNecesarias(t, e) \in Int
         /\ RafagasNecesarias(t, e) # 0 => t.entrenadores[e].tarea # SinTarea
<1> DEFINE x == t.entrenadores[e]
           D == Destino(t, e)
<1>1. x \in Fichas(n) /\ x.tarea \in Tareas(n) /\ x.posicion \in Posiciones
      /\ x.rafagas_intercambio \in Int
  <2>1. x \in Fichas(n)
    BY Campos
  <2> HIDE DEF x
  <2>2. QED
    BY <2>1 DEF Fichas
<1>2. CASE x.tarea.tipo_tarea = "NULL"
  BY <1>2 DEF RafagasNecesarias
<1>3. CASE x.tarea.tipo_tarea = "ATRAPAR"
  <2>1. x.tarea.pokemon \in Pokemones
    BY <1>1, <1>3, UnaTarea DEF SinTarea, Intercambios
  <2>2. D \in Posiciones
    BY <1>3, <2>1 DEF Destino, Pokemones
  <2>3. RafagasNecesarias(t, e) = Distancia(x.posicion, D)
    BY <1>3 DEF RafagasNecesarias
  <2> HIDE DEF D
  <2>4. QED
    BY <1>1, <1>3, <2>2, <2>3, DistanciaTipo DEF SinTarea
<1>4. CASE Va(x)
  <2>1. Otro(x) \in 1..n
    BY <1>4, UnOtro
  <2>2. t.entrenadores[Otro(x)] \in Fichas(n)
    BY <2>1, Campos
  <2>3. D = t.entrenadores[Otro(x)].posicion
    BY <1>4 DEF Destino, Va, Otro
  <2>4. D \in Posiciones
    BY <2>2, <2>3 DEF Fichas
  <2>5. RafagasNecesarias(t, e) = Distancia(x.posicion, D) + RafagasIntercambio - x.rafagas_intercambio
    BY <1>4 DEF RafagasNecesarias, Va
  <2> HIDE DEF D, x
  <2>6. Distancia(x.posicion, D) \in Nat
    BY <1>1, <2>4, DistanciaTipo
  <2>7. QED
    BY <1>1, <1>4, <2>5, <2>6 DEF SinTarea, Va, RafagasIntercambio, x
<1>5. QED
  BY <1>1, <1>2, <1>3, <1>4, UnaTarea DEF Va, Intercambios

\* A trainer leaves the ready list.
Saca(t, u, n, e, y) ==
  /\ u \in Equipos(n) /\ u.entrenadores[e] = y
  /\ \A z \in 1..n : z # e => u.entrenadores[z] = t.entrenadores[z]
  /\ u.desocupados = t.desocupados /\ u.objetivos = t.objetivos /\ u.mapa = t.mapa
  /\ \A z \in 1..n : Cantidad(u.ready, z) =
       IF z = e THEN Cantidad(t.ready, z) - 1 ELSE Cantidad(t.ready, z)
LEMMA SacarHace ==
  ASSUME NEW n \in Nat, NEW t \in Equipos(n), t.ready # <<>>,
         NEW e, e = Head(t.ready), NEW y \in Fichas(n), NEW s \in Nat
  PROVE  /\ e \in 1..n /\ Cantidad(t.ready, e) > 0
         /\ Saca(t, [t EXCEPT !.semaforo_ready = s, !.ready = Tail(t.ready),
                              !.entrenadores = [t.entrenadores EXCEPT ![e] = y]], n, e, y)
<1> DEFINE q == t.ready
           w == Tail(q)
           f == [t.entrenadores EXCEPT ![e] = y]
           u == [t EXCEPT !.semaforo_ready = s, !.ready = w, !.entrenadores = f]
<1>1. q \in Seq(1..n) /\ t.entrenadores \in [1..n -> Fichas(n)] /\ q # <<>>
  BY Campos
<1>2. e \in 1..n /\ w \in Seq(1..n)
  <2> HIDE DEF q
  <2>1. Head(q) \in 1..n /\ Tail(q) \in Seq(1..n)
    BY <1>1, CuantosResto
  <2>2. QED
    BY <2>1 DEF q
<1>3. \A z \in 1..n : /\ Cantidad(w, z) = IF z = e THEN Cantidad(q, z) - 1 ELSE Cantidad(q, z)
                      /\ z = e => Cantidad(q, z) > 0
  <2> SUFFICES ASSUME NEW z \in 1..n
               PROVE  /\ Cantidad(w, z) = IF z = e THEN Cantidad(q, z) - 1 ELSE Cantidad(q, z)
                      /\ z = e => Cantidad(q, z) > 0
    OBVIOUS
  <2> DEFINE C == {z}
  <2>1. Bit(e \in C) = IF z = e THEN 1 ELSE 0
    BY DEF Bit
  <2> HIDE DEF q
  <2>2. Cantidad(w, z) = Cuantos(w, C) /\ Cantidad(q, z) = Cuantos(q, C)
        /\ Cantidad(w, z) \in Nat /\ Cantidad(q, z) \in Nat
    BY <1>1, <1>2, CantidadCuantos
  <2> HIDE DEF C
  <2>3. Cuantos(q, C) = Cuantos(w, C) + Bit(Head(q) \in C)
    BY <1>1, CuantosResto
  <2>4. Head(q) = e
    BY DEF q
  <2> HIDE DEF w
  <2>5. QED
    BY <2>1, <2>2, <2>3, <2>4
<1>4. f \in [1..n -> Fichas(n)] /\ f[e] = y /\ \A z \in 1..n : z # e => f[z] = t.entrenadores[z]
  BY <1>1, <1>2
<1> HIDE DEF f, w
<1>5. /\ u \in Equipos(n) /\ u.entrenadores = f /\ u.ready = w
      /\ u.desocupados = t.desocupados /\ u.objetivos = t.objetivos /\ u.mapa = t.mapa
  BY <1>2, <1>4 DEF Equipos
<1> HIDE DEF u
<1>6. Saca(t, u, n, e, y)
  BY <1>3, <1>4, <1>5 DEF Saca, q
<1>7. QED
  BY <1>2, <1>3, <1>6 DEF u, q, f, w

\* The one that was ready runs, or has nothing to do.
Toma(x, c2, i, j, e) ==
  \/ c2.e = e /\ c2.lugar = "rafaga" /\ x.tarea # SinTarea /\ j = i
  \/ c2.e # e /\ j = i \cup {"sin rafagas"}
LEMMA PuestoToma ==
  ASSUME NEW x, NEW y, NEW d \in Nat, NEW r \in Nat, r > 0, NEW c, NEW k, NEW i, NEW e,
         Puesto(x, d, r, c, k, i, e), c.e # e, Quieta(x, y), NEW c2, NEW j,
         Toma(x, c2, i, j, e)
  PROVE  Puesto(y, d, r - 1, c2, k, j, e)
<1>1. ~x.esta_en_entrada_salida /\ (~Lleno(x) => x.tarea # SinTarea)
  <2>1. r # 0
    OBVIOUS
  <2>2. QED
    BY <2>1, Zenon DEF Puesto
<1>2. /\ Lleno(y) <=> Lleno(x)
      /\ Atrapa(y) <=> Atrapa(x)
      /\ y.esta_en_entrada_salida = x.esta_en_entrada_salida /\ y.tarea = x.tarea
      /\ y.capturados = x.capturados /\ y.buscados = x.buscados
      /\ y.id_correlativo_esperado = x.id_correlativo_esperado
  BY DEF Quieta, Lleno, PuedeCapturar, Atrapa
<1>3. x.id_correlativo_esperado = -1
  BY <1>1, Zenon DEF Puesto
<1> DEFINE m == Uno(EnMano(k, e))
<1>4. Sitios(x, d, r, c, k, e) = d + r + m /\ m \in {0, 1}
  BY <1>1 DEF Sitios, Uno
<1>5. CASE c2.e = e /\ c2.lugar = "rafaga" /\ x.tarea # SinTarea /\ j = i
  <2>1. Uno(c2.e = e) = 1 /\ Uno(c.e = e) = 0 /\ Uno(c2.e # e /\ y.esta_en_entrada_salida) = 0
    BY <1>5 DEF Uno
  <2>2. Sitios(y, d, r - 1, c2, k, e) = Sitios(x, d, r, c, k, e)
    BY <1>4, <2>1 DEF Sitios
  <2>3. r - 1 + Uno(c2.e = e) = r + Uno(c.e = e) /\ Uno(y.tarea # SinTarea) = Uno(x.tarea # SinTarea)
    <3>1. Uno(y.tarea # SinTarea) = Uno(x.tarea # SinTarea)
      BY <1>2, <1>5 DEF Uno
    <3>2. QED
      BY <2>1, <3>1
  <2>4. ~(c2.lugar \in {"enviar", "anotar"})
    BY <1>5
  <2>5. QED
    BY <1>1, <1>2, <1>3, <1>5, <2>2, <2>3, <2>4, Zenon DEF Puesto
<1>6. CASE c2.e # e /\ j = i \cup {"sin rafagas"}
  <2>1. Uno(c2.e = e) = 0 /\ Uno(c.e = e) = 0 /\ Uno(c2.e # e /\ y.esta_en_entrada_salida) = 0
    BY <1>1, <1>2, <1>6 DEF Uno
  <2>2. Sitios(y, d, r - 1, c2, k, e) = d + (r - 1) + m
    BY <1>4, <2>1 DEF Sitios
  <2>3. ASSUME ~Lleno(x)
        PROVE  Sitios(y, d, r - 1, c2, k, e) <= 1
    <3>1. d + r + m <= 1
      BY <1>4, <2>3 DEF Puesto
    <3> HIDE DEF m
    <3>2. d + (r - 1) + m <= 1
      BY <1>4, <3>1
    <3>3. QED
      BY <2>2, <3>2
  <2>4. ASSUME Lleno(x), "pisado" \notin i
        PROVE  r - 1 + Uno(c2.e = e) <= Uno(y.tarea # SinTarea)
    <3>1. r + Uno(c.e = e) <= Uno(x.tarea # SinTarea)
      BY <2>4 DEF Puesto
    <3>2. Uno(y.tarea # SinTarea) = Uno(x.tarea # SinTarea) /\ Uno(x.tarea # SinTarea) \in {0, 1}
      BY <1>2 DEF Uno
    <3>3. QED
      BY <2>1, <3>1, <3>2
  <2>5. "sin rafagas" \in j /\ ("pisado" \notin j => "pisado" \notin i)
    BY <1>6
  <2>6. QED
    BY <1>1, <1>2, <1>3, <1>6, <2>3, <2>4, <2>5, Zenon DEF Puesto
<1>7. QED
  BY <1>5, <1>6 DEF Toma

LEMMA TomaTodo ==
  ASSUME NEW n \in Nat, NEW t, NEW u, NEW e \in 1..n, NEW y,
         NEW c, NEW k, NEW i, NEW res, NEW c2, NEW j, NEW ac,
         Todo(t, n, c, k, i, res, ac), c.e = 0, c2.etapa = c.etapa, c2.e \in {0, e},
         Cantidad(t.ready, e) > 0, Saca(t, u, n, e, y), Toma(t.entrenadores[e], c2, i, j, e),
         Quieta(t.entrenadores[e], y),
         y.esperando_intercambio = t.entrenadores[e].esperando_intercambio,
         y.estado \in {t.entrenadores[e].estado, "EXEC"}
  PROVE  Todo(u, n, c2, k, j, res, ac) /\ MismaEspera(t, u, n)
<1> DEFINE x == t.entrenadores[e]
           d == Cantidad(t.desocupados, e)
           r == Cantidad(t.ready, e)
<1>1. /\ t \in Equipos(n) /\ Puestos(t, n, c, k, i) /\ Pares(t, n, i)
  BY DEF Todo, Orden
<1>2. d \in Nat /\ r \in Nat /\ r > 0
  BY <1>1, Campos, CantidadTipo
<1>3. Puesto(x, d, r, c, k, i, e)
  BY <1>1 DEF Puestos
<1>4. Resto(t, u, n, e) /\ u \in Equipos(n) /\ u.mapa = t.mapa /\ u.objetivos = t.objetivos
      /\ u.entrenadores[e] = y /\ Cantidad(u.ready, e) = r - 1 /\ Cantidad(u.desocupados, e) = d
  BY DEF Saca, Resto
<1>5. MismaEspera(t, u, n)
  <2>1. y.esta_en_entrada_salida = x.esta_en_entrada_salida
        /\ y.id_correlativo_esperado = x.id_correlativo_esperado
    BY DEF Quieta
  <2>2. QED
    BY <2>1 DEF MismaEspera, Saca
<1>6. ASSUME "pisado" \notin i
      PROVE  ~x.esperando_intercambio
  <2> SUFFICES ASSUME x.esperando_intercambio
               PROVE  FALSE
    OBVIOUS
  <2>1. x.tarea = SinTarea
    BY <1>1, <1>6, ConTareaNoEspera
  <2> HIDE DEF x, d, r
  <2>2. Lleno(x)
    <3>1. r # 0
      BY <1>2
    <3>2. QED
      BY <1>3, <2>1, <3>1, Zenon DEF Puesto
  <2>3. r = 0
    BY <1>2, <1>3, <1>6, <2>1, <2>2, EnNingunLado
  <2>4. QED
    BY <1>2, <2>3
<1>7. Va(x) => x.estado \in {"READY", "EXEC"}
  BY <1>1 DEF Pares, Par
<1>8. i \subseteq j /\ ("pisado" \in j => "pisado" \in i)
  BY DEF Toma
<1>9. c.e # e /\ Quieta(x, y) /\ Toma(x, c2, i, j, e)
  OBVIOUS
<1>10. OtrasManos(c, k, c2, k, n, e) /\ MismoReponer(k, k)
  <2>1. \A z \in 1..n : z # e => c.e # z /\ c2.e # z
    OBVIOUS
  <2>2. QED
    BY <2>1 DEF OtrasManos, Manos, MismoReponer
<1>11. y.estado \in {x.estado, "EXEC"} /\ y.esperando_intercambio = x.esperando_intercambio
  OBVIOUS
<1> HIDE DEF x, d, r
<1>12. Puesto(y, d, r - 1, c2, k, j, e)
  BY <1>2, <1>3, <1>9, PuestoToma
<1>13. MismaCaptura(x, y) /\ Avanza(x, y) /\ Parecido(x, y, j)
  BY <1>6, <1>7, <1>8, <1>9, <1>11
     DEF MismaCaptura, Avanza, Quieta, Atrapa, Lleno, PuedeCapturar, Va, Parecido
<1>14. Todo(u, n, c2, k, j, res, ac)
  BY <1>4, <1>8, <1>10, <1>12, <1>13, UnoTodo DEF x
<1>15. QED
  BY <1>5, <1>14

\* While a trainer is after a pokemon the loop is the first one.
LEMMA AtrapaEnPrimera ==
  ASSUME NEW n \in Nat, NEW t, NEW c, c.etapa \in {1, 2}, NEW k, NEW i, NEW res, NEW ac, NEW e \in 1..n,
         Todo(t, n, c, k, i, res, ac), Atrapa(t.entrenadores[e])
  PROVE  /\ c.etapa = 1 /\ "pisado" \notin i /\ res = 0
         /\ ~Lleno(t.entrenadores[e]) /\ ~Va(t.entrenadores[e])
         /\ ~t.entrenadores[e].esperando_intercambio
<1>1. Puestos(t, n, c, k, i) /\ Fases(t, n, c, i, res)
  BY DEF Todo, Orden
<1>2. ~Lleno(t.entrenadores[e])
  BY <1>1, Zenon DEF Puestos, Puesto
<1>3. c.etapa = 1
  BY <1>1, <1>2 DEF Fases
<1>4. QED
  BY <1>1, <1>2, <1>3 DEF Fases

\* The pokemon is reached.
Bloqueada(x) == [x EXCEPT !.estado = "BLOCK", !.esta_en_entrada_salida = TRUE]
MasEspera(t, u, n) ==
  \A z \in 1..n :
    /\ t.entrenadores[z].esta_en_entrada_salida => u.entrenadores[z].esta_en_entrada_salida
    /\ u.entrenadores[z].id_correlativo_esperado = t.entrenadores[z].id_correlativo_esperado
LEMMA BloquearTodo ==
  ASSUME NEW n \in Nat, NEW t, NEW c, NEW k, NEW i, NEW res, NEW ac, NEW e \in 1..n, NEW c2,
         Todo(t, n, c, k, i, res, ac), c.e = e, c.lugar = "rafaga", c.etapa \in {1, 2},
         Atrapa(t.entrenadores[e]), c2.e = e, c2.lugar = "enviar", c2.etapa = c.etapa
  PROVE  /\ Todo(Pon(t, e, Bloqueada(t.entrenadores[e])), n, c2, k, i, res, ac)
         /\ MasEspera(t, Pon(t, e, Bloqueada(t.entrenadores[e])), n)
<1> DEFINE x == t.entrenadores[e]
           y == Bloqueada(x)
           u == Pon(t, e, y)
           d == Cantidad(t.desocupados, e)
           r == Cantidad(t.ready, e)
<1>1. /\ t \in Equipos(n) /\ Puestos(t, n, c, k, i) /\ Pares(t, n, i)
  BY DEF Todo, Orden
<1>2. x \in Fichas(n) /\ d \in Nat /\ r \in Nat
  BY <1>1, Campos, CantidadTipo
<1>3. Puesto(x, d, r, c, k, i, e)
  BY <1>1 DEF Puestos
<1>4. ~Lleno(x) /\ ~Va(x) /\ ~x.esperando_intercambio
  BY AtrapaEnPrimera
<1> HIDE DEF x
<1>5. /\ y \in Fichas(n) /\ y.tarea = x.tarea /\ y.capturados = x.capturados
      /\ y.buscados = x.buscados /\ y.esta_en_entrada_salida
      /\ y.id_correlativo_esperado = x.id_correlativo_esperado
      /\ y.esperando_intercambio = x.esperando_intercambio
  BY <1>2 DEF Fichas, Bloqueada
<1> HIDE DEF y
<1>6. Ponen(t, u, n, e, y)
  BY <1>1, <1>5, PonHace
<1> HIDE DEF u
<1>7. Resto(t, u, n, e) /\ u \in Equipos(n) /\ u.mapa = t.mapa /\ u.objetivos = t.objetivos
      /\ u.entrenadores[e] = y /\ Cantidad(u.ready, e) = r /\ Cantidad(u.desocupados, e) = d
  BY <1>6 DEF Ponen, Resto
<1>8. OtrasManos(c, k, c2, k, n, e) /\ MismoReponer(k, k)
  BY DEF OtrasManos, Manos, MismoReponer
<1> HIDE DEF d, r
<1>9. MismaCaptura(x, y) /\ Avanza(x, y) /\ Parecido(x, y, i)
  BY <1>4, <1>5 DEF MismaCaptura, Avanza, Atrapa, Lleno, PuedeCapturar, Va, Parecido
<1>10. Puesto(y, d, r, c2, k, i, e)
  <2>1. /\ Lleno(y) <=> Lleno(x)
        /\ Atrapa(y) <=> Atrapa(x)
    BY <1>5 DEF Lleno, PuedeCapturar, Atrapa
  <2>2. Sitios(y, d, r, c2, k, e) = Sitios(x, d, r, c, k, e)
    BY DEF Sitios, Uno
  <2>3. Sitios(x, d, r, c, k, e) <= 1
    BY <1>3, <1>4 DEF Puesto
  <2>4. r = 0 /\ x.id_correlativo_esperado = -1
    <3>1. d + r + 1 + Uno(EnMano(k, e)) <= 1 /\ Uno(EnMano(k, e)) \in {0, 1}
      BY <1>2, <2>3 DEF Sitios, Uno
    <3> DEFINE m == Uno(EnMano(k, e))
    <3>2. d + r + 1 + m <= 1 /\ m \in {0, 1}
      BY <3>1
    <3> HIDE DEF m
    <3>3. r = 0
      BY <1>2, <3>2
    <3>4. x.id_correlativo_esperado = -1
      BY <1>3, Zenon DEF Puesto
    <3>5. QED
      BY <3>3, <3>4
  <2>5. Atrapa(x) /\ ~Lleno(x) /\ c2.lugar # "rafaga"
    BY <1>4 DEF x
  <2>6. QED
    BY <1>3, <1>5, <2>1, <2>2, <2>4, <2>5, Zenon DEF Puesto
<1>11. Todo(u, n, c2, k, i, res, ac)
  BY <1>7, <1>8, <1>9, <1>10, UnoTodo DEF x
<1>12. \A z \in 1..n : /\ t.entrenadores[z].esta_en_entrada_salida => u.entrenadores[z].esta_en_entrada_salida
                       /\ u.entrenadores[z].id_correlativo_esperado = t.entrenadores[z].id_correlativo_esperado
  BY <1>5, <1>6 DEF Ponen, x
<1>13. QED
  BY <1>11, <1>12 DEF u, y, x, MasEspera

\* The id of the answer is written down, and the cpu is free.
Anotada(x, v) == [x EXCEPT !.id_correlativo_esperado = v]
LEMMA AnotarTodo ==
  ASSUME NEW n \in Nat, NEW t, NEW c, NEW k, NEW i, NEW res, NEW ac, NEW e \in 1..n, NEW c2,
         Todo(t, n, c, k, i, res, ac), c.e = e, c.lugar = "anotar", c.id \in Int, SinCpu(c, c2)
  PROVE  /\ Todo(Pon(t, e, Anotada(t.entrenadores[e], c.id)), n, c2, k, i, res, ac)
         /\ SigueEsperando(t, n, c, Pon(t, e, Anotada(t.entrenadores[e], c.id)), c2)
<1> DEFINE x == t.entrenadores[e]
           y == Anotada(x, c.id)
           u == Pon(t, e, y)
           d == Cantidad(t.desocupados, e)
           r == Cantidad(t.ready, e)
<1>1. /\ t \in Equipos(n) /\ Puestos(t, n, c, k, i) /\ Pares(t, n, i)
  BY DEF Todo, Orden
<1>2. x \in Fichas(n) /\ d \in Nat /\ r \in Nat
  BY <1>1, Campos, CantidadTipo
<1>3. Puesto(x, d, r, c, k, i, e)
  BY <1>1 DEF Puestos
<1>4. Va(x) => x.estado \in {"READY", "EXEC"}
  BY <1>1 DEF Pares, Par
<1>5. x.esperando_intercambio /\ "pisado" \notin i => x.estado = "BLOCK"
  BY <1>1 DEF Pares
<1> HIDE DEF x
<1>6. /\ y \in Fichas(n) /\ y.tarea = x.tarea /\ y.capturados = x.capturados
      /\ y.buscados = x.buscados /\ y.esta_en_entrada_salida = x.esta_en_entrada_salida
      /\ y.id_correlativo_esperado = c.id /\ y.estado = x.estado
      /\ y.esperando_intercambio = x.esperando_intercambio
  BY <1>2 DEF Fichas, Anotada
<1> HIDE DEF y
<1>7. Ponen(t, u, n, e, y)
  BY <1>1, <1>6, PonHace
<1> HIDE DEF u
<1>8. Resto(t, u, n, e) /\ u \in Equipos(n) /\ u.mapa = t.mapa /\ u.objetivos = t.objetivos
      /\ u.entrenadores[e] = y /\ Cantidad(u.ready, e) = r /\ Cantidad(u.desocupados, e) = d
  BY <1>7 DEF Ponen, Resto
<1>9. OtrasManos(c, k, c2, k, n, e) /\ MismoReponer(k, k)
  BY OtrasSinCpu
<1> HIDE DEF d, r
<1>10. MismaCaptura(x, y) /\ Avanza(x, y) /\ Parecido(x, y, i)
  BY <1>4, <1>5, <1>6 DEF MismaCaptura, Avanza, Atrapa, Lleno, PuedeCapturar, Va, Parecido
<1>11. x.esta_en_entrada_salida /\ x.id_correlativo_esperado = -1 /\ Atrapa(x)
  <2>1. c.lugar \in {"enviar", "anotar"} /\ c.e = e
    OBVIOUS
  <2>2. x.esta_en_entrada_salida
    BY <1>3, <2>1, Zenon DEF Puesto
  <2>3. QED
    BY <1>3, <2>1, <2>2, Zenon DEF Puesto
<1>12. Puesto(y, d, r, c2, k, i, e)
  <2>1. /\ Lleno(y) <=> Lleno(x)
        /\ Atrapa(y) <=> Atrapa(x)
    BY <1>6 DEF Lleno, PuedeCapturar, Atrapa
  <2>2. c2.e # e /\ c2.lugar = "evaluar"
    BY DEF SinCpu
  <2>3. Sitios(y, d, r, c2, k, e) = Sitios(x, d, r, c, k, e)
    <3>1. Uno(c.e = e) = 1 /\ Uno(c2.e = e) = 0
          /\ Uno(c.e # e /\ x.esta_en_entrada_salida) = 0
          /\ Uno(c2.e # e /\ y.esta_en_entrada_salida) = 1
      BY <1>6, <1>11, <2>2 DEF Uno
    <3> DEFINE m == Uno(EnMano(k, e))
    <3>2. m \in Int
      BY DEF Uno
    <3>3. Sitios(y, d, r, c2, k, e) = d + r + 0 + 1 + m /\ Sitios(x, d, r, c, k, e) = d + r + 1 + 0 + m
      BY <3>1 DEF Sitios
    <3> HIDE DEF m
    <3>4. QED
      BY <1>2, <3>2, <3>3
  <2>4. ~Lleno(x) /\ r = 0
    BY <1>3, <1>11, Zenon DEF Puesto
  <2>5. QED
    BY <1>3, <1>6, <1>11, <2>1, <2>2, <2>3, <2>4, Zenon DEF Puesto
<1>13. Todo(u, n, c2, k, i, res, ac)
  <2>1. c2.etapa = c.etapa
    BY DEF SinCpu
  <2>2. QED
    BY <1>8, <1>9, <1>10, <1>12, <2>1, UnoTodo DEF x
<1>14. SigueEsperando(t, n, c, u, c2)
  <2> SUFFICES ASSUME NEW v \in Int, v # -1, Espera1(t, n, c, v)
               PROVE  Espera1(u, n, c2, v)
    BY DEF SigueEsperando
  <2>1. CASE c.lugar = "anotar" /\ c.id = v
    <3>1. u.entrenadores[e].esta_en_entrada_salida /\ u.entrenadores[e].id_correlativo_esperado = v
      BY <1>6, <1>8, <1>11, <2>1
    <3>2. QED
      BY <3>1 DEF Espera1
  <2>2. ASSUME NEW z \in 1..n, t.entrenadores[z].esta_en_entrada_salida,
               t.entrenadores[z].id_correlativo_esperado = v
        PROVE  Espera1(u, n, c2, v)
    <3>1. z # e
      BY <1>11, <2>2 DEF x
    <3>2. u.entrenadores[z] = t.entrenadores[z]
      BY <1>8, <3>1 DEF Resto
    <3>3. QED
      BY <2>2, <3>2 DEF Espera1
  <2>3. QED
    BY <2>1, <2>2 DEF Espera1
<1>15. QED
  BY <1>13, <1>14 DEF u, y, x

\* The pokemon of a task is caught.
Captura(x, y) ==
  /\ y.capturados = Append(x.capturados, x.tarea.pokemon.especie) /\ y.buscados = x.buscados
  /\ y.tarea = SinTarea /\ ~y.esta_en_entrada_salida /\ y.id_correlativo_esperado = -1
  /\ y.esperando_intercambio = x.esperando_intercambio
Suelta(d, d2, y, k2, e) ==
  /\ Lleno(y) => d2 = d /\ ~EnMano(k2, e)
  /\ ~Lleno(y) => /\ d2 + Uno(EnMano(k2, e)) = d + 1
                  /\ ~(k2.que = "cerrar" /\ k2.e = e)

LEMMA PuestoCaptura ==
  ASSUME NEW n, NEW x \in Fichas(n), NEW y, NEW d \in Nat, NEW r \in Nat, NEW d2 \in Nat,
         NEW c, NEW k, NEW i, NEW e, NEW c2, NEW k2,
         Puesto(x, d, r, c, k, i, e), Atrapa(x), c.e = e \/ x.esta_en_entrada_salida,
         Captura(x, y), c2.e # e, Suelta(d, d2, y, k2, e)
  PROVE  Puesto(y, d2, r, c2, k2, i, e)
<1>1. ~Lleno(x) /\ d = 0 /\ ~EnMano(k, e) /\ Sitios(x, d, r, c, k, e) <= 1
  BY Zenon DEF Puesto
<1>2. r = 0
  <2>1. /\ Uno(c.e = e) + Uno(c.e # e /\ x.esta_en_entrada_salida) = 1
        /\ Uno(EnMano(k, e)) = 0 /\ Uno(c.e = e) \in {0, 1}
        /\ Uno(c.e # e /\ x.esta_en_entrada_salida) \in {0, 1}
    BY <1>1 DEF Uno
  <2> DEFINE a == Uno(c.e = e)
             b == Uno(c.e # e /\ x.esta_en_entrada_salida)
             m == Uno(EnMano(k, e))
  <2>2. a + b = 1 /\ m = 0 /\ a \in {0, 1} /\ b \in {0, 1} /\ d + r + a + b + m <= 1
    BY <1>1, <2>1 DEF Sitios
  <2> HIDE DEF a, b, m
  <2>3. QED
    BY <2>2
<1>3. Len(y.capturados) <= Len(y.buscados)
  <2> DEFINE s == x.capturados
             z == x.tarea.pokemon.especie
  <2>1. s \in Seq(Especies) /\ x.buscados \in Seq(Especies) /\ z \in Especies
    <3>1. x.tarea \in Tareas(n)
      BY DEF Fichas
    <3>2. x.tarea.pokemon \in Pokemones
      BY <3>1, UnaTarea DEF Atrapa, SinTarea, Intercambios
    <3>3. QED
      BY <3>2 DEF Fichas, Pokemones
  <2>2. Len(s) \in Nat /\ Len(x.buscados) \in Nat
    BY <2>1, LenProperties
  <2>3. Len(Append(s, z)) = Len(s) + 1
    BY <2>1, AppendProperties
  <2>4. Len(s) < Len(x.buscados)
    BY <1>1, <2>2 DEF Lleno, PuedeCapturar
  <2>5. y.capturados = Append(s, z) /\ y.buscados = x.buscados
    BY DEF Captura
  <2> HIDE DEF s, z
  <2>6. QED
    BY <2>2, <2>3, <2>4, <2>5
<1>4. ~Atrapa(y) /\ y.tarea = SinTarea /\ ~y.esta_en_entrada_salida /\ y.id_correlativo_esperado = -1
  BY DEF Captura, Atrapa, SinTarea
<1>5. Uno(c2.e = e) = 0 /\ Uno(c2.e # e /\ y.esta_en_entrada_salida) = 0 /\ Uno(y.tarea # SinTarea) = 0
      /\ Uno(EnMano(k2, e)) \in {0, 1}
  BY <1>4 DEF Uno
<1>6. Sitios(y, d2, r, c2, k2, e) = d2 + Uno(EnMano(k2, e))
  BY <1>2, <1>5 DEF Sitios
<1>7. CASE Lleno(y)
  <2>1. d2 = 0 /\ ~EnMano(k2, e)
    BY <1>1, <1>7 DEF Suelta
  <2>2. r + Uno(c2.e = e) = Uno(y.tarea # SinTarea) /\ r + Uno(c2.e = e) <= Uno(y.tarea # SinTarea)
        /\ ~(d2 > 0)
    BY <1>2, <1>5, <2>1
  <2>3. QED
    BY <1>2, <1>3, <1>4, <1>7, <2>1, <2>2, Zenon DEF Puesto
<1>8. CASE ~Lleno(y)
  <2>1. Sitios(y, d2, r, c2, k2, e) = 1 /\ ~(k2.que = "cerrar" /\ k2.e = e)
    BY <1>1, <1>6, <1>8 DEF Suelta
  <2>2. Sitios(y, d2, r, c2, k2, e) <= 1
    BY <2>1
  <2>3. QED
    BY <1>2, <1>3, <1>4, <1>8, <2>1, <2>2, Zenon DEF Puesto
<1>9. QED
  BY <1>7, <1>8

LEMMA TareaDeCaptura ==
  ASSUME NEW n, NEW x \in Fichas(n), Atrapa(x)
  PROVE  x.tarea.pokemon \in Pokemones /\ x.tarea.pokemon.especie \in Especies
<1>1. x.tarea \in Tareas(n)
  BY DEF Fichas
<1>2. x.tarea.pokemon \in Pokemones
  BY <1>1, UnaTarea DEF Atrapa, SinTarea, Intercambios
<1>3. QED
  BY <1>2 DEF Pokemones

LEMMA CuentasCaptura ==
  ASSUME NEW n \in Nat, NEW t \in Equipos(n), NEW u \in Equipos(n), NEW e \in 1..n,
         NEW k, NEW k2, NEW ac, Cuentas(t, n, k, ac), Atrapa(t.entrenadores[e]),
         Captura(t.entrenadores[e], u.entrenadores[e]),
         Resto(t, u, n, e), u.mapa = t.mapa, u.objetivos = t.objetivos, MismoReponer(k, k2)
  PROVE  Cuentas(u, n, k2, ac)
<1> SUFFICES ASSUME NEW s \in Especies
             PROVE  /\ EnMapa(u, s) + EnTareas(u, n, s) + EspecieCapturada(u, s) = ac[s]
                    /\ Cantidad(u.objetivos, s) + EnTareas(u, n, s)
                         + Uno(k2.que = "reponer" /\ k2.especie = s)
                         >= EspecieBuscada(u, s) - EspecieCapturada(u, s)
  BY DEF Cuentas
<1> DEFINE x == t.entrenadores[e]
           y == u.entrenadores[e]
           z == x.tarea.pokemon.especie
           w == Bit(z = s)
           m == EnMapa(t, s)
           t1 == EnTareas(t, n, s)
           t2 == EnTareas(u, n, s)
           o == Cantidad(t.objetivos, s)
           c1 == EspecieCapturada(t, s)
           c2 == EspecieCapturada(u, s)
           b == EspecieBuscada(t, s)
           h == Uno(k.que = "reponer" /\ k.especie = s)
<1>1. m \in Nat /\ t1 \in Nat /\ o \in Nat /\ c1 \in Nat /\ b \in Nat /\ c2 \in Nat /\ t2 \in Nat
  BY CuentasTipo
<1>2. h \in {0, 1} /\ w \in {0, 1}
  BY DEF Uno, Bit
<1>3. m + t1 + c1 = ac[s] /\ o + t1 + h >= b - c1
  BY DEF Cuentas
<1>4. EnMapa(u, s) = m /\ Cantidad(u.objetivos, s) = o
  BY DEF EnMapa
<1>5. Uno(k2.que = "reponer" /\ k2.especie = s) = h
  BY DEF Uno, MismoReponer
<1>6. EspecieBuscada(u, s) = b
  <2>1. MismosPedidos(t, u, n)
    BY DEF MismosPedidos, Resto, Captura
  <2>2. QED
    BY <2>1, CuentasIguales
<1>7. t2 + w = t1
  <2>1. SoloTarea(t, u, n, e)
    BY DEF SoloTarea, Resto
  <2>2. t2 + Peso(t, e, s) = t1 + Peso(u, e, s)
    BY <2>1, EnTareasCambio
  <2>3. Peso(t, e, s) = w
    BY DEF Peso, VaPor, Atrapa, Bit
  <2>4. Peso(u, e, s) = 0
    BY DEF Peso, VaPor, Captura, SinTarea
  <2> HIDE DEF w, t1, t2
  <2>5. QED
    BY <1>1, <1>2, <2>2, <2>3, <2>4
<1>8. c2 = c1 + w
  <2> DEFINE q == x.capturados
             C == {s}
  <2>1. SoloBolsillo(t, u, n, e)
    BY DEF SoloBolsillo, Resto
  <2>2. c2 + Cantidad(q, s) = c1 + Cantidad(y.capturados, s)
    BY <2>1, CapturadaCambio
  <2>3. x \in Fichas(n)
    BY Campos
  <2>4. q \in Seq(Especies) /\ z \in Especies
    BY <2>3, TareaDeCaptura DEF Fichas
  <2>5. y.capturados = Append(q, z)
    BY DEF Captura
  <2>6. Bit(z \in C) = w
    BY DEF Bit
  <2> HIDE DEF q, z, w, c1, c2
  <2>7. Append(q, z) \in Seq(Especies) /\ Cuantos(Append(q, z), C) = Cuantos(q, C) + Bit(z \in C)
    <3> HIDE DEF C
    <3>1. QED
      BY <2>4, CuantosAgregar
  <2>8. /\ Cantidad(q, s) = Cuantos(q, C) /\ Cantidad(q, s) \in Nat
        /\ Cantidad(Append(q, z), s) = Cuantos(Append(q, z), C)
    BY <2>4, <2>7, CantidadCuantos
  <2> HIDE DEF C
  <2>9. QED
    BY <1>1, <1>2, <2>2, <2>5, <2>6, <2>7, <2>8
<1> HIDE DEF m, t1, t2, o, c1, c2, b, h, w
<1>9. m + t2 + c2 = ac[s] /\ o + t2 + h >= b - c2
  BY <1>1, <1>2, <1>3, <1>7, <1>8
<1>10. QED
  BY <1>4, <1>5, <1>6, <1>9 DEF t2, c2

\* A capture, whoever writes it down.
LEMMA CapturaTodo ==
  ASSUME NEW n \in Nat, NEW t, NEW u \in Equipos(n), NEW e \in 1..n,
         NEW c, NEW k, NEW i, NEW res, NEW ac, NEW c2, NEW k2,
         Todo(t, n, c, k, i, res, ac), c.etapa \in {1, 2}, c2.etapa = c.etapa,
         Atrapa(t.entrenadores[e]), c.e = e \/ t.entrenadores[e].esta_en_entrada_salida,
         Captura(t.entrenadores[e], u.entrenadores[e]), Resto(t, u, n, e),
         Cantidad(u.ready, e) = Cantidad(t.ready, e), u.mapa = t.mapa, u.objetivos = t.objetivos,
         c2.e # e, Suelta(Cantidad(t.desocupados, e), Cantidad(u.desocupados, e),
                          u.entrenadores[e], k2, e),
         OtrasManos(c, k, c2, k2, n, e), MismoReponer(k, k2)
  PROVE  Todo(u, n, c2, k2, i, res, ac)
<1> DEFINE x == t.entrenadores[e]
           y == u.entrenadores[e]
           d == Cantidad(t.desocupados, e)
           d2 == Cantidad(u.desocupados, e)
           r == Cantidad(t.ready, e)
<1>1. /\ t \in Equipos(n) /\ Puestos(t, n, c, k, i) /\ Orden(t, n, c, k, i, res)
      /\ Cuentas(t, n, k, ac)
  BY DEF Todo, Orden
<1>2. x \in Fichas(n) /\ d \in Nat /\ r \in Nat /\ d2 \in Nat
  BY <1>1, Campos, CantidadTipo
<1>3. Puesto(x, d, r, c, k, i, e)
  BY <1>1 DEF Puestos
<1>4. ~Lleno(x) /\ ~Va(x) /\ ~x.esperando_intercambio
  BY AtrapaEnPrimera
<1>5. Cuentas(u, n, k2, ac)
  BY <1>1, CuentasCaptura
<1>6. Cantidad(u.ready, e) = r /\ Captura(x, y) /\ Suelta(d, d2, y, k2, e) /\ Atrapa(x)
      /\ (c.e = e \/ x.esta_en_entrada_salida)
  OBVIOUS
<1> HIDE DEF x, y, d, d2, r
<1>7. Puesto(y, d2, r, c2, k2, i, e)
  BY <1>2, <1>3, <1>6, PuestoCaptura
<1>8. Avanza(x, y) /\ Parecido(x, y, i)
  BY <1>4, <1>6 DEF Avanza, Captura, Va, Parecido, SinTarea
<1>9. Orden(u, n, c2, k2, i, res)
  BY <1>1, <1>6, <1>7, <1>8, OrdenCambia DEF x, y, d2
<1>10. QED
  BY <1>5, <1>9 DEF Todo

LEMMA AtrapadoHace ==
  ASSUME NEW n \in Nat, NEW t \in Equipos(n), NEW e \in 1..n, Atrapa(t.entrenadores[e])
  PROVE  \E y \in Fichas(n) : Atrapado(t, e) = Pon(t, e, y) /\ Captura(t.entrenadores[e], y)
<1> DEFINE x == t.entrenadores[e]
           q == Append(x.capturados, x.tarea.pokemon.especie)
           y == [x EXCEPT !.capturados = q, !.tarea = SinTarea, !.esta_en_entrada_salida = FALSE,
                          !.id_correlativo_esperado = -1]
<1>1. x \in Fichas(n)
  BY Campos
<1>2. Atrapado(t, e) = Pon(t, e, y)
  <2>1. Atrapado(t, e) = [t EXCEPT !.entrenadores[e] = y]
    BY DEF Atrapado
  <2> HIDE DEF y
  <2>2. QED
    BY <2>1 DEF Pon
<1> HIDE DEF x
<1>3. q \in Seq(Especies)
  <2>1. x.capturados \in Seq(Especies)
    BY <1>1 DEF Fichas
  <2>2. x.tarea.pokemon.especie \in Especies
    BY <1>1, TareaDeCaptura DEF x
  <2>3. QED
    BY <2>1, <2>2, AppendProperties
<1> DEFINE q1 == q
<1>4. q1 \in Seq(Especies) /\ q1 = Append(x.capturados, x.tarea.pokemon.especie)
  BY <1>3
<1>5. y = [x EXCEPT !.capturados = q1, !.tarea = SinTarea, !.esta_en_entrada_salida = FALSE,
                    !.id_correlativo_esperado = -1]
  OBVIOUS
<1> HIDE DEF q1, q, y
<1>6. SinTarea \in Tareas(n)
  BY DEF Tareas
<1>7. y \in Fichas(n) /\ y.capturados = q1 /\ y.buscados = x.buscados /\ y.tarea = SinTarea
      /\ y.esta_en_entrada_salida = FALSE /\ y.id_correlativo_esperado = -1
      /\ y.esperando_intercambio = x.esperando_intercambio
  <2>1. y \in Fichas(n)
    <3> DEFINE st == SinTarea
    <3>1. st \in Tareas(n) /\ FALSE \in BOOLEAN /\ -1 \in Int
      BY <1>6
    <3>2. y = [x EXCEPT !.capturados = q1, !.tarea = st, !.esta_en_entrada_salida = FALSE,
                        !.id_correlativo_esperado = -1]
      BY <1>5
    <3> HIDE DEF st
    <3>3. QED
      BY <1>1, <1>4, <3>1, <3>2 DEF Fichas
  <2>2. y.capturados = q1 /\ y.buscados = x.buscados /\ y.tarea = SinTarea
    BY <1>1, <1>5 DEF Fichas
  <2>3. y.esta_en_entrada_salida = FALSE /\ y.id_correlativo_esperado = -1
        /\ y.esperando_intercambio = x.esperando_intercambio
    BY <1>1, <1>5 DEF Fichas
  <2>4. QED
    BY <2>1, <2>2, <2>3
<1>8. Captura(x, y)
  BY <1>4, <1>7 DEF Captura
<1>9. QED
  BY <1>2, <1>7, <1>8 DEF x

\* Only the state is written.
MenosEstado(x, y) ==
  /\ y.capturados = x.capturados /\ y.buscados = x.buscados /\ y.tarea = x.tarea
  /\ y.esta_en_entrada_salida = x.esta_en_entrada_salida
  /\ y.id_correlativo_esperado = x.id_correlativo_esperado
  /\ y.esperando_intercambio = x.esperando_intercambio
LEMMA EstadoHace ==
  ASSUME NEW n \in Nat, NEW t \in Equipos(n), NEW e \in 1..n,
         NEW v \in {"NEW", "READY", "EXEC", "BLOCK", "EXIT"}
  PROVE  \E y \in Fichas(n) : /\ [t EXCEPT !.entrenadores[e].estado = v] = Pon(t, e, y)
                              /\ MenosEstado(t.entrenadores[e], y) /\ y.estado = v
<1> DEFINE x == t.entrenadores[e]
           y == [x EXCEPT !.estado = v]
<1>1. x \in Fichas(n)
  BY Campos
<1>2. [t EXCEPT !.entrenadores[e].estado = v] = Pon(t, e, y)
  BY DEF Pon
<1> HIDE DEF x
<1>3. y \in Fichas(n) /\ MenosEstado(x, y) /\ y.estado = v
  BY <1>1 DEF Fichas, MenosEstado
<1> HIDE DEF y
<1>4. QED
  BY <1>2, <1>3 DEF x

\* One trainer's record is written after another one.
LEMMA PonenPonen ==
  ASSUME NEW n, NEW t, NEW u, NEW w, NEW e, NEW y, NEW z,
         Ponen(t, u, n, e, y), Ponen(u, w, n, e, z)
  PROVE  Ponen(t, w, n, e, z)
BY DEF Ponen

\* A trainer is idle again.
Ocioso(t, e) == [t EXCEPT !.desocupados = Append(@, e)]
LEMMA OciosoHace ==
  ASSUME NEW n \in Nat, NEW t \in Equipos(n), NEW e \in 1..n, NEW u, u = Ocioso(t, e)
  PROVE  /\ u \in Equipos(n) /\ u.entrenadores = t.entrenadores /\ u.ready = t.ready
         /\ u.objetivos = t.objetivos /\ u.mapa = t.mapa
         /\ \A z \in 1..n : Cantidad(u.desocupados, z) =
              IF z = e THEN Cantidad(t.desocupados, z) + 1 ELSE Cantidad(t.desocupados, z)
<1> DEFINE q == t.desocupados
           w == Append(q, e)
<1>1. q \in Seq(1..n)
  BY Campos
<1>2. w \in Seq(1..n)
  BY <1>1, AppendProperties
<1>3. \A z \in 1..n : Cantidad(w, z) = IF z = e THEN Cantidad(q, z) + 1 ELSE Cantidad(q, z)
  <2> SUFFICES ASSUME NEW z \in 1..n
               PROVE  Cantidad(w, z) = IF z = e THEN Cantidad(q, z) + 1 ELSE Cantidad(q, z)
    OBVIOUS
  <2> DEFINE C == {z}
  <2>1. Bit(e \in C) = IF z = e THEN 1 ELSE 0
    BY DEF Bit
  <2> HIDE DEF q
  <2>2. Cantidad(w, z) = Cuantos(w, C) /\ Cantidad(q, z) = Cuantos(q, C) /\ Cantidad(q, z) \in Nat
    BY <1>1, <1>2, CantidadCuantos
  <2> HIDE DEF C
  <2>3. Cuantos(w, C) = Cuantos(q, C) + Bit(e \in C)
    BY <1>1, CuantosAgregar
  <2> HIDE DEF w
  <2>4. QED
    BY <2>1, <2>2, <2>3
<1>4. u = [t EXCEPT !.desocupados = w]
  BY DEF Ocioso
<1> HIDE DEF w
<1>5. /\ u \in Equipos(n) /\ u.entrenadores = t.entrenadores /\ u.ready = t.ready
      /\ u.objetivos = t.objetivos /\ u.mapa = t.mapa /\ u.desocupados = w
  BY <1>2, <1>4 DEF Equipos
<1>6. QED
  BY <1>3, <1>5 DEF q

LEMMA SigueMas ==
  ASSUME NEW n, NEW t, NEW c, NEW u, NEW c2, NEW w,
         SigueEsperando(t, n, c, u, c2), MismaEspera(u, w, n)
  PROVE  SigueEsperando(t, n, c, w, c2)
BY DEF SigueEsperando, MismaEspera, Espera1

\* Nobody else waits for less when the one that runs stops.
LEMMA SigueResto ==
  ASSUME NEW n, NEW t, NEW u, NEW e, NEW c, NEW c2, Resto(t, u, n, e),
         c.lugar # "anotar", ~t.entrenadores[e].esta_en_entrada_salida
  PROVE  SigueEsperando(t, n, c, u, c2)
BY DEF SigueEsperando, Resto, Espera1

LEMMA DescansaTodo ==
  ASSUME NEW n \in Nat, NEW t, NEW c, NEW k, NEW i, NEW res, NEW ac,
         Todo(t, n, c, k, i, res, ac), cpu.e \in 1..n, cpu.i \in Int
  PROVE  Todo(Descansa(t), n, c, k, i, res, ac) /\ MismaEspera(t, Descansa(t), n)
<1>1. CASE t.planificador \in {"SJF_CD", "SJF_SD"}
  <2>1. Descansa(t) = ActualizarEstimados(t, cpu.e, cpu.i)
    BY <1>1 DEF Descansa
  <2>2. QED
    BY <2>1, EstimarTodo
<1>2. CASE t.planificador \notin {"SJF_CD", "SJF_SD"}
  <2>1. Descansa(t) = t
    BY <1>2 DEF Descansa
  <2>2. QED
    BY <2>1, Igualdad
<1>3. QED
  BY <1>1, <1>2

\* The pokemon of the one that runs is caught by default.
PorDefault(t, e) ==
  LET u == Atrapado(t, e)
  IN  IF PuedeCapturar(u.entrenadores[e])
      THEN Desocupar([u EXCEPT !.entrenadores[e].estado = "BLOCK"], e) ELSE ExitOBlock(u, e)

ConEstado(t, e, v) == [t EXCEPT !.entrenadores[e].estado = v]
LEMMA CapturaEstado ==
  ASSUME NEW n \in Nat, NEW t \in Equipos(n), NEW e \in 1..n, Atrapa(t.entrenadores[e]),
         NEW v \in {"NEW", "READY", "EXEC", "BLOCK", "EXIT"},
         NEW w, w = ConEstado(Atrapado(t, e), e, v)
  PROVE  /\ Ponen(t, w, n, e, w.entrenadores[e])
         /\ Captura(t.entrenadores[e], w.entrenadores[e])
         /\ PuedeCapturar(w.entrenadores[e]) = PuedeCapturar(Atrapado(t, e).entrenadores[e])
<1> DEFINE u == Atrapado(t, e)
           x == t.entrenadores[e]
<1>1. PICK y \in Fichas(n) : u = Pon(t, e, y) /\ Captura(x, y)
  BY AtrapadoHace
<1>2. w = [u EXCEPT !.entrenadores[e].estado = v]
  BY DEF ConEstado
<1> HIDE DEF u, x
<1>3. Ponen(t, u, n, e, y)
  BY <1>1, PonHace
<1>4. u \in Equipos(n) /\ u.entrenadores[e] = y
  BY <1>3 DEF Ponen
<1>5. PICK z \in Fichas(n) : w = Pon(u, e, z) /\ MenosEstado(y, z) /\ z.estado = v
  BY <1>2, <1>4, EstadoHace
<1>6. Ponen(u, w, n, e, z)
  BY <1>4, <1>5, PonHace
<1>7. Ponen(t, w, n, e, z)
  BY <1>3, <1>6, PonenPonen
<1>8. w.entrenadores[e] = z
  BY <1>7 DEF Ponen
<1>9. Captura(x, z) /\ PuedeCapturar(z) = PuedeCapturar(y)
  BY <1>1, <1>5 DEF Captura, MenosEstado, PuedeCapturar
<1>10. QED
  BY <1>4, <1>7, <1>8, <1>9 DEF u, x

LEMMA DefaultTodo ==
  ASSUME NEW n \in Nat, NEW t, NEW c, NEW k, NEW i, NEW res, NEW ac, NEW e \in 1..n, NEW c2,
         Todo(t, n, c, k, i, res, ac), c.e = e, c.lugar = "rafaga", c.etapa \in {1, 2},
         Atrapa(t.entrenadores[e]), SinCpu(c, c2)
  PROVE  /\ Todo(PorDefault(t, e), n, c2, k, i, res, ac)
         /\ SigueEsperando(t, n, c, PorDefault(t, e), c2)
<1> DEFINE x == t.entrenadores[e]
           a == Atrapado(t, e)
           b == ConEstado(a, e, "BLOCK")
           f == ExitOBlock(a, e)
           g == Ocioso(b, e)
           d == Cantidad(t.desocupados, e)
           r == Cantidad(t.ready, e)
<1>1. /\ t \in Equipos(n) /\ Puestos(t, n, c, k, i)
  BY DEF Todo, Orden
<1>2. x \in Fichas(n) /\ d \in Nat /\ r \in Nat
  BY <1>1, Campos, CantidadTipo
<1>3. Puesto(x, d, r, c, k, i, e)
  BY <1>1 DEF Puestos
<1>4. ~Lleno(x) /\ d = 0 /\ ~EnMano(k, e) /\ ~x.esta_en_entrada_salida
      /\ ~(k.que = "cerrar" /\ k.e = e)
  <2> HIDE DEF x, d
  <2>1. Atrapa(x)
    BY DEF x
  <2>2. QED
    BY <1>3, <2>1, Zenon DEF Puesto
<1>5. OtrasManos(c, k, c2, k, n, e) /\ MismoReponer(k, k) /\ c2.e # e /\ c2.etapa = c.etapa
  BY OtrasSinCpu DEF SinCpu
<1>6. /\ Ponen(t, b, n, e, b.entrenadores[e]) /\ Captura(x, b.entrenadores[e])
      /\ PuedeCapturar(b.entrenadores[e]) = PuedeCapturar(a.entrenadores[e])
  BY <1>1, CapturaEstado
<1>7. /\ Ponen(t, f, n, e, f.entrenadores[e]) /\ Captura(x, f.entrenadores[e])
      /\ PuedeCapturar(f.entrenadores[e]) = PuedeCapturar(a.entrenadores[e])
  <2> DEFINE v == IF Cumplio(a.entrenadores[e]) THEN "EXIT" ELSE "BLOCK"
  <2>1. v \in {"NEW", "READY", "EXEC", "BLOCK", "EXIT"} /\ f = ConEstado(a, e, v)
    BY DEF ExitOBlock, ConEstado
  <2> HIDE DEF v, f
  <2>2. QED
    BY <1>1, <2>1, CapturaEstado
<1>8. CASE PuedeCapturar(a.entrenadores[e])
  <2>1. PorDefault(t, e) = Planificar(g)
    BY <1>8 DEF PorDefault, Desocupar, Ocioso, ConEstado
  <2> HIDE DEF a, b
  <2>2. b \in Equipos(n)
    BY <1>6 DEF Ponen
  <2>3. /\ g \in Equipos(n) /\ g.entrenadores = b.entrenadores /\ g.ready = b.ready
        /\ g.objetivos = b.objetivos /\ g.mapa = b.mapa
        /\ \A z \in 1..n : Cantidad(g.desocupados, z) =
             IF z = e THEN Cantidad(b.desocupados, z) + 1 ELSE Cantidad(b.desocupados, z)
    <3> HIDE DEF g
    <3>1. QED
      BY <2>2, OciosoHace DEF g
  <2> HIDE DEF g
  <2>4. /\ b.ready = t.ready /\ b.desocupados = t.desocupados /\ b.objetivos = t.objetivos
        /\ b.mapa = t.mapa /\ \A z \in 1..n : z # e => b.entrenadores[z] = t.entrenadores[z]
    BY <1>6 DEF Ponen
  <2>5. Resto(t, g, n, e) /\ g.mapa = t.mapa /\ g.objetivos = t.objetivos
        /\ Cantidad(g.ready, e) = r /\ Cantidad(g.desocupados, e) = d + 1
    BY <2>3, <2>4 DEF Resto
  <2>6. Captura(x, g.entrenadores[e]) /\ ~Lleno(g.entrenadores[e])
    BY <1>6, <1>8, <2>3 DEF Lleno
  <2>7. Suelta(d, Cantidad(g.desocupados, e), g.entrenadores[e], k, e)
    <3>1. Uno(EnMano(k, e)) = 0
      BY <1>4 DEF Uno
    <3>2. QED
      BY <1>4, <2>5, <2>6, <3>1 DEF Suelta
  <2>8. Todo(g, n, c2, k, i, res, ac)
    BY <1>5, <2>3, <2>5, <2>6, <2>7, CapturaTodo
  <2>9. SigueEsperando(t, n, c, g, c2)
    BY <1>4, <2>5, SigueResto
  <2>10. c2.etapa \in {1, 2}
    BY <1>5
  <2>11. Todo(Planificar(g), n, c2, k, i, res, ac) /\ MismaEspera(g, Planificar(g), n)
    BY <2>8, <2>10, PlanificarTodo
  <2>12. SigueEsperando(t, n, c, Planificar(g), c2)
    BY <2>9, <2>11, SigueMas
  <2>13. QED
    BY <2>1, <2>11, <2>12
<1>9. CASE ~PuedeCapturar(a.entrenadores[e])
  <2>1. PorDefault(t, e) = f
    BY <1>9 DEF PorDefault
  <2> HIDE DEF a, b, f
  <2>2. f \in Equipos(n) /\ f.mapa = t.mapa /\ f.objetivos = t.objetivos
        /\ Cantidad(f.ready, e) = r /\ Cantidad(f.desocupados, e) = d /\ Resto(t, f, n, e)
    BY <1>7 DEF Ponen, Resto
  <2>3. Suelta(d, Cantidad(f.desocupados, e), f.entrenadores[e], k, e)
    BY <1>4, <1>7, <1>9, <2>2 DEF Suelta, Lleno
  <2>4. Todo(f, n, c2, k, i, res, ac)
    BY <1>5, <1>7, <2>2, <2>3, CapturaTodo
  <2>5. SigueEsperando(t, n, c, f, c2)
    BY <1>4, <2>2, SigueResto
  <2>6. QED
    BY <2>1, <2>4, <2>5
<1>10. QED
  BY <1>8, <1>9

\* What the others wait for while one of them gets its answer.
SigueSin(t, n, c, u, v) ==
  \A id \in Int : id # v /\ Espera1(t, n, c, id) => Espera1(u, n, c, id)
LEMMA SigueElResto ==
  ASSUME NEW n, NEW t, NEW u, NEW e, NEW c, NEW v, Resto(t, u, n, e),
         t.entrenadores[e].id_correlativo_esperado = v
  PROVE  SigueSin(t, n, c, u, v)
BY DEF SigueSin, Resto, Espera1

\* Who waits for an answer does not run.
LEMMA QuienEspera ==
  ASSUME NEW n \in Nat, NEW t, NEW c, NEW k, NEW i, NEW res, NEW ac, NEW e \in 1..n,
         Todo(t, n, c, k, i, res, ac), t.entrenadores[e].esta_en_entrada_salida,
         t.entrenadores[e].id_correlativo_esperado # -1
  PROVE  c.e # e /\ Atrapa(t.entrenadores[e])
<1> DEFINE x == t.entrenadores[e]
           d == Cantidad(t.desocupados, e)
           r == Cantidad(t.ready, e)
<1>1. Puesto(x, d, r, c, k, i, e)
  BY DEF Todo, Orden, Puestos
<1>2. x.esta_en_entrada_salida /\ x.id_correlativo_esperado # -1
  OBVIOUS
<1> HIDE DEF x, d, r
<1>3. c.e # e /\ Atrapa(x)
  BY <1>1, <1>2, Zenon DEF Puesto
<1>4. QED
  BY <1>3 DEF x

\* The answer to a CATCH: it worked.
LEMMA AtrapadoTodo ==
  ASSUME NEW n \in Nat, NEW t, NEW c, NEW k, NEW i, NEW res, NEW ac, NEW e \in 1..n, NEW k2,
         Todo(t, n, c, k, i, res, ac), c.etapa \in {1, 2}, k.que = "nada",
         t.entrenadores[e].esta_en_entrada_salida,
         t.entrenadores[e].id_correlativo_esperado # -1, k2.e = e,
         PuedeCapturar(Atrapado(t, e).entrenadores[e]) => k2.que = "desocupar",
         ~PuedeCapturar(Atrapado(t, e).entrenadores[e]) => k2.que = "cerrar"
  PROVE  /\ Todo(Atrapado(t, e), n, c, k2, i, res, ac)
         /\ SigueSin(t, n, c, Atrapado(t, e), t.entrenadores[e].id_correlativo_esperado)
<1> DEFINE x == t.entrenadores[e]
           u == Atrapado(t, e)
           d == Cantidad(t.desocupados, e)
<1>1. t \in Equipos(n) /\ d \in Nat
  BY Campos, CantidadTipo DEF Todo
<1>2. c.e # e /\ Atrapa(x)
  BY QuienEspera
<1>3. PICK y \in Fichas(n) : u = Pon(t, e, y) /\ Captura(x, y)
  BY <1>1, <1>2, AtrapadoHace
<1>4. Ponen(t, u, n, e, y)
  <2> HIDE DEF u
  <2>1. QED
    BY <1>1, <1>3, PonHace
<1> HIDE DEF u
<1>5. /\ u \in Equipos(n) /\ u.entrenadores[e] = y /\ u.mapa = t.mapa /\ u.objetivos = t.objetivos
      /\ Cantidad(u.ready, e) = Cantidad(t.ready, e) /\ Cantidad(u.desocupados, e) = d
      /\ Resto(t, u, n, e)
  BY <1>4 DEF Ponen, Resto
<1>6. OtrasManos(c, k, c, k2, n, e) /\ MismoReponer(k, k2)
  <2>1. k2.que \in {"desocupar", "cerrar"}
    OBVIOUS
  <2>2. QED
    BY <2>1 DEF OtrasManos, Manos, EnMano, MismoReponer
<1>7. Suelta(d, d, y, k2, e)
  <2>1. CASE PuedeCapturar(y)
    <3>1. k2.que = "desocupar" /\ EnMano(k2, e)
      BY <1>5, <2>1 DEF EnMano, u
    <3>2. QED
      BY <2>1, <3>1 DEF Suelta, Lleno, Uno
  <2>2. CASE ~PuedeCapturar(y)
    <3>1. k2.que = "cerrar" /\ ~EnMano(k2, e)
      BY <1>5, <2>2 DEF EnMano, u
    <3>2. QED
      BY <2>2, <3>1 DEF Suelta, Lleno
  <2>3. QED
    BY <2>1, <2>2
<1>8. Todo(u, n, c, k2, i, res, ac)
  BY <1>2, <1>3, <1>5, <1>6, <1>7, CapturaTodo
<1>9. SigueSin(t, n, c, u, x.id_correlativo_esperado)
  BY <1>5, SigueElResto
<1>10. QED
  BY <1>8, <1>9 DEF u

\* The answer to a CATCH: it did not.
Soltada(x) == [x EXCEPT !.tarea = SinTarea, !.esta_en_entrada_salida = FALSE,
                        !.id_correlativo_esperado = -1]
Menos1(ac, s) == [ac EXCEPT ![s] = @ - 1]
LEMMA CuentasSuelta ==
  ASSUME NEW n \in Nat, NEW t \in Equipos(n), NEW e \in 1..n, NEW u, NEW y,
         NEW k, NEW k2, NEW ac \in [Especies -> Int], NEW z, Cuentas(t, n, k, ac),
         Atrapa(t.entrenadores[e]), z = t.entrenadores[e].tarea.pokemon.especie,
         Ponen(t, u, n, e, y), y.tarea = SinTarea, y.capturados = t.entrenadores[e].capturados,
         y.buscados = t.entrenadores[e].buscados,
         k.que # "reponer", k2.que = "reponer", k2.especie = z
  PROVE  Cuentas(u, n, k2, Menos1(ac, z))
<1> SUFFICES ASSUME NEW s \in Especies
             PROVE  /\ EnMapa(u, s) + EnTareas(u, n, s) + EspecieCapturada(u, s) = Menos1(ac, z)[s]
                    /\ Cantidad(u.objetivos, s) + EnTareas(u, n, s)
                         + Uno(k2.que = "reponer" /\ k2.especie = s)
                         >= EspecieBuscada(u, s) - EspecieCapturada(u, s)
  BY DEF Cuentas
<1> DEFINE w == Bit(z = s)
           m == EnMapa(t, s)
           t1 == EnTareas(t, n, s)
           t2 == EnTareas(u, n, s)
           o == Cantidad(t.objetivos, s)
           c1 == EspecieCapturada(t, s)
           b == EspecieBuscada(t, s)
           v == ac[s]
<1>0. u \in Equipos(n) /\ u.mapa = t.mapa /\ u.objetivos = t.objetivos /\ u.entrenadores[e] = y
  BY DEF Ponen
<1>1. m \in Nat /\ t1 \in Nat /\ o \in Nat /\ c1 \in Nat /\ b \in Nat /\ t2 \in Nat
  BY <1>0, CuentasTipo
<1>2. w \in {0, 1} /\ v \in Int
  BY DEF Bit
<1>3. m + t1 + c1 = v /\ o + t1 >= b - c1
  <2>1. Uno(k.que = "reponer" /\ k.especie = s) = 0
    BY DEF Uno
  <2>2. m + t1 + c1 = v /\ o + t1 + Uno(k.que = "reponer" /\ k.especie = s) >= b - c1
    BY DEF Cuentas
  <2> HIDE DEF m, t1, o, b, c1
  <2>3. QED
    BY <1>1, <2>1, <2>2
<1>4. EnMapa(u, s) = m /\ Cantidad(u.objetivos, s) = o
  BY <1>0 DEF EnMapa
<1>5. Uno(k2.que = "reponer" /\ k2.especie = s) = w
  BY DEF Uno, Bit
<1>6. EspecieBuscada(u, s) = b /\ EspecieCapturada(u, s) = c1
  <2>1. MismosPedidos(t, u, n) /\ MismosBolsillos(t, u, n)
    BY DEF MismosPedidos, MismosBolsillos, Ponen
  <2>2. QED
    BY <1>0, <2>1, CuentasIguales
<1>7. t2 + w = t1
  <2>1. SoloTarea(t, u, n, e)
    BY DEF SoloTarea, Ponen
  <2>2. t2 + Peso(t, e, s) = t1 + Peso(u, e, s)
    BY <2>1, EnTareasCambio
  <2>3. Peso(t, e, s) = w
    BY DEF Peso, VaPor, Atrapa, Bit
  <2>4. Peso(u, e, s) = 0
    BY <1>0 DEF Peso, VaPor, SinTarea
  <2> HIDE DEF w, t1, t2
  <2>5. QED
    BY <1>1, <1>2, <2>2, <2>3, <2>4
<1>8. Menos1(ac, z)[s] = v - w
  BY DEF Menos1, Bit
<1> HIDE DEF m, t1, t2, o, c1, b, w, v
<1>9. m + t2 + c1 = v - w /\ o + t2 + w >= b - c1
  BY <1>1, <1>2, <1>3, <1>7
<1>10. QED
  BY <1>4, <1>5, <1>6, <1>8, <1>9 DEF t2

LEMMA SoltarTodo ==
  ASSUME NEW n \in Nat, NEW t, NEW c, NEW k, NEW i, NEW res, NEW ac \in [Especies -> Int],
         NEW e \in 1..n, NEW k2,
         Todo(t, n, c, k, i, res, ac), c.etapa \in {1, 2}, k.que = "nada",
         t.entrenadores[e].esta_en_entrada_salida,
         t.entrenadores[e].id_correlativo_esperado # -1, k2.que = "reponer", k2.e = e,
         k2.especie = t.entrenadores[e].tarea.pokemon.especie
  PROVE  /\ Todo(Pon(t, e, Soltada(t.entrenadores[e])), n, c, k2, i, res, Menos1(ac, k2.especie))
         /\ SigueSin(t, n, c, Pon(t, e, Soltada(t.entrenadores[e])),
                     t.entrenadores[e].id_correlativo_esperado)
<1> DEFINE x == t.entrenadores[e]
           y == Soltada(x)
           u == Pon(t, e, y)
           d == Cantidad(t.desocupados, e)
           r == Cantidad(t.ready, e)
<1>1. /\ t \in Equipos(n) /\ Puestos(t, n, c, k, i) /\ Orden(t, n, c, k, i, res)
      /\ Cuentas(t, n, k, ac)
  BY DEF Todo, Orden
<1>2. c.e # e /\ Atrapa(x)
  BY QuienEspera
<1>3. x \in Fichas(n) /\ d \in Nat /\ r \in Nat
  BY <1>1, Campos, CantidadTipo
<1>4. Puesto(x, d, r, c, k, i, e)
  BY <1>1 DEF Puestos
<1>5. ~Lleno(x) /\ ~Va(x) /\ ~x.esperando_intercambio
  BY <1>2, AtrapaEnPrimera
<1>6. x.esta_en_entrada_salida
  OBVIOUS
<1>7. y \in Fichas(n) /\ y.tarea = SinTarea /\ ~y.esta_en_entrada_salida
      /\ y.id_correlativo_esperado = -1 /\ y.capturados = x.capturados /\ y.buscados = x.buscados
      /\ y.esperando_intercambio = x.esperando_intercambio
  <2> HIDE DEF x
  <2> DEFINE st == SinTarea
  <2>1. st \in Tareas(n) /\ FALSE \in BOOLEAN /\ -1 \in Int
    BY DEF Tareas
  <2>2. y = [x EXCEPT !.tarea = st, !.esta_en_entrada_salida = FALSE, !.id_correlativo_esperado = -1]
    BY DEF Soltada
  <2> HIDE DEF y, st
  <2>3. y \in Fichas(n) /\ y.tarea = st
    BY <1>3, <2>1, <2>2 DEF Fichas
  <2>4. y.esta_en_entrada_salida = FALSE
        /\ y.id_correlativo_esperado = -1 /\ y.capturados = x.capturados /\ y.buscados = x.buscados
    BY <1>3, <2>2 DEF Fichas
  <2>5. y.esperando_intercambio = x.esperando_intercambio
    BY <1>3, <2>2 DEF Fichas
  <2>6. QED
    BY <2>3, <2>4, <2>5 DEF st
<1> HIDE DEF y
<1>8. Ponen(t, u, n, e, y)
  BY <1>1, <1>7, PonHace
<1> HIDE DEF u
<1>9. /\ u \in Equipos(n) /\ u.entrenadores[e] = y /\ Resto(t, u, n, e)
      /\ Cantidad(u.ready, e) = r /\ Cantidad(u.desocupados, e) = d
  BY <1>8 DEF Ponen, Resto
<1>10. Cuentas(u, n, k2, Menos1(ac, k2.especie))
  BY <1>1, <1>2, <1>7, <1>8, CuentasSuelta
<1>11. OtrasManos(c, k, c, k2, n, e)
  BY DEF OtrasManos, Manos, EnMano
<1>12. SigueSin(t, n, c, u, x.id_correlativo_esperado)
  BY <1>9, SigueElResto
<1>13. EnMano(k2, e) /\ ~(k2.que = "cerrar")
  BY DEF EnMano
<1> HIDE DEF x, d, r
<1>14. Puesto(y, d, r, c, k2, i, e)
  <2>1. ~Lleno(y) /\ ~Atrapa(y)
    BY <1>5, <1>7 DEF Lleno, PuedeCapturar, Atrapa, SinTarea
  <2>2. d = 0 /\ r = 0 /\ Len(x.capturados) <= Len(x.buscados)
    BY <1>2, <1>4, <1>6, Zenon DEF Puesto
  <2>3. Sitios(y, d, r, c, k2, e) = 1
    <3>1. Uno(c.e = e) = 0 /\ Uno(c.e # e /\ y.esta_en_entrada_salida) = 0 /\ Uno(EnMano(k2, e)) = 1
      BY <1>2, <1>7, <1>13 DEF Uno
    <3>2. QED
      BY <2>2, <3>1 DEF Sitios
  <2>4. Sitios(y, d, r, c, k2, e) <= 1
    BY <2>3
  <2>5. QED
    BY <1>2, <1>7, <1>13, <2>1, <2>2, <2>3, <2>4, Zenon DEF Puesto
<1>15. Avanza(x, y) /\ Parecido(x, y, i)
  BY <1>5, <1>7 DEF Avanza, Va, Parecido, SinTarea
<1>16. Orden(u, n, c, k2, i, res)
  BY <1>1, <1>9, <1>11, <1>14, <1>15, OrdenCambia DEF x
<1>17. QED
  BY <1>9, <1>10, <1>12, <1>16 DEF Todo, u, y, x

\* The consumer hands a trainer back: it is idle.
LEMMA PuestoEntrega ==
  ASSUME NEW x, NEW d \in Nat, NEW r \in Nat, NEW c, NEW k, NEW i, NEW e, NEW k2,
         Puesto(x, d, r, c, k, i, e), EnMano(k, e), k2.que = "nada"
  PROVE  Puesto(x, d + 1, r, c, k2, i, e)
<1>1. ~EnMano(k2, e) /\ k2.que # "cerrar"
  BY DEF EnMano
<1>2. ~Lleno(x) /\ x.tarea = SinTarea
  BY Zenon DEF Puesto
<1>3. Sitios(x, d + 1, r, c, k2, e) = Sitios(x, d, r, c, k, e)
  <2> DEFINE a == Uno(c.e = e)
             b == Uno(c.e # e /\ x.esta_en_entrada_salida)
  <2>1. Uno(EnMano(k, e)) = 1 /\ Uno(EnMano(k2, e)) = 0 /\ a \in Int /\ b \in Int
    BY <1>1 DEF Uno
  <2>2. Sitios(x, d + 1, r, c, k2, e) = d + 1 + r + a + b + 0 /\ Sitios(x, d, r, c, k, e) = d + r + a + b + 1
    BY <2>1 DEF Sitios
  <2> HIDE DEF a, b
  <2>3. QED
    BY <2>1, <2>2
<1>4. ~Atrapa(x)
  BY <1>2 DEF Atrapa, SinTarea
<1>5. QED
  BY <1>1, <1>2, <1>3, <1>4, Zenon DEF Puesto

Entregado(t, u, n, e) ==
  /\ u \in Equipos(n) /\ u.entrenadores = t.entrenadores /\ u.ready = t.ready /\ u.mapa = t.mapa
  /\ \A z \in 1..n : Cantidad(u.desocupados, z) =
       IF z = e THEN Cantidad(t.desocupados, z) + 1 ELSE Cantidad(t.desocupados, z)
LEMMA OrdenEntrega ==
  ASSUME NEW n \in Nat, NEW t \in Equipos(n), NEW c, NEW k, NEW i, NEW res, NEW e \in 1..n, NEW k2,
         NEW u, c.etapa \in {1, 2},
         Orden(t, n, c, k, i, res), Entregado(t, u, n, e), EnMano(k, e), k2.que = "nada"
  PROVE  Orden(u, n, c, k2, i, res)
<1> DEFINE x == t.entrenadores[e]
           d == Cantidad(t.desocupados, e)
           r == Cantidad(t.ready, e)
<1>1. Puestos(t, n, c, k, i) /\ Fases(t, n, c, i, res)
  BY DEF Orden
<1>2. d \in Nat /\ r \in Nat
  BY Campos, CantidadTipo
<1>3. Puesto(x, d, r, c, k, i, e)
  BY <1>1 DEF Puestos
<1>4. /\ Resto(t, u, n, e) /\ u.entrenadores[e] = x /\ Cantidad(u.desocupados, e) = d + 1
      /\ Cantidad(u.ready, e) = r
  BY DEF Entregado, Resto
<1>5. OtrasManos(c, k, c, k2, n, e)
  BY DEF OtrasManos, Manos, EnMano
<1>6. ~Lleno(x)
  BY <1>3, Zenon DEF Puesto
<1>7. ~Va(x) /\ ~x.esperando_intercambio
  BY <1>1, <1>6 DEF Fases
<1> HIDE DEF x, d, r
<1>8. Puesto(x, d + 1, r, c, k2, i, e)
  BY <1>2, <1>3, PuestoEntrega
<1>9. Avanza(x, x) /\ Parecido(x, x, i)
  BY <1>7 DEF Avanza, Parecido
<1>10. QED
  BY <1>4, <1>5, <1>8, <1>9, OrdenCambia DEF x

LEMMA DesocuparTodo ==
  ASSUME NEW n \in Nat, NEW t, NEW c, NEW k, NEW i, NEW res, NEW ac, NEW e \in 1..n, NEW k2,
         Todo(t, n, c, k, i, res, ac), c.etapa \in {1, 2}, k.que = "desocupar", k.e = e,
         k2.que = "nada"
  PROVE  Todo(Desocupar(t, e), n, c, k2, i, res, ac) /\ MismaEspera(t, Desocupar(t, e), n)
<1> DEFINE u == Ocioso(t, e)
<1>1. t \in Equipos(n) /\ Orden(t, n, c, k, i, res) /\ Cuentas(t, n, k, ac)
  BY DEF Todo
<1>2. Desocupar(t, e) = Planificar(u)
  BY DEF Desocupar, Ocioso
<1> HIDE DEF u
<1>3. /\ u \in Equipos(n) /\ u.entrenadores = t.entrenadores /\ u.ready = t.ready
      /\ u.objetivos = t.objetivos /\ u.mapa = t.mapa
      /\ \A z \in 1..n : Cantidad(u.desocupados, z) =
           IF z = e THEN Cantidad(t.desocupados, z) + 1 ELSE Cantidad(t.desocupados, z)
  BY <1>1, OciosoHace DEF u
<1>4. Entregado(t, u, n, e)
  BY <1>3 DEF Entregado
<1>5. Orden(u, n, c, k2, i, res)
  <2>1. EnMano(k, e)
    BY DEF EnMano
  <2>2. QED
    BY <1>1, <1>4, <2>1, OrdenEntrega
<1>6. MismaEspera(t, u, n) /\ MismosBolsillos(t, u, n) /\ MismosPedidos(t, u, n)
      /\ MismasCapturas(t, u, n) /\ MismoReponer(k, k2)
  BY <1>3 DEF MismaEspera, MismosBolsillos, MismosPedidos, MismasCapturas, MismoReponer
<1>7. \A s : EspecieCapturada(u, s) = EspecieCapturada(t, s)
  BY <1>1, <1>3, <1>6, CuentasIguales
<1>8. \A s : EspecieBuscada(u, s) = EspecieBuscada(t, s)
  BY <1>1, <1>3, <1>6, CuentasIguales
<1>9. Cuentas(u, n, k2, ac)
  BY <1>1, <1>3, <1>6, <1>7, <1>8, CuentasIgualan
<1>10. Todo(u, n, c, k2, i, res, ac)
  BY <1>3, <1>5, <1>9 DEF Todo
<1>11. Todo(Planificar(u), n, c, k2, i, res, ac) /\ MismaEspera(u, Planificar(u), n)
  BY <1>10, PlanificarTodo
<1>12. MismaEspera(t, Planificar(u), n)
  BY <1>6, <1>11 DEF MismaEspera
<1>13. QED
  BY <1>2, <1>11, <1>12

\* The species of a capture that failed is wanted again.
Quiere(t, s) == [t EXCEPT !.objetivos = Append(@, s)]
Querida(t, u, n, s) ==
  /\ u \in Equipos(n) /\ u.entrenadores = t.entrenadores /\ u.ready = t.ready
  /\ u.desocupados = t.desocupados /\ u.mapa = t.mapa
  /\ \A z : Cantidad(u.objetivos, z) = Cantidad(t.objetivos, z) + (IF z = s THEN 1 ELSE 0)
LEMMA QuiereHace ==
  ASSUME NEW n \in Nat, NEW t \in Equipos(n), NEW s \in Especies, NEW u, u = Quiere(t, s)
  PROVE  Querida(t, u, n, s)
<1> DEFINE q == t.objetivos
           w == Append(q, s)
<1>1. q \in Seq(Especies)
  BY Campos
<1>2. w \in Seq(Especies)
  BY <1>1, AppendProperties
<1>3. ASSUME NEW z
      PROVE  Cantidad(w, z) = Cantidad(q, z) + (IF z = s THEN 1 ELSE 0)
  <2> DEFINE C == {z}
  <2>1. Bit(s \in C) = IF z = s THEN 1 ELSE 0
    BY DEF Bit
  <2> HIDE DEF q
  <2>2. Cantidad(w, z) = Cuantos(w, C) /\ Cantidad(q, z) = Cuantos(q, C)
    BY <1>1, <1>2, CantidadCuantos
  <2> HIDE DEF C
  <2>3. Cuantos(w, C) = Cuantos(q, C) + Bit(s \in C)
    BY <1>1, CuantosAgregar
  <2>4. QED
    BY <2>1, <2>2, <2>3
<1>4. u = [t EXCEPT !.objetivos = w]
  BY DEF Quiere
<1> HIDE DEF w
<1>5. /\ u \in Equipos(n) /\ u.entrenadores = t.entrenadores /\ u.ready = t.ready
      /\ u.desocupados = t.desocupados /\ u.mapa = t.mapa /\ u.objetivos = w
  BY <1>2, <1>4 DEF Equipos
<1>6. QED
  BY <1>3, <1>5, Zenon DEF q, Querida

LEMMA ReponerTodo ==
  ASSUME NEW n \in Nat, NEW t, NEW c, NEW k, NEW i, NEW res, NEW ac, NEW e \in 1..n, NEW k2,
         Todo(t, n, c, k, i, res, ac), c.etapa \in {1, 2}, k.que = "reponer", k.e = e,
         k.especie \in Especies, k2.que = "nada"
  PROVE  /\ Todo(Desocupar(Quiere(t, k.especie), e), n, c, k2, i, res, ac)
         /\ MismaEspera(t, Desocupar(Quiere(t, k.especie), e), n)
<1> DEFINE v == Quiere(t, k.especie)
           u == Ocioso(v, e)
<1>1. t \in Equipos(n) /\ Orden(t, n, c, k, i, res) /\ Cuentas(t, n, k, ac)
  BY DEF Todo
<1>2. Desocupar(v, e) = Planificar(u)
  BY DEF Desocupar, Ocioso
<1> HIDE DEF u, v
<1>3. /\ v \in Equipos(n) /\ v.entrenadores = t.entrenadores /\ v.ready = t.ready
      /\ v.desocupados = t.desocupados /\ v.mapa = t.mapa
      /\ \A z : Cantidad(v.objetivos, z) = Cantidad(t.objetivos, z) + (IF z = k.especie THEN 1 ELSE 0)
  <2> DEFINE s == k.especie
  <2>1. s \in Especies /\ v = Quiere(t, s)
    BY DEF v
  <2> HIDE DEF s
  <2>2. Querida(t, v, n, s)
    BY <1>1, <2>1, QuiereHace
  <2>3. QED
    BY <2>2 DEF s, Querida
<1>4. /\ u \in Equipos(n) /\ u.entrenadores = v.entrenadores /\ u.ready = v.ready
      /\ u.objetivos = v.objetivos /\ u.mapa = v.mapa
      /\ \A z \in 1..n : Cantidad(u.desocupados, z) =
           IF z = e THEN Cantidad(v.desocupados, z) + 1 ELSE Cantidad(v.desocupados, z)
  BY <1>3, OciosoHace DEF u
<1>5. Entregado(t, u, n, e)
  BY <1>3, <1>4 DEF Entregado
<1>6. Orden(u, n, c, k2, i, res)
  <2>1. EnMano(k, e)
    BY DEF EnMano
  <2>2. QED
    BY <1>1, <1>5, <2>1, OrdenEntrega
<1>7. MismaEspera(t, u, n) /\ MismosBolsillos(t, u, n) /\ MismosPedidos(t, u, n)
  BY <1>3, <1>4 DEF MismaEspera, MismosBolsillos, MismosPedidos
<1>8. Cuentas(u, n, k2, ac)
  <2> SUFFICES ASSUME NEW s \in Especies
               PROVE  /\ EnMapa(u, s) + EnTareas(u, n, s) + EspecieCapturada(u, s) = ac[s]
                      /\ Cantidad(u.objetivos, s) + EnTareas(u, n, s)
                           + Uno(k2.que = "reponer" /\ k2.especie = s)
                           >= EspecieBuscada(u, s) - EspecieCapturada(u, s)
    BY DEF Cuentas
  <2> DEFINE m == EnMapa(t, s)
             t1 == EnTareas(t, n, s)
             o == Cantidad(t.objetivos, s)
             c1 == EspecieCapturada(t, s)
             b == EspecieBuscada(t, s)
             w == Bit(k.especie = s)
  <2>1. m \in Nat /\ t1 \in Nat /\ o \in Nat /\ c1 \in Nat /\ b \in Nat /\ w \in {0, 1}
    BY <1>1, CuentasTipo DEF Bit
  <2>2. Uno(k.que = "reponer" /\ k.especie = s) = w /\ Uno(k2.que = "reponer" /\ k2.especie = s) = 0
    BY DEF Uno, Bit
  <2>3. m + t1 + c1 = ac[s] /\ o + t1 + w >= b - c1
    BY <1>1, <2>2 DEF Cuentas
  <2>4. EnMapa(u, s) = m /\ EnTareas(u, n, s) = t1
    BY <1>3, <1>4 DEF EnMapa, EnTareas, VaPor
  <2>5. EspecieCapturada(u, s) = c1 /\ EspecieBuscada(u, s) = b
    BY <1>1, <1>4, <1>7, CuentasIguales
  <2>6. Cantidad(u.objetivos, s) = o + w
    BY <1>3, <1>4 DEF Bit
  <2> HIDE DEF m, t1, o, c1, b, w
  <2>7. o + w + t1 + 0 >= b - c1
    BY <2>1, <2>3
  <2>8. QED
    BY <2>2, <2>3, <2>4, <2>5, <2>6, <2>7
<1>9. Todo(u, n, c, k2, i, res, ac)
  BY <1>4, <1>6, <1>8 DEF Todo
<1>10. Todo(Planificar(u), n, c, k2, i, res, ac) /\ MismaEspera(u, Planificar(u), n)
  BY <1>9, PlanificarTodo
<1>11. MismaEspera(t, Planificar(u), n)
  BY <1>7, <1>10 DEF MismaEspera
<1>12. QED
  BY <1>2, <1>10, <1>11 DEF v

\* More pokemons of one species in the map.
ConMapa(t, w) == [t EXCEPT !.mapa = w]
Sube(ac, z, v) == [ac EXCEPT ![z] = @ + v]
MasDe(m, w, z, v) ==
  \A s \in Especies : Cuantos(w, DeEspecie(s)) = Cuantos(m, DeEspecie(s)) + (IF s = z THEN v ELSE 0)

LEMMA MapaTodo ==
  ASSUME NEW n \in Nat, NEW t, NEW c, NEW k, NEW i, NEW res, NEW ac \in [Especies -> Int],
         Todo(t, n, c, k, i, res, ac), c.etapa \in {1, 2},
         NEW w \in Seq(Pokemones), NEW z \in Especies, NEW v \in Nat, MasDe(t.mapa, w, z, v)
  PROVE  /\ Todo(Planificar(ConMapa(t, w)), n, c, k, i, res, Sube(ac, z, v))
         /\ MismaEspera(t, Planificar(ConMapa(t, w)), n)
<1> DEFINE u == ConMapa(t, w)
           ac2 == Sube(ac, z, v)
<1>1. t \in Equipos(n) /\ Orden(t, n, c, k, i, res) /\ Cuentas(t, n, k, ac)
  BY DEF Todo
<1>2. /\ u \in Equipos(n) /\ u.entrenadores = t.entrenadores /\ u.ready = t.ready
      /\ u.desocupados = t.desocupados /\ u.objetivos = t.objetivos /\ u.mapa = w
  BY <1>1 DEF Equipos, ConMapa
<1> HIDE DEF u
<1>3. Orden(u, n, c, k, i, res)
  BY <1>1, <1>2 DEF Orden, Fases, Puestos, Pares
<1>4. MismaEspera(t, u, n) /\ MismosBolsillos(t, u, n) /\ MismosPedidos(t, u, n)
  BY <1>2 DEF MismaEspera, MismosBolsillos, MismosPedidos
<1>5. Cuentas(u, n, k, ac2)
  <2> SUFFICES ASSUME NEW s \in Especies
               PROVE  /\ EnMapa(u, s) + EnTareas(u, n, s) + EspecieCapturada(u, s) = ac2[s]
                      /\ Cantidad(u.objetivos, s) + EnTareas(u, n, s)
                           + Uno(k.que = "reponer" /\ k.especie = s)
                           >= EspecieBuscada(u, s) - EspecieCapturada(u, s)
    BY DEF Cuentas
  <2> DEFINE m == EnMapa(t, s)
             m2 == EnMapa(u, s)
             t1 == EnTareas(t, n, s)
             c1 == EspecieCapturada(t, s)
             b == IF s = z THEN v ELSE 0
             a == ac[s]
  <2>1. m \in Nat /\ t1 \in Nat /\ c1 \in Nat /\ b \in Nat /\ a \in Int
    BY <1>1, CuentasTipo
  <2>2. m + t1 + c1 = a
    BY <1>1 DEF Cuentas
  <2>3. m2 = m + b
    BY <1>2 DEF MasDe, EnMapa
  <2>4. EnTareas(u, n, s) = t1
    BY <1>2 DEF EnTareas, VaPor
  <2>5. EspecieCapturada(u, s) = c1 /\ EspecieBuscada(u, s) = EspecieBuscada(t, s)
    BY <1>1, <1>2, <1>4, CuentasIguales
  <2>6. ac2[s] = a + b
    BY DEF Sube
  <2>7. Cantidad(u.objetivos, s) + EnTareas(u, n, s)
          + Uno(k.que = "reponer" /\ k.especie = s)
          >= EspecieBuscada(u, s) - EspecieCapturada(u, s)
    BY <1>1, <1>2, <2>4, <2>5 DEF Cuentas
  <2> HIDE DEF m, m2, t1, c1, b, a, ac2
  <2>8. m2 + t1 + c1 = a + b
    BY <2>1, <2>2, <2>3
  <2>9. QED
    BY <2>4, <2>5, <2>6, <2>7, <2>8 DEF m2
<1> HIDE DEF ac2
<1>6. Todo(u, n, c, k, i, res, ac2)
  BY <1>2, <1>3, <1>5 DEF Todo
<1>7. Todo(Planificar(u), n, c, k, i, res, ac2) /\ MismaEspera(u, Planificar(u), n)
  BY <1>6, PlanificarTodo
<1>8. MismaEspera(t, Planificar(u), n)
  BY <1>4, <1>7 DEF MismaEspera
<1>9. QED
  BY <1>7, <1>8 DEF u, ac2

LEMMA UnoMas ==
  ASSUME NEW m \in Seq(Pokemones), NEW p \in Pokemones
  PROVE  Append(m, p) \in Seq(Pokemones) /\ MasDe(m, Append(m, p), p.especie, 1)
<1> SUFFICES ASSUME NEW s \in Especies
             PROVE  Cuantos(Append(m, p), DeEspecie(s))
                      = Cuantos(m, DeEspecie(s)) + (IF s = p.especie THEN 1 ELSE 0)
  BY CuantosAgregar DEF MasDe
<1> DEFINE C == DeEspecie(s)
<1>1. Bit(p \in C) = IF s = p.especie THEN 1 ELSE 0
  BY DEF Bit, DeEspecie
<1> HIDE DEF C
<1>2. Cuantos(Append(m, p), C) = Cuantos(m, C) + Bit(p \in C)
  BY CuantosAgregar
<1>3. QED
  BY <1>1, <1>2 DEF C

LEMMA VariosMas ==
  ASSUME NEW m \in Seq(Pokemones), NEW q \in Seq(Pokemones), NEW z \in Especies,
         \A i \in DOMAIN q : q[i].especie = z
  PROVE  m \o q \in Seq(Pokemones) /\ MasDe(m, m \o q, z, Len(q)) /\ Len(q) \in Nat
<1>1. Len(q) \in Nat /\ DOMAIN q = 1..Len(q) /\ \A i \in 1..Len(q) : q[i] \in Pokemones
  BY LenProperties, ElementOfSeq
<1>2. m \o q \in Seq(Pokemones)
  BY ConcatProperties
<1>3. ASSUME NEW s \in Especies
      PROVE  Cuantos(m \o q, DeEspecie(s)) = Cuantos(m, DeEspecie(s)) + (IF s = z THEN Len(q) ELSE 0)
  <2> DEFINE C == DeEspecie(s)
             l == Len(q)
             I == {i \in 1..l : q[i] \in C}
  <2>1. \A i \in 1..l : q[i] \in C <=> s = z
    BY <1>1 DEF DeEspecie
  <2>2. Cuantos(q, C) = IF s = z THEN l ELSE 0
    <3>1. CASE s = z
      <4>1. I = 1..l
        BY <2>1, <3>1
      <4>2. Cardinality(1..l) = l
        <5>1. \A j \in Nat : Cardinality(1..j) = j
          BY FS_Interval
        <5>2. QED
          BY <1>1, <5>1
      <4>3. QED
        BY <3>1, <4>1, <4>2 DEF Cuantos
    <3>2. CASE s # z
      <4>1. \A i \in 1..l : q[i] \notin C
        BY <2>1, <3>2
      <4> HIDE DEF C
      <4>2. QED
        BY <3>2, <4>1, CuantosTipo
    <3>3. QED
      BY <3>1, <3>2
  <2> HIDE DEF C
  <2>3. Cuantos(m \o q, C) = Cuantos(m, C) + Cuantos(q, C)
    BY CuantosConcat
  <2>4. QED
    BY <2>2, <2>3 DEF C
<1>4. QED
  BY <1>1, <1>2, <1>3 DEF MasDe

\* Its hands are full: the trainer ends, or blocks.
Cerrada(x) == [x EXCEPT !.estado = IF Cumplio(x) THEN "EXIT" ELSE "BLOCK", !.tarea = SinTarea,
                        !.esta_en_entrada_salida = FALSE]
Pisa(x, i) == IF x.tarea # SinTarea THEN i \cup {"pisado"} ELSE i

LEMMA NoCumple ==
  ASSUME NEW n \in Nat, NEW x \in Fichas(n), Len(x.capturados) = Len(x.buscados), NEW z,
         Contains(Sobrantes(x), z)
  PROVE  ~Cumplio(x)
<1> DEFINE s == x.capturados
           r == x.buscados
<1>1. s \in Seq(Especies) /\ r \in Seq(Especies) /\ Len(s) = Len(r)
  BY DEF Fichas
<1>2. Menos(s, r) # <<>>
  <2>1. Contains(Menos(s, r), z)
    BY DEF Sobrantes
  <2>2. ~Contains(<<>>, z)
    BY DEF Contains
  <2> HIDE DEF s, r
  <2>3. QED
    BY <2>1, <2>2
<1> HIDE DEF s, r
<1>3. Menos(r, s) # <<>>
  BY <1>1, <1>2, IgualLargo
<1>4. QED
  BY <1>3 DEF Cumplio, Faltantes, s, r

LEMMA CerrarTodo ==
  ASSUME NEW n \in Nat, NEW t, NEW c, NEW k, NEW i, NEW res, NEW ac, NEW e \in 1..n, NEW k2,
         Todo(t, n, c, k, i, res, ac), c.etapa \in {1, 2}, k.que = "cerrar", k.e = e,
         k2.que = "nada", c.e # e
  PROVE  /\ Todo(Pon(t, e, Cerrada(t.entrenadores[e])), n, c, k2, Pisa(t.entrenadores[e], i), res, ac)
         /\ MismaEspera(t, Pon(t, e, Cerrada(t.entrenadores[e])), n)
<1> DEFINE x == t.entrenadores[e]
           y == Cerrada(x)
           u == Pon(t, e, y)
           j == Pisa(x, i)
           d == Cantidad(t.desocupados, e)
           r == Cantidad(t.ready, e)
<1>1. /\ t \in Equipos(n) /\ Puestos(t, n, c, k, i) /\ Pares(t, n, i) /\ Fases(t, n, c, i, res)
  BY DEF Todo, Orden
<1>2. x \in Fichas(n) /\ d \in Nat /\ r \in Nat
  BY <1>1, Campos, CantidadTipo
<1>3. Puesto(x, d, r, c, k, i, e)
  BY <1>1 DEF Puestos
<1>4. Va(x) => ~x.esperando_intercambio /\ c.etapa # 1
  BY <1>1 DEF Pares, Par, Fases
<1>5. ASSUME x.esperando_intercambio, "pisado" \notin i
      PROVE  \E z : Contains(Sobrantes(x), z)
  <2>1. PICK g \in 1..n : Va(t.entrenadores[g]) /\ Otro(t.entrenadores[g]) = e
    BY <1>1, <1>5 DEF Pares
  <2>2. Par(t.entrenadores[g], x)
    BY <1>1, <2>1 DEF Pares
  <2>3. QED
    BY <2>2 DEF Par
<1> HIDE DEF x
<1>6. Lleno(x) /\ Len(x.capturados) = Len(x.buscados)
  <2>1. Lleno(x) /\ Len(x.capturados) <= Len(x.buscados)
    BY <1>3, Zenon DEF Puesto
  <2>2. x.capturados \in Seq(Especies) /\ x.buscados \in Seq(Especies)
    BY <1>2 DEF Fichas
  <2>3. Len(x.capturados) \in Nat /\ Len(x.buscados) \in Nat
    BY <2>2, LenProperties
  <2>4. QED
    BY <2>1, <2>3 DEF Lleno, PuedeCapturar
<1> HIDE DEF d, r
<1>7. /\ ~Atrapa(x) /\ ~x.esta_en_entrada_salida /\ d = 0 /\ ~EnMano(k, e)
      /\ x.tarea = SinTarea /\ "pisado" \notin i => r = 0
  BY <1>2, <1>3, <1>6, EnNingunLado
<1>8. x.tarea # SinTarea => Va(x)
  <2>1. x.tarea \in Tareas(n)
    BY <1>2 DEF Fichas
  <2>2. QED
    BY <1>7, <2>1, UnaTarea DEF Atrapa, Va, Intercambios
<1>9. /\ y \in Fichas(n) /\ y.tarea = SinTarea /\ ~y.esta_en_entrada_salida
      /\ y.id_correlativo_esperado = x.id_correlativo_esperado
      /\ y.capturados = x.capturados /\ y.buscados = x.buscados
      /\ y.esperando_intercambio = x.esperando_intercambio /\ (~Cumplio(x) => y.estado = "BLOCK")
  <2> DEFINE st == SinTarea
             ee == IF Cumplio(x) THEN "EXIT" ELSE "BLOCK"
  <2>1. st \in Tareas(n) /\ FALSE \in BOOLEAN /\ ee \in {"EXIT", "BLOCK"}
    BY DEF Tareas
  <2>2. y = [x EXCEPT !.estado = ee, !.tarea = st, !.esta_en_entrada_salida = FALSE]
    BY DEF Cerrada
  <2>3. ~Cumplio(x) => ee = "BLOCK"
    OBVIOUS
  <2> HIDE DEF y, st, ee
  <2>4. y \in Fichas(n) /\ y.tarea = st /\ y.estado = ee
    BY <1>2, <2>1, <2>2 DEF Fichas
  <2>5. y.esta_en_entrada_salida = FALSE /\ y.id_correlativo_esperado = x.id_correlativo_esperado
    BY <1>2, <2>2 DEF Fichas
  <2>6. /\ y.capturados = x.capturados /\ y.buscados = x.buscados
        /\ y.esperando_intercambio = x.esperando_intercambio
    BY <1>2, <2>2 DEF Fichas
  <2>7. QED
    BY <2>3, <2>4, <2>5, <2>6 DEF st
<1> HIDE DEF y
<1>10. Ponen(t, u, n, e, y)
  BY <1>1, <1>9, PonHace
<1> HIDE DEF u
<1>11. /\ u \in Equipos(n) /\ u.entrenadores[e] = y /\ Resto(t, u, n, e)
       /\ u.mapa = t.mapa /\ u.objetivos = t.objetivos
       /\ Cantidad(u.ready, e) = r /\ Cantidad(u.desocupados, e) = d
  BY <1>10 DEF Ponen, Resto, d, r
<1>12. MismaEspera(t, u, n)
  <2>1. y.esta_en_entrada_salida \in BOOLEAN /\ x.esta_en_entrada_salida \in BOOLEAN
    BY <1>2, <1>9 DEF Fichas
  <2>2. y.esta_en_entrada_salida = x.esta_en_entrada_salida
    BY <1>7, <1>9, <2>1
  <2>3. QED
    BY <1>9, <1>10, <2>2 DEF Ponen, MismaEspera, x
<1>13. OtrasManos(c, k, c, k2, n, e) /\ MismoReponer(k, k2)
  BY DEF OtrasManos, Manos, EnMano, MismoReponer
<1>14. ~EnMano(k2, e) /\ k2.que # "cerrar"
  BY DEF EnMano
<1>15. i \subseteq j /\ ("pisado" \notin j => j = i /\ x.tarea = SinTarea)
       /\ (x.tarea # SinTarea => "pisado" \in j)
  BY DEF Pisa
<1>16. c.etapa = 1 => j = i
  BY <1>4, <1>8 DEF Pisa
<1> HIDE DEF j
<1>17. Lleno(y) /\ ~Atrapa(y) /\ ~Va(y)
  BY <1>6, <1>9 DEF Lleno, PuedeCapturar, Atrapa, Va, SinTarea
<1>18. Puesto(y, d, r, c, k2, j, e)
  <2>1. x.id_correlativo_esperado = -1 /\ Len(x.capturados) <= Len(x.buscados)
    BY <1>3, <1>7, Zenon DEF Puesto
  <2>2. ASSUME "pisado" \notin j
        PROVE  r + Uno(c.e = e) <= Uno(y.tarea # SinTarea) /\ r + Uno(c.e = e) = Uno(y.tarea # SinTarea)
    <3>1. r = 0
      BY <1>7, <1>15, <2>2
    <3>2. Uno(c.e = e) = 0 /\ Uno(y.tarea # SinTarea) = 0
      BY <1>9 DEF Uno
    <3>3. QED
      BY <3>1, <3>2
  <2>3. ~(d > 0)
    BY <1>7
  <2>4. QED
    BY <1>9, <1>14, <1>17, <2>1, <2>2, <2>3, Zenon DEF Puesto
<1>19. Parecido(x, y, j)
  <2>1. CASE x.tarea = SinTarea
    <3>1. ~Va(x)
      BY <2>1 DEF Va, SinTarea
    <3>2. x.esperando_intercambio /\ "pisado" \notin j => y.estado = "BLOCK"
      BY <1>2, <1>5, <1>6, <1>9, <1>15, NoCumple
    <3>3. QED
      BY <1>9, <2>1, <3>1, <3>2 DEF Parecido
  <2>2. CASE x.tarea # SinTarea
    BY <1>4, <1>8, <1>9, <1>15, <1>17, <2>2 DEF Parecido
  <2>3. QED
    BY <2>1, <2>2
<1>20. MismaCaptura(x, y) /\ Avanza(x, y)
  BY <1>7, <1>9, <1>17 DEF MismaCaptura, Avanza
<1>21. Todo(u, n, c, k2, j, res, ac)
  BY <1>11, <1>13, <1>15, <1>16, <1>18, <1>19, <1>20, UnoTodo DEF x
<1>22. QED
  BY <1>12, <1>21 DEF u, y, j, x

\* The last cycle of an exchange.
LEMMA SeCitaron ==
  ASSUME NEW n \in Nat, NEW t \in Equipos(n), NEW i, Pares(t, n, i), NEW e \in 1..n,
         Va(t.entrenadores[e]), NEW f, f = Otro(t.entrenadores[e])
  PROVE  /\ f \in 1..n /\ f # e /\ Conviene(t, n, e, f)
         /\ t.entrenadores[f].tarea = SinTarea /\ ~t.entrenadores[e].esperando_intercambio
<1>1. f \in 1..n /\ t.entrenadores[e].tarea \in Intercambios(n)
  BY UnOtro
<1>2. f # e /\ Par(t.entrenadores[e], t.entrenadores[f])
  BY DEF Pares
<1>3. QED
  BY <1>1, <1>2 DEF Par, Conviene, Otro

LEMMA ParesCambian ==
  ASSUME NEW n \in Nat, NEW t \in Equipos(n), NEW i, Pares(t, n, i), NEW e \in 1..n,
         Va(t.entrenadores[e]), NEW f, f = Otro(t.entrenadores[e]), NEW u, Cambiado(t, u, n, e, f)
  PROVE  Pares(u, n, i)
<1>1. f \in 1..n /\ f # e /\ t.entrenadores[f].tarea = SinTarea
      /\ ~t.entrenadores[e].esperando_intercambio
  BY SeCitaron
<1>2. /\ \A z \in 1..n : z # e /\ z # f => u.entrenadores[z] = t.entrenadores[z]
      /\ ~Va(u.entrenadores[e]) /\ ~Va(u.entrenadores[f])
      /\ ~u.entrenadores[e].esperando_intercambio /\ ~u.entrenadores[f].esperando_intercambio
  BY <1>1 DEF Cambiado, Cambio, Va, SinTarea
<1>3. ASSUME NEW g \in 1..n, Va(u.entrenadores[g])
      PROVE  /\ g # e /\ g # f /\ u.entrenadores[g] = t.entrenadores[g]
             /\ Otro(t.entrenadores[g]) # g
             /\ Par(u.entrenadores[g], u.entrenadores[Otro(t.entrenadores[g])])
  <2>1. g # e /\ g # f /\ u.entrenadores[g] = t.entrenadores[g]
    BY <1>2, <1>3
  <2>2. Va(t.entrenadores[g])
    BY <1>3, <2>1
  <2> DEFINE h == Otro(t.entrenadores[g])
  <2>3. h \in 1..n
    BY <2>2, UnOtro
  <2>4. h # g /\ Par(t.entrenadores[g], t.entrenadores[h])
    BY <2>2 DEF Pares
  <2>5. h # f
    BY <2>1, <2>2 DEF Pares
  <2>6. h # e
    BY <1>1, <2>4 DEF Par
  <2>7. u.entrenadores[h] = t.entrenadores[h]
    BY <1>2, <2>3, <2>5, <2>6
  <2>8. QED
    BY <2>1, <2>4, <2>7
<1>4. ASSUME NEW z \in 1..n, u.entrenadores[z].esperando_intercambio, "pisado" \notin i
      PROVE  /\ u.entrenadores[z].estado = "BLOCK"
             /\ \E g \in 1..n : Va(u.entrenadores[g]) /\ Otro(u.entrenadores[g]) = z
  <2>1. z # e /\ z # f /\ u.entrenadores[z] = t.entrenadores[z]
    BY <1>2, <1>4
  <2>2. PICK g \in 1..n : Va(t.entrenadores[g]) /\ Otro(t.entrenadores[g]) = z
    BY <1>4, <2>1 DEF Pares
  <2>3. g # e /\ g # f
    BY <1>1, <2>1, <2>2 DEF Va, SinTarea
  <2>4. u.entrenadores[g] = t.entrenadores[g]
    BY <1>2, <2>3
  <2>5. t.entrenadores[z].estado = "BLOCK"
    BY <1>4, <2>1 DEF Pares
  <2>6. QED
    BY <2>1, <2>2, <2>4, <2>5
<1>5. \A g \in 1..n : Va(u.entrenadores[g]) =>
         Otro(u.entrenadores[g]) # g /\ Par(u.entrenadores[g], u.entrenadores[Otro(u.entrenadores[g])])
  BY <1>3
<1>6. "pisado" \notin i =>
       \A z \in 1..n : u.entrenadores[z].esperando_intercambio =>
         /\ u.entrenadores[z].estado = "BLOCK"
         /\ \E g \in 1..n : Va(u.entrenadores[g]) /\ Otro(u.entrenadores[g]) = z
  BY <1>4
<1>7. \A g, h \in 1..n :
       Va(u.entrenadores[g]) /\ Va(u.entrenadores[h])
         /\ Otro(u.entrenadores[g]) = Otro(u.entrenadores[h]) => g = h
  <2> TAKE g \in 1..n, h \in 1..n
  <2> HAVE Va(u.entrenadores[g]) /\ Va(u.entrenadores[h])
             /\ Otro(u.entrenadores[g]) = Otro(u.entrenadores[h])
  <2>1. u.entrenadores[g] = t.entrenadores[g] /\ u.entrenadores[h] = t.entrenadores[h]
    BY <1>3
  <2>2. QED
    BY <2>1 DEF Pares
<1>8. QED
  BY <1>5, <1>6, <1>7, Zenon DEF Pares

LEMMA IntercambioTodo ==
  ASSUME NEW n \in Nat, NEW t, NEW c, NEW k, NEW i, NEW res, NEW ac, NEW e \in 1..n, NEW c2, NEW res2,
         Todo(t, n, c, k, i, res, ac), c.e = e, c.lugar = "rafaga", c.etapa \in {1, 2},
         Va(t.entrenadores[e]), SinCpu(c, c2)
  PROVE  /\ Todo(Intercambiar(t, e), n, c2, k, i, res2, ac)
         /\ MismaEspera(t, Intercambiar(t, e), n)
<1> DEFINE f == Otro(t.entrenadores[e])
           u == Intercambiar(t, e)
           x == t.entrenadores[e]
           y == u.entrenadores[e]
           d == Cantidad(t.desocupados, e)
           r == Cantidad(t.ready, e)
<1>1. /\ t \in Equipos(n) /\ Puestos(t, n, c, k, i) /\ Pares(t, n, i) /\ Fases(t, n, c, i, res)
      /\ Cuentas(t, n, k, ac)
  BY DEF Todo, Orden
<1>2. f \in 1..n /\ f # e /\ Conviene(t, n, e, f) /\ t.entrenadores[f].tarea = SinTarea
  BY <1>1, SeCitaron
<1>3. Cambiado(t, u, n, e, f)
  BY <1>1, <1>2, IntercambiarHace
<1>4. d \in Nat /\ r \in Nat
  BY <1>1, Campos, CantidadTipo
<1> HIDE DEF f, u
<1>5. /\ u \in Equipos(n) /\ u.ready = t.ready /\ u.desocupados = t.desocupados
      /\ u.objetivos = t.objetivos /\ u.mapa = t.mapa
      /\ \A z \in 1..n : z # e /\ z # f => u.entrenadores[z] = t.entrenadores[z]
      /\ Cambio(x, y) /\ Cambio(t.entrenadores[f], u.entrenadores[f])
      /\ y.tarea = SinTarea /\ u.entrenadores[f].tarea = t.entrenadores[f].tarea
      /\ \A s : EspecieCapturada(u, s) = EspecieCapturada(t, s)
      /\ \A s : EspecieBuscada(u, s) = EspecieBuscada(t, s)
  BY <1>3 DEF Cambiado
<1>6. c.etapa = 2
  BY <1>1 DEF Fases
<1>7. Pares(u, n, i)
  BY <1>1, <1>3, ParesCambian DEF f
<1>8. Fases(u, n, c2, i, res2)
  <2>1. ASSUME NEW z \in 1..n
        PROVE  Lleno(u.entrenadores[z])
    <3>1. Lleno(t.entrenadores[z])
      BY <1>1, <1>6 DEF Fases
    <3>2. CASE z = e \/ z = f
      BY <1>5, <3>1, <3>2 DEF Cambio, Lleno, PuedeCapturar
    <3>3. CASE z # e /\ z # f
      BY <1>5, <3>1, <3>3
    <3>4. QED
      BY <3>2, <3>3
  <2>2. c2.etapa = 2
    BY <1>6 DEF SinCpu
  <2>3. QED
    BY <2>1, <2>2 DEF Fases
<1>9. ASSUME NEW z \in 1..n, z # e
      PROVE  Puesto(u.entrenadores[z], Cantidad(u.desocupados, z), Cantidad(u.ready, z), c2, k, i, z)
  <2> DEFINE a == t.entrenadores[z]
             b == u.entrenadores[z]
             d1 == Cantidad(t.desocupados, z)
             r1 == Cantidad(t.ready, z)
  <2>1. Puesto(a, d1, r1, c, k, i, z)
    BY <1>1 DEF Puestos
  <2>2. Igualada(a, b)
    <3>1. CASE z = f
      BY <1>5, <3>1 DEF Cambio, Igualada
    <3>2. CASE z # f
      BY <1>5, <1>9, <3>2 DEF Igualada
    <3>3. QED
      BY <3>1, <3>2
  <2>3. Manos(c, k, c2, k, z)
    BY <1>9 DEF Manos, SinCpu
  <2>4. Cantidad(u.desocupados, z) = d1 /\ Cantidad(u.ready, z) = r1
    BY <1>5
  <2> HIDE DEF a, b, d1, r1
  <2>5. Puesto(b, d1, r1, c2, k, i, z)
    BY <2>1, <2>2, <2>3, PuestoIgual
  <2>6. QED
    BY <2>4, <2>5 DEF b
<1>10. Puesto(y, d, r, c2, k, i, e)
  <2>1. Puesto(x, d, r, c, k, i, e) /\ Lleno(x)
    BY <1>1, <1>6 DEF Puestos, Fases
  <2>2. Cambio(x, y) /\ y.tarea = SinTarea /\ x.tarea # SinTarea
    BY <1>5 DEF Va, SinTarea
  <2> HIDE DEF x, y, d, r
  <2>3. /\ ~x.esta_en_entrada_salida /\ d = 0 /\ ~EnMano(k, e)
    BY <1>4, <2>1, EnNingunLado
  <2>4. Lleno(y) /\ ~Atrapa(y) /\ ~y.esta_en_entrada_salida /\ Len(y.capturados) <= Len(y.buscados)
        /\ y.id_correlativo_esperado = -1
    <3>1. Len(x.capturados) <= Len(x.buscados) /\ x.id_correlativo_esperado = -1
      BY <2>1, <2>3, Zenon DEF Puesto
    <3>2. QED
      BY <2>1, <2>2, <2>3, <3>1 DEF Cambio, Lleno, PuedeCapturar, Atrapa, SinTarea
  <2>5. c2.e # e /\ c2.lugar = "evaluar"
    BY DEF SinCpu
  <2>6. ASSUME "pisado" \notin i
        PROVE  r + Uno(c2.e = e) <= Uno(y.tarea # SinTarea) /\ r + Uno(c2.e = e) = Uno(y.tarea # SinTarea)
    <3>1. r + Uno(c.e = e) <= Uno(x.tarea # SinTarea)
      BY <2>1, <2>6 DEF Puesto
    <3>2. Uno(c.e = e) = 1 /\ Uno(c2.e = e) = 0 /\ Uno(x.tarea # SinTarea) = 1 /\ Uno(y.tarea # SinTarea) = 0
      BY <2>2, <2>5 DEF Uno
    <3>3. r = 0
      BY <1>4, <3>1, <3>2
    <3>4. QED
      BY <3>2, <3>3
  <2>7. ~(d > 0)
    BY <2>3
  <2>8. QED
    BY <2>2, <2>3, <2>4, <2>5, <2>6, <2>7, Zenon DEF Puesto
<1>11. Puestos(u, n, c2, k, i)
  <2> SUFFICES ASSUME NEW z \in 1..n
               PROVE  Puesto(u.entrenadores[z], Cantidad(u.desocupados, z), Cantidad(u.ready, z), c2, k, i, z)
    BY DEF Puestos
  <2>1. CASE z = e
    BY <1>5, <1>10, <2>1
  <2>2. CASE z # e
    BY <1>9, <2>2
  <2>3. QED
    BY <2>1, <2>2
<1>12. MismaEspera(t, u, n)
  BY <1>5 DEF MismaEspera, Cambio
<1>13. Cuentas(u, n, k, ac)
  <2>1. MismasCapturas(t, u, n)
    <3>1. ~Atrapa(x) /\ ~Atrapa(y)
      BY <1>5 DEF Va, Atrapa, SinTarea
    <3>2. QED
      BY <1>5, <3>1 DEF MismasCapturas, Atrapa
  <2>2. MismoReponer(k, k)
    BY DEF MismoReponer
  <2>3. QED
    BY <1>1, <1>5, <2>1, <2>2, CuentasIgualan
<1>14. QED
  BY <1>5, <1>7, <1>8, <1>11, <1>12, <1>13 DEF Todo, Orden, u
==============================================================================
