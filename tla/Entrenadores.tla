------------------------------ MODULE Entrenadores ------------------------------
(****************************************************************************)
(* The data of a Team (struct t_team) and what its threads do to it in one  *)
(* go: planning (planificador.c), moving a trainer (entrenadores.c) and     *)
(* resolving deadlocks by exchanges (deadlock.c).  Every operator takes a   *)
(* t_team and returns the t_team that results; who calls it is in Team.     *)
(*                                                                          *)
(* A list is a sequence, a species a model value, a trainer its index in    *)
(* entrenadores.  capturados and buscados keep species only; a pokemon of   *)
(* the map also has a position and n, its address.                          *)
(* Mal... is a plausible mistake in the definition below it.                *)
(****************************************************************************)
EXTENDS Integers, Sequences, SequencesExt

CONSTANTS QUANTUM, ALPHA   \* of the configuration; ALPHA in hundredths

ASSUME EntrenadoresAssumption == QUANTUM \in Nat \ {0} /\ ALPHA \in 0..100

RafagasIntercambio == 5    \* the literal of calcular_rafagas_necesarias

SinTarea == [tipo_tarea |-> "NULL"]
Atrapar(p) == [tipo_tarea |-> "ATRAPAR", pokemon |-> p]
Intercambio(e, pedir, otorgar) ==
  [tipo_tarea |-> "INTERCAMBIO", entrenador_intercambio |-> e,
   pokemon_a_pedir |-> pedir, pokemon_a_otorgar |-> otorgar]

(* ---------------------------------- lists ---------------------------------- *)

\* list_sort with an order by Clave; equals keep their places.
Ordenar(s, Clave(_)) ==
  FoldLeft(LAMBDA q, x : InsertAt(q, Cardinality({i \in DOMAIN q : Clave(q[i]) <= Clave(x)}) + 1, x),
           <<>>, s)

\* What is left of a list after taking out, one for one, the elements of another.
Menos(s, r) == FoldLeft(RemoveFirst, s, r)

Cantidad(s, x) == Cardinality({i \in DOMAIN s : s[i] = x})

(* -------------------------------- trainers --------------------------------- *)

Faltantes(e) == Menos(e.buscados, e.capturados)
MalSobrantes(e) == e.capturados
Sobrantes(e) == Menos(e.capturados, e.buscados)
Cumplio(e) == Faltantes(e) = <<>>
PuedeCapturar(e) == Len(e.buscados) > Len(e.capturados)

Distancia(a, b) ==
  LET Valor(x) == IF x < 0 THEN -x ELSE x IN Valor(a[1] - b[1]) + Valor(a[2] - b[2])

\* First along the horizontal axis, then along the vertical one.
MoverUnaPosicion(a, b) ==
  LET Paso(x, y) == IF x < y THEN 1 ELSE IF x > y THEN -1 ELSE 0
  IN  IF a[1] # b[1] THEN <<a[1] + Paso(a[1], b[1]), a[2]>>
                     ELSE <<a[1], a[2] + Paso(a[2], b[2])>>

Destino(t, e) ==
  LET tarea == t.entrenadores[e].tarea
  IN  IF tarea.tipo_tarea = "ATRAPAR" THEN tarea.pokemon.posicion
      ELSE t.entrenadores[tarea.entrenador_intercambio].posicion

RafagasNecesarias(t, e) ==
  LET x == t.entrenadores[e]
  IN  CASE x.tarea.tipo_tarea = "NULL"    -> 0
        [] x.tarea.tipo_tarea = "ATRAPAR" -> Distancia(x.posicion, Destino(t, e))
        [] OTHER -> Distancia(x.posicion, Destino(t, e))
                      + RafagasIntercambio - x.rafagas_intercambio

CicloCpu(t, e) ==
  LET x == t.entrenadores[e]
      y == IF x.posicion = Destino(t, e) /\ x.tarea.tipo_tarea = "INTERCAMBIO"
           THEN [x EXCEPT !.rafagas_intercambio = @ + 1]
           ELSE [x EXCEPT !.posicion = MoverUnaPosicion(@, Destino(t, e))]
  IN  [t EXCEPT !.entrenadores[e] = [y EXCEPT !.estado = "READY"]]

\* The estimate is an int: the fraction is dropped.
ActualizarEstimados(t, e, real) ==
  [t EXCEPT !.entrenadores[e].estimado = (ALPHA * real + (100 - ALPHA) * @) \div 100]

AgregarAReady(t, e) ==
  LET ready == Append(t.ready, e)
      Estimado(x) == t.entrenadores[x].estimado
  IN  [t EXCEPT !.entrenadores[e].estado = "READY",
                !.ready = IF t.planificador \in {"SJF_CD", "SJF_SD"}
                          THEN Ordenar(ready, Estimado) ELSE ready,
                !.semaforo_ready = @ + 1]

(* ---------------------------------- team ----------------------------------- *)

AlgunosPuedenAtrapar(t) ==
  \E e \in DOMAIN t.entrenadores : PuedeCapturar(t.entrenadores[e])
TeamCumplio(t) == \A e \in DOMAIN t.entrenadores : t.entrenadores[e].estado = "EXIT"

EspecieBuscada(t, s) == Cantidad(FlattenSeq([e \in DOMAIN t.entrenadores |-> t.entrenadores[e].buscados]), s)
EspecieCapturada(t, s) == Cantidad(FlattenSeq([e \in DOMAIN t.entrenadores |-> t.entrenadores[e].capturados]), s)
TeamPuedeCapturar(t, s) == EspecieBuscada(t, s) > EspecieCapturada(t, s)

ObjetivosRestantes(entrenadores) ==
  LET Todos(campo) == FlattenSeq([e \in DOMAIN entrenadores |-> entrenadores[e][campo]])
  IN  Menos(Todos("buscados"), Todos("capturados"))

(* -------------------------- planificar_entrenador -------------------------- *)

PuedeAsignar(t) ==
  /\ t.desocupados # <<>>
  /\ \E i \in DOMAIN t.objetivos, j \in DOMAIN t.mapa : t.objetivos[i] = t.mapa[j].especie

\* The idle trainer nearest to a pokemon of the map goes for it; the map forgets the
\* first pokemon of that species.  The search has sorted the map for one trainer after
\* another, so the first one is the nearest to the last idle trainer.
MalAsignarMasCercano(t) ==
  LET idle == DOMAIN t.desocupados
      Lejos(k, p) == Distancia(t.entrenadores[t.desocupados[k]].posicion, p.posicion)
      mapa[k \in {0} \cup idle] ==
        IF k = 0 THEN t.mapa ELSE Ordenar(mapa[k - 1], LAMBDA p : Lejos(k, p))
      Minima(k) == Lejos(k, Head(mapa[k]))
      mejor == CHOOSE k \in idle : \A j \in idle :
                 Minima(k) < Minima(j) \/ (Minima(k) = Minima(j) /\ k <= j)
      e == t.desocupados[mejor]
      p == Head(mapa[mejor])
  IN  AgregarAReady(
        [t EXCEPT !.entrenadores[e].tarea = Atrapar(p),
                  !.desocupados = RemoveFirst(@, e),
                  !.objetivos = RemoveFirst(@, p.especie)], e)
AsignarMasCercano(t) ==
  LET idle == DOMAIN t.desocupados
      Lejos(k, p) == Distancia(t.entrenadores[t.desocupados[k]].posicion, p.posicion)
      mapa[k \in {0} \cup idle] ==
        IF k = 0 THEN t.mapa ELSE Ordenar(mapa[k - 1], LAMBDA p : Lejos(k, p))
      Minima(k) == Lejos(k, Head(mapa[k]))
      mejor == CHOOSE k \in idle : \A j \in idle :
                 Minima(k) < Minima(j) \/ (Minima(k) = Minima(j) /\ k <= j)
      e == t.desocupados[mejor]
      p == Head(mapa[mejor])
      DeLaEspecie(q) == q.especie = p.especie
  IN  AgregarAReady(
        [t EXCEPT !.entrenadores[e].tarea = Atrapar(p),
                  !.desocupados = RemoveFirst(@, e),
                  !.mapa = RemoveFirstMatch(mapa[Len(t.desocupados)], DeLaEspecie),
                  !.objetivos = RemoveFirst(@, p.especie)], e)

Planificar(t) ==
  FoldLeft(LAMBDA u, k : IF PuedeAsignar(u) THEN AsignarMasCercano(u) ELSE u,
           t, t.desocupados)

(* --------------------------------- deadlock -------------------------------- *)

\* j is not set back to 0 for the second species that is missing: only the first one
\* is ever compared.
QuiereAlgoDe(t, e, f) ==
  LET faltan == Faltantes(t.entrenadores[e])
  IN  faltan # <<>> /\ Contains(Sobrantes(t.entrenadores[f]), Head(faltan))

HayCiclo(t, e, f) == QuiereAlgoDe(t, e, f) /\ QuiereAlgoDe(t, f, e)

\* list_get of an empty list is NULL.
Primero(s) == IF s = <<>> THEN "NULL" ELSE Head(s)

AsignarTareaIntercambio(t, e, f, otorgar) ==
  AgregarAReady(
    [t EXCEPT !.entrenadores[f].esperando_intercambio = TRUE,
              !.entrenadores[e].tarea =
                 Intercambio(f, Head(Faltantes(t.entrenadores[e])), otorgar)], e)

MalBloqueados(t) ==
  LET Esta(e) == t.entrenadores[e].estado = "BLOCK"
  IN  FoldLeft(LAMBDA q, e : IF Esta(e) THEN Append(q, e) ELSE q,
               <<>>, [e \in DOMAIN t.entrenadores |-> e])
Bloqueados(t) ==
  LET Esta(e) == /\ t.entrenadores[e].estado = "BLOCK"
                 /\ ~t.entrenadores[e].esperando_intercambio
  IN  FoldLeft(LAMBDA q, e : IF Esta(e) THEN Append(q, e) ELSE q,
               <<>>, [e \in DOMAIN t.entrenadores |-> e])

EnCurso(u) == u.i <= Len(u.lista) /\ Len(u.lista) > 1

\* One turn of the first loop: exchanges that suit both.  A trainer without a partner
\* is out of the list, and the one after it is skipped.
PasoCiclos(u) ==
  LET e     == u.lista[u.i]
      resto == RemoveAt(u.lista, u.i)
      k     == SelectInSeq(resto, LAMBDA f : HayCiclo(u.team, e, f))
  IN  IF k = 0 THEN [u EXCEPT !.lista = resto, !.i = @ + 1]
      ELSE [team  |-> AsignarTareaIntercambio(u.team, e, resto[k],
                        Head(Faltantes(u.team.entrenadores[resto[k]]))),
            lista |-> RemoveAt(resto, k), i |-> 1]

\* One turn of the second loop: exchanges that suit the first of the two.
PasoCualquiera(u) ==
  LET e == u.lista[u.i]
      k == SelectInSeq(u.lista, LAMBDA f : QuiereAlgoDe(u.team, e, f))
  IN  IF k = 0 THEN [u EXCEPT !.i = @ + 1]
      ELSE [team  |-> AsignarTareaIntercambio(u.team, e, u.lista[k],
                        Primero(Sobrantes(u.team.entrenadores[e]))),
            lista |-> RemoveFirst(RemoveFirst(u.lista, e), u.lista[k]), i |-> 1]

ResolverDeadlock(t) ==
  LET n == Len(t.entrenadores)
      Vueltas(Paso(_), u) ==
        FoldLeft(LAMBDA v, k : IF EnCurso(v) THEN Paso(v) ELSE v, u, [k \in 1..n * (n + 1) |-> k])
      Desde(v) == [team |-> v, lista |-> Bloqueados(v), i |-> 1]
  IN  Vueltas(PasoCualquiera, Desde(Vueltas(PasoCiclos, Desde(t)).team)).team

DetectarDeadlock(t) == ~TeamCumplio(t)

\* realizar_intercambio, and what handler_entrenador does with both after it.
Intercambiar(t, e) ==
  LET tarea == t.entrenadores[e].tarea
      f     == tarea.entrenador_intercambio
      Cambia(x, recibe, da) ==
        LET y == [x EXCEPT !.capturados = RemoveFirst(Append(@, recibe), da),
                           !.esperando_intercambio = FALSE, !.rafagas_intercambio = 0]
        IN  [y EXCEPT !.estado = IF Cumplio(y) THEN "EXIT" ELSE "BLOCK"]
  IN  [t EXCEPT !.entrenadores[e] =
                   [Cambia(@, tarea.pokemon_a_pedir, tarea.pokemon_a_otorgar)
                      EXCEPT !.tarea = SinTarea],
                !.entrenadores[f] = Cambia(@, tarea.pokemon_a_otorgar, tarea.pokemon_a_pedir)]
=================================================================================
