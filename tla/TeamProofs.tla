----------------------------- MODULE TeamProofs -----------------------------
(****************************************************************************)
(* Proofs about Team, for any configurations that satisfy TeamAssumption,   *)
(* any bounds of failed CATCH, crashes of the Broker and repeated CAUGHT,   *)
(* and any order of the threads.                                            *)
(*                                                                          *)
(* IInv is the types of everything and, until the Team dies, Bien: Todo of  *)
(* EquipoProofs for TEAM, and Conocidos, which ties the answers to come to  *)
(* who waits for them.  A CATCH without answer has one id, and a trainer    *)
(* waits for that id, or the main thread is about to note it (the window of *)
(* planificador.c); an answer in the queue that is not a copy still has its *)
(* trainer, and no two of them have the same id.  Without Conocidos a       *)
(* CAUGHT could be given to a trainer that was already released.            *)
(*                                                                          *)
(* PasoDelEquipo, PasoDelHilo, PasoDelAviso, PasoAjeno and PasoDeLlegada    *)
(* say what is left to show of a step of each kind; a lemma Sigue... for    *)
(* each action of Next uses one of them.                                    *)
(****************************************************************************)
EXTENDS EquipoProofs

Avisos == [id : Int, ok : BOOLEAN, copia : BOOLEAN]
Hallazgos == [especie : Especies, posiciones : Seq(Pokemones)]
DeLaSuya(m) == \A i \in DOMAIN m.posiciones : m.posiciones[i].especie = m.especie
Hilos(n) ==
  [lugar : {"gets", "evaluar", "esperar", "rafaga", "enviar", "anotar", "fin"}, etapa : {1, 2},
   e : 0..n, i : Int, n : Int, largo : Int, id : Int]
Corre(c) == c.lugar \in {"rafaga", "enviar", "anotar"} <=> c.e # 0
EnEspera(a) == /\ a.que \in {"nada", "agregar"}
               /\ a.que = "nada" => a = Nada
               /\ a.que = "agregar" => a.pokemon \in Pokemones
Recibido(k, n) ==
  /\ k.que \in {"nada", "desocupar", "cerrar", "reponer"}
  /\ k.que # "nada" => k.e \in 1..n
  /\ k.que = "nada" => k = Nada
  /\ k.que = "reponer" => k.especie \in Especies
Esperados(t, n, c) == {id \in Int : Espera1(t, n, c, id)}

\* An answer that is not a copy finds who waits for it.
Identidades(E, ids, prox, cola, pend, resp) ==
  /\ \A x \in ids : x = -1 \/ x \in 1..(prox - 1)
  /\ \A p \in pend : /\ p.id \in ids /\ p.id # -1 /\ p.id \in E
                     /\ \A q \in pend : q.id = p.id => q = p
  /\ \A i \in DOMAIN cola :
       /\ cola[i].id \in 1..(prox - 1)
       /\ \A p \in pend : p.id # cola[i].id
       /\ ~cola[i].copia /\ cola[i].id \in ids => cola[i].id \in E
  /\ \A i, j \in DOMAIN cola : i < j /\ ~cola[j].copia => cola[j].id # cola[i].id
  /\ \A m \in resp : m.id \in 1..(prox - 1) /\ \A p \in pend : p.id # m.id
NE == Len(TEAM.entrenadores)
TiposEquipo(t, n, c, k) == t \in Equipos(n) /\ c \in Hilos(n) /\ Corre(c) /\ Recibido(k, n)
TiposSistema ==
  /\ proximoId \in Nat \ {0} /\ DOMAIN colas = Colas /\ colas["APPEARED"] \in Seq(Pokemones)
  /\ colas["LOCALIZED"] \in Seq(Hallazgos) /\ colas["CAUGHT"] \in Seq(Avisos)
  /\ \A i \in DOMAIN colas["LOCALIZED"] : DeLaSuya(colas["LOCALIZED"][i])
  /\ EnEspera(appeared) /\ libres \subseteq Pokemones /\ IsFiniteSet(libres)
  /\ \A p \in pendientes : p \in [id : Int, pokemon : Pokemones]
  /\ respondidos \subseteq Avisos /\ idsCatch \subseteq Int
  /\ suscripto \in [Colas -> {"no", "viva", "rota", "sorda"}]
  /\ conectado \in BOOLEAN /\ broker \in BOOLEAN
TiposHistoria ==
  /\ resolutores \in Nat /\ aceptados \in [Especies -> Int]
  /\ cayo \in {"no", "ventana", "repetido", "liberado", "pisado"}
Conocidos == Identidades(Esperados(TEAM, NE, cpu), idsCatch, proximoId, colas["CAUGHT"],
                         pendientes, respondidos)
Bien == Todo(TEAM, NE, cpu, caught, incidentes, resolutores, aceptados) /\ Conocidos
IInv == /\ NE \in Nat /\ TiposEquipo(TEAM, NE, cpu, caught) /\ TiposSistema /\ TiposHistoria
        /\ cayo = "no" => Bien

\* A step that leaves the ids alone.
LEMMA PasoDelEquipo ==
  ASSUME IInv, cayo = "no", TiposEquipo(TEAM', NE, cpu', caught'), TiposSistema', TiposHistoria',
         UNCHANGED <<idsCatch, proximoId, pendientes, respondidos>>,
         colas'["CAUGHT"] = colas["CAUGHT"],
         cayo' = "no" =>
           /\ Todo(TEAM', NE, cpu', caught', incidentes', resolutores', aceptados')
           /\ SigueEsperando(TEAM, NE, cpu, TEAM', cpu')
  PROVE  IInv'
<1>1. NE \in Nat
  BY DEF IInv
<1>2. NE' = NE
  <2> DEFINE n == NE
             u == TEAM'
  <2>1. n \in Nat /\ u \in Equipos(n)
    BY <1>1 DEF TiposEquipo
  <2>2. NE' = Len(u.entrenadores)
    BY DEF NE
  <2> HIDE DEF n, u
  <2>3. Len(u.entrenadores) = n
    BY <2>1, MismoNumero
  <2>4. QED
    BY <2>2, <2>3 DEF n
<1>3. ASSUME cayo' = "no"
      PROVE  Conocidos'
  <2> DEFINE E == Esperados(TEAM, NE, cpu)
             F == Esperados(TEAM', NE, cpu')
             cola == colas["CAUGHT"]
             ids == idsCatch
             prox == proximoId
             pend == pendientes
             resp == respondidos
  <2>1. Conocidos
    BY DEF IInv, Bien
  <2>2. Identidades(E, ids, prox, cola, pend, resp)
    BY <2>1 DEF Conocidos
  <2>3. \A x : x # -1 /\ x \in E => x \in F
    BY <1>3 DEF SigueEsperando, Esperados
  <2>4. \A i \in DOMAIN cola : cola[i].id \in 1..(prox - 1)
    BY <2>2 DEF Identidades
  <2>5. prox \in Int
    BY DEF IInv, TiposSistema
  <2>6. Conocidos' = Identidades(F, ids, prox, cola, pend, resp)
    BY <1>2 DEF Conocidos
  <2> HIDE DEF E, F, cola, ids, prox, pend, resp
  <2>7. \A i \in DOMAIN cola : cola[i].id # -1
    BY <2>4, <2>5
  <2>8. Identidades(F, ids, prox, cola, pend, resp)
    BY <2>2, <2>3, <2>7 DEF Identidades
  <2>9. QED
    BY <2>6, <2>8
<1>4. cayo' = "no" => Bien'
  BY <1>2, <1>3 DEF Bien
<1>5. NE' \in Nat /\ TiposEquipo(TEAM', NE', cpu', caught')
  BY <1>1, <1>2
<1>6. QED
  BY <1>4, <1>5 DEF IInv

LEMMA SistemaSigue ==
  ASSUME TiposSistema,
         UNCHANGED <<proximoId, colas, appeared, libres, pendientes, respondidos, idsCatch,
                     suscripto, conectado, broker>>
  PROVE  TiposSistema'
BY DEF TiposSistema

\* What is known of a state in which the Team has not fallen.
LEMMA Ahora ==
  ASSUME IInv, cayo = "no"
  PROVE  /\ NE \in Nat /\ TEAM \in Equipos(NE) /\ cpu \in Hilos(NE) /\ cpu.etapa \in {1, 2}
         /\ cpu.i \in Int /\ cpu.id \in Int /\ cpu.e \in 0..NE /\ Corre(cpu) /\ Recibido(caught, NE)
         /\ TiposSistema /\ TiposHistoria /\ Conocidos
         /\ Todo(TEAM, NE, cpu, caught, incidentes, resolutores, aceptados)
BY DEF IInv, TiposEquipo, Hilos, Bien

LEMMA AlEvaluar ==
  ASSUME NEW n \in Nat, cpu \in Hilos(n)
  PROVE  AEvaluar \in Hilos(n) /\ Corre(AEvaluar) /\ SinCpu(cpu, AEvaluar)
<1> DEFINE c == AEvaluar
           x == cpu
<1>0. x \in Hilos(n) /\ 0 \in 0..n /\ -1 \in Int
  OBVIOUS
<1>a. c = [x EXCEPT !.lugar = "evaluar", !.e = 0, !.i = 0, !.n = 0, !.largo = 0, !.id = -1]
  BY DEF AEvaluar
<1> HIDE DEF c, x
<1>b. c \in Hilos(n)
  <2>1. x.etapa \in {1, 2}
    BY <1>0 DEF Hilos
  <2> DEFINE et == x.etapa
             y == [lugar |-> "evaluar", etapa |-> et, e |-> 0, i |-> 0, n |-> 0, largo |-> 0, id |-> -1]
  <2>2. c = y
    BY <1>0, <1>a DEF Hilos
  <2> HIDE DEF et
  <2>3. y \in Hilos(n)
    BY <1>0, <2>1 DEF Hilos, et
  <2>4. QED
    BY <2>2, <2>3
<1>c. c.e = 0 /\ c.lugar = "evaluar" /\ c.etapa = x.etapa
  BY <1>0, <1>a DEF Hilos
<1>1. /\ c \in Hilos(n) /\ c.e = 0 /\ c.lugar = "evaluar" /\ c.etapa = cpu.etapa
  BY <1>b, <1>c DEF x
<1>2. QED
  BY <1>1 DEF Corre, SinCpu, c

LEMMA OtroLugar ==
  ASSUME NEW n \in Nat, NEW c \in Hilos(n), Corre(c),
         NEW l \in {"gets", "evaluar", "esperar", "rafaga", "enviar", "anotar", "fin"},
         l \in {"rafaga", "enviar", "anotar"} <=> c.e # 0, NEW c2, c2 = [c EXCEPT !.lugar = l]
  PROVE  /\ c2 \in Hilos(n) /\ Corre(c2) /\ c2.lugar = l /\ c2.e = c.e /\ c2.etapa = c.etapa
         /\ c2.id = c.id
<1>1. /\ c2 \in Hilos(n) /\ c2.lugar = l /\ c2.e = c.e /\ c2.etapa = c.etapa /\ c2.id = c.id
  BY DEF Hilos
<1>2. QED
  BY <1>1 DEF Corre

LEMMA HistoriaSigue ==
  ASSUME TiposHistoria, UNCHANGED <<resolutores, aceptados, cayo>>
  PROVE  TiposHistoria'
BY DEF TiposHistoria

\* The main thread changes its place without a trainer.
LEMMA SinEntrenador ==
  ASSUME NEW n \in Nat, NEW t, NEW c, NEW k, NEW i, NEW res, NEW ac, NEW c2,
         Todo(t, n, c, k, i, res, ac), c.e = 0, c2.e = 0, c2.etapa = c.etapa
  PROVE  Todo(t, n, c2, k, i, res, ac)
<1>1. t \in Equipos(n) /\ Orden(t, n, c, k, i, res) /\ Cuentas(t, n, k, ac)
  BY DEF Todo
<1>2. \A x \in 1..n : Manos(c, k, c2, k, x)
  BY DEF Manos
<1>3. Orden(t, n, c2, k, i, res)
  BY <1>1, <1>2, OrdenIgual
<1>4. QED
  BY <1>1, <1>3 DEF Todo

\* Mishaps that concern nobody's place.
LEMMA MasIncidentes ==
  ASSUME NEW n \in Nat, NEW t, NEW c, NEW k, NEW i, NEW res, NEW ac, NEW j,
         Todo(t, n, c, k, i, res, ac), i \subseteq j, "pisado" \in j => "pisado" \in i
  PROVE  Todo(t, n, c, k, j, res, ac)
<1>1. t \in Equipos(n) /\ Orden(t, n, c, k, i, res) /\ Cuentas(t, n, k, ac)
  BY DEF Todo
<1>2. \A x \in 1..n : Manos(c, k, c, k, x)
  BY DEF Manos
<1>3. Orden(t, n, c, k, j, res)
  BY <1>1, <1>2, OrdenIgual
<1>4. QED
  BY <1>1, <1>3 DEF Todo

\* A step of the others.
LEMMA PasoAjeno ==
  ASSUME IInv, cayo = "no", UNCHANGED <<TEAM, cpu, caught, resolutores, aceptados, cayo>>,
         incidentes \subseteq incidentes', "pisado" \in incidentes' => "pisado" \in incidentes,
         TiposSistema',
         Identidades(Esperados(TEAM, NE, cpu), idsCatch', proximoId', colas'["CAUGHT"],
                     pendientes', respondidos')
  PROVE  IInv'
<1>1. NE \in Nat /\ TiposEquipo(TEAM, NE, cpu, caught) /\ TiposHistoria
      /\ Todo(TEAM, NE, cpu, caught, incidentes, resolutores, aceptados)
  BY Ahora DEF IInv
<1>2. Todo(TEAM, NE, cpu, caught, incidentes', resolutores, aceptados)
  BY <1>1, MasIncidentes
<1>3. TiposHistoria'
  BY <1>1, HistoriaSigue
<1>4. NE' = NE
  BY DEF NE
<1>5. Conocidos' /\ Bien' /\ TiposEquipo(TEAM', NE', cpu', caught') /\ NE' \in Nat
  BY <1>1, <1>2, <1>4 DEF Conocidos, Bien
<1>6. QED
  BY <1>3, <1>5 DEF IInv

\* Nothing of an answer changes.
LEMMA PasoCallado ==
  ASSUME IInv, cayo = "no", UNCHANGED <<TEAM, cpu, caught, resolutores, aceptados, cayo>>,
         incidentes \subseteq incidentes', "pisado" \in incidentes' => "pisado" \in incidentes,
         TiposSistema', UNCHANGED <<idsCatch, proximoId, respondidos>>,
         colas'["CAUGHT"] = colas["CAUGHT"], pendientes' = pendientes
  PROVE  IInv'
<1>1. Conocidos
  BY Ahora
<1>2. QED
  BY <1>1, PasoAjeno DEF Conocidos

LEMMA SigueEnviarGet ==
  ASSUME IInv, EnviarGet
  PROVE  IInv'
<1>1. cayo = "no" /\ cpu.lugar = "gets"
  BY DEF EnviarGet, Vivo
<1> DEFINE l == IF Len(porPedir) = 1 THEN "evaluar" ELSE "gets"
<1>2. cpu' = [cpu EXCEPT !.lugar = l]
  BY DEF EnviarGet
<1>3. l \in {"gets", "evaluar"}
  OBVIOUS
<1> HIDE DEF l
<1>4. cpu.e = 0
  BY <1>1, Ahora DEF Corre
<1>5. /\ cpu' \in Hilos(NE) /\ Corre(cpu') /\ cpu'.lugar = l /\ cpu'.e = 0 /\ cpu'.etapa = cpu.etapa
  <2>1. l \in {"gets", "evaluar", "esperar", "rafaga", "enviar", "anotar", "fin"}
        /\ (l \in {"rafaga", "enviar", "anotar"} <=> cpu.e # 0)
    BY <1>3, <1>4
  <2>2. NE \in Nat /\ cpu \in Hilos(NE) /\ Corre(cpu)
    BY <1>1, Ahora
  <2>3. QED
    BY <1>2, <1>4, <2>1, <2>2, OtroLugar
<1>6. UNCHANGED <<TEAM, caught, resolutores, idsCatch, proximoId, colas, appeared, libres, pendientes,
                  respondidos, suscripto, conectado, broker, aceptados, incidentes, cayo>>
  BY DEF EnviarGet, historia
<1>7. TiposSistema' /\ TiposHistoria'
  BY <1>1, <1>6, Ahora, SistemaSigue, HistoriaSigue
<1>8. Todo(TEAM, NE, cpu', caught, incidentes, resolutores, aceptados)
  BY <1>1, <1>4, <1>5, Ahora, SinEntrenador
<1>9. SigueEsperando(TEAM, NE, cpu, TEAM, cpu')
  BY <1>1, Igualdad, EsperaIgual
<1>10. TiposEquipo(TEAM', NE, cpu', caught')
  BY <1>1, <1>5, <1>6, Ahora DEF TiposEquipo
<1>11. QED
  BY <1>1, <1>6, <1>7, <1>8, <1>9, <1>10, PasoDelEquipo

\* The first loop is over.
LEMMA SegundaFase ==
  ASSUME NEW n \in Nat, NEW t, NEW c, NEW k, NEW i, NEW res, NEW ac, NEW c2,
         Todo(t, n, c, k, i, res, ac), c.e = 0, c2.e = 0, c2.etapa = 2,
         \A e \in 1..n : Lleno(t.entrenadores[e])
  PROVE  Todo(t, n, c2, k, i, res, ac)
<1>1. /\ t \in Equipos(n) /\ Puestos(t, n, c, k, i) /\ Pares(t, n, i) /\ Cuentas(t, n, k, ac)
  BY DEF Todo, Orden
<1>2. Puestos(t, n, c2, k, i)
  <2> SUFFICES ASSUME NEW x \in 1..n
               PROVE  Puesto(t.entrenadores[x], Cantidad(t.desocupados, x), Cantidad(t.ready, x),
                             c2, k, i, x)
    BY DEF Puestos
  <2> DEFINE a == t.entrenadores[x]
             d == Cantidad(t.desocupados, x)
             r == Cantidad(t.ready, x)
  <2>1. Puesto(a, d, r, c, k, i, x)
    BY <1>1 DEF Puestos
  <2>2. Quieta(a, a) /\ Manos(c, k, c2, k, x)
    BY DEF Quieta, Manos
  <2> HIDE DEF a, d, r
  <2>3. Puesto(a, d, r, c2, k, i, x)
    BY <2>1, <2>2, PuestoSigue
  <2>4. QED
    BY <2>3 DEF a, d, r
<1>3. Fases(t, n, c2, i, res)
  BY DEF Fases
<1>4. QED
  BY <1>1, <1>2, <1>3 DEF Todo, Orden

\* What an action of the main thread alone leaves alone.
SoloElHilo == UNCHANGED <<caught, idsCatch, proximoId, colas, appeared, libres, pendientes, respondidos,
                          suscripto, conectado, broker>>
LEMMA PasoDelHilo ==
  ASSUME IInv, cayo = "no", SoloElHilo, UNCHANGED <<aceptados, cayo>>, resolutores' \in Nat,
         cpu' \in Hilos(NE), Corre(cpu'),
         Todo(TEAM', NE, cpu', caught, incidentes', resolutores', aceptados),
         SigueEsperando(TEAM, NE, cpu, TEAM', cpu')
  PROVE  IInv'
<1>1. TiposSistema' /\ TiposHistoria'
  <2>1. TiposSistema /\ TiposHistoria
    BY Ahora
  <2>2. TiposSistema'
    BY <2>1, SistemaSigue DEF SoloElHilo
  <2>3. QED
    BY <2>1, <2>2 DEF TiposHistoria
<1>2. TiposEquipo(TEAM', NE, cpu', caught')
  BY Ahora DEF TiposEquipo, Todo, SoloElHilo
<1>3. UNCHANGED <<idsCatch, proximoId, pendientes, respondidos>> /\ colas'["CAUGHT"] = colas["CAUGHT"]
      /\ caught' = caught
  BY DEF SoloElHilo
<1>4. QED
  BY <1>1, <1>2, <1>3, PasoDelEquipo

LEMMA SigueEvaluar ==
  ASSUME IInv, Evaluar
  PROVE  IInv'
<1>1. cayo = "no" /\ cpu.lugar = "evaluar"
  BY DEF Evaluar, Vivo
<1>2. /\ SoloElHilo /\ UNCHANGED <<aceptados, cayo, incidentes, resolutores>>
  BY DEF Evaluar, SoloElHilo, mensajes, sistema, historia
<1> DEFINE n == NE
           t == TEAM
           Ahora1(u, c) == Todo(u, n, c, caught, incidentes, resolutores, aceptados)
<1>3. n \in Nat /\ t \in Equipos(n) /\ cpu \in Hilos(n) /\ Corre(cpu) /\ Ahora1(t, cpu)
      /\ resolutores \in Nat
  BY <1>1, Ahora DEF TiposHistoria
<1>4. cpu.e = 0
  BY <1>1, <1>3 DEF Corre
<1>5. ASSUME NEW l \in {"esperar", "fin"}, cpu' = [cpu EXCEPT !.lugar = l], TEAM' = TEAM
      PROVE  IInv'
  <2>1. cpu' \in Hilos(n) /\ Corre(cpu') /\ cpu'.e = 0 /\ cpu'.etapa = cpu.etapa
    BY <1>3, <1>4, <1>5, OtroLugar
  <2> HIDE DEF n, t
  <2>2. Ahora1(t, cpu')
    BY <1>3, <1>4, <2>1, SinEntrenador
  <2>3. SigueEsperando(TEAM, NE, cpu, TEAM, cpu')
    BY <1>1, Igualdad, EsperaIgual
  <2>4. QED
    BY <1>1, <1>2, <1>3, <1>5, <2>1, <2>2, <2>3, PasoDelHilo DEF n, t
<1>6. ASSUME cpu' = [cpu EXCEPT !.etapa = 2], ~AlgunosPuedenAtrapar(TEAM),
             TEAM' = IF DetectarDeadlock(TEAM)
                     THEN ResolverDeadlock([TEAM EXCEPT !.hubo_deadlocks = TRUE]) ELSE TEAM
      PROVE  IInv'
  <2> DEFINE x == cpu
             y == cpu'
             v == [t EXCEPT !.hubo_deadlocks = TRUE]
  <2>1. y \in Hilos(n) /\ y.e = 0 /\ y.etapa = 2 /\ y.lugar = "evaluar" /\ Corre(y)
    <3>1. x \in Hilos(n) /\ y = [x EXCEPT !.etapa = 2] /\ x.e = 0 /\ x.lugar = "evaluar"
      BY <1>1, <1>3, <1>4, <1>6
    <3> HIDE DEF x, y
    <3>2. y \in Hilos(n) /\ y.e = x.e /\ y.etapa = 2 /\ y.lugar = x.lugar
      BY <3>1 DEF Hilos
    <3>3. QED
      BY <3>1, <3>2 DEF Corre
  <2>2. \A e \in 1..n : Lleno(t.entrenadores[e])
    <3>1. DOMAIN t.entrenadores = 1..n
      BY <1>3, MismoNumero
    <3>2. QED
      BY <1>6, <3>1 DEF AlgunosPuedenAtrapar, Lleno
  <2>3. Ahora1(t, y)
    <3> HIDE DEF n, t, y
    <3>1. QED
      BY <1>3, <1>4, <2>1, <2>2, SegundaFase
  <2>4. TEAM' = ResolverDeadlock(v) \/ TEAM' = t
    BY <1>6
  <2>5. Casi(t, v, n)
    <3> HIDE DEF t, n
    <3>1. QED
      BY <1>3 DEF Casi, Equipos
  <2> HIDE DEF n, t, v
  <2>6. Ahora1(v, y) /\ MismaEspera(t, v, n)
    BY <1>3, <2>3, <2>5, CasiTodo
  <2>7. Ahora1(ResolverDeadlock(v), y) /\ MismaEspera(v, ResolverDeadlock(v), n)
    BY <1>3, <2>1, <2>6, ResolverTodo
  <2>8. Ahora1(TEAM', y) /\ MismaEspera(t, TEAM', n)
    <3>1. MismaEspera(t, t, n)
      BY Igualdad
    <3>2. MismaEspera(t, ResolverDeadlock(v), n)
      BY <2>6, <2>7 DEF MismaEspera
    <3>3. QED
      BY <2>3, <2>4, <2>7, <3>1, <3>2
  <2>9. SigueEsperando(t, n, cpu, TEAM', y)
    BY <1>1, <2>8, EsperaIgual
  <2>10. QED
    BY <1>1, <1>2, <1>3, <2>1, <2>8, <2>9, PasoDelHilo DEF n, t, y
<1>7. \/ \E l \in {"esperar", "fin"} : cpu' = [cpu EXCEPT !.lugar = l] /\ TEAM' = TEAM
      \/ /\ cpu' = [cpu EXCEPT !.etapa = 2] /\ ~AlgunosPuedenAtrapar(TEAM)
         /\ TEAM' = IF DetectarDeadlock(TEAM)
                    THEN ResolverDeadlock([TEAM EXCEPT !.hubo_deadlocks = TRUE]) ELSE TEAM
  BY DEF Evaluar
<1>8. QED
  BY <1>5, <1>6, <1>7

\* The trainer e taken from the ready list, with the state v.
Tomado(t, e, v) == [t EXCEPT !.semaforo_ready = t.semaforo_ready - 1, !.ready = Tail(t.ready),
                             !.entrenadores = [t.entrenadores EXCEPT ![e] = [t.entrenadores[e] EXCEPT !.estado = v]]]
Aviso(t) == [t EXCEPT !.semaforo_ready = t.semaforo_ready - 1]

LEMMA TomadoHace ==
  ASSUME NEW n \in Nat, NEW t \in Equipos(n), t.semaforo_ready > 0, t.ready # <<>>,
         NEW e, e = Head(t.ready),
         NEW v, v \in {"EXEC"} \cup {t.entrenadores[e].estado}
  PROVE  /\ e \in 1..n /\ Cantidad(t.ready, e) > 0
         /\ Saca(t, Tomado(t, e, v), n, e, Tomado(t, e, v).entrenadores[e])
         /\ Quieta(t.entrenadores[e], Tomado(t, e, v).entrenadores[e])
         /\ Tomado(t, e, v).entrenadores[e].esperando_intercambio = t.entrenadores[e].esperando_intercambio
         /\ Tomado(t, e, v).entrenadores[e].estado = v
<1> DEFINE s == t.semaforo_ready - 1
           x == t.entrenadores[e]
           y == [x EXCEPT !.estado = v]
<1>1. s \in Nat
  BY DEF Equipos
<1>2. e \in 1..n
  BY DEF Equipos
<1>3. x \in Fichas(n) /\ DOMAIN t.entrenadores = 1..n
  BY <1>2, Campos
<1> HIDE DEF s
<1>4. y \in Fichas(n) /\ y.estado = v /\ Quieta(x, y)
      /\ y.esperando_intercambio = x.esperando_intercambio
  <2> HIDE DEF x
  <2>1. v \in {"NEW", "READY", "EXEC", "BLOCK", "EXIT"}
    BY <1>3 DEF x, Fichas
  <2>2. QED
    BY <1>3, <2>1 DEF Fichas, Quieta
<1>5. Tomado(t, e, v) = [t EXCEPT !.semaforo_ready = s, !.ready = Tail(t.ready),
                                  !.entrenadores = [t.entrenadores EXCEPT ![e] = y]]
  BY DEF Tomado, s
<1> HIDE DEF y
<1>6. /\ Cantidad(t.ready, e) > 0
      /\ Saca(t, [t EXCEPT !.semaforo_ready = s, !.ready = Tail(t.ready),
                           !.entrenadores = [t.entrenadores EXCEPT ![e] = y]], n, e, y)
  BY <1>1, <1>4, SacarHace
<1>7. Saca(t, Tomado(t, e, v), n, e, y)
  BY <1>5, <1>6
<1>8. Tomado(t, e, v).entrenadores[e] = y
  BY <1>7 DEF Saca
<1>9. QED
  BY <1>2, <1>4, <1>6, <1>7, <1>8

LEMMA AvisoHace ==
  ASSUME NEW n \in Nat, NEW t \in Equipos(n), t.semaforo_ready > 0
  PROVE  Casi(t, Aviso(t), n)
<1> DEFINE s == t.semaforo_ready - 1
<1>1. s \in Nat
  BY DEF Equipos
<1>2. Aviso(t) = [t EXCEPT !.semaforo_ready = s]
  BY DEF Aviso
<1> HIDE DEF s
<1>3. QED
  BY <1>1, <1>2 DEF Casi, Equipos

EnTurno(c, e, r, z) == [c EXCEPT !.lugar = "rafaga", !.e = e, !.i = 1, !.n = r, !.largo = z]
SinTurno(u, e, r) ==
  /\ TEAM' \in {u, ActualizarEstimados(u, e, 0)} /\ r = 0
  /\ cpu' = MalAEvaluar /\ incidentes' = incidentes \cup {"sin rafagas"}
ConTurno(u, e, r) ==
  /\ TEAM' = u /\ r # 0 /\ incidentes' = incidentes
  /\ cpu' = EnTurno(cpu, e, r, Len(Tail(TEAM.ready)))

LEMMA TomarHace ==
  ASSUME NEW n \in Nat, TEAM \in Equipos(n), Tomar
  PROVE  \/ TEAM' = Aviso(TEAM) /\ cpu' = MalAEvaluar /\ incidentes' = incidentes
         \/ /\ TEAM.ready # <<>>
            /\ \E v \in {"EXEC"} \cup {TEAM.entrenadores[Head(TEAM.ready)].estado} :
                 LET e == Head(TEAM.ready)
                     u == Tomado(TEAM, e, v)
                     r == RafagasNecesarias(Aviso(TEAM), e)
                 IN  SinTurno(u, e, r) \/ ConTurno(u, e, r)
<1> DEFINE t == Aviso(TEAM)
           e == Head(t.ready)
           r == RafagasNecesarias(t, e)
           u == [t EXCEPT !.ready = Tail(@)]
           x == [u EXCEPT !.entrenadores[e].estado = IF t.planificador = "SJF_SD" THEN @ ELSE "EXEC"]
           v == IF t.planificador = "SJF_SD" THEN TEAM.entrenadores[Head(TEAM.ready)].estado ELSE "EXEC"
<1>1. t.ready = TEAM.ready /\ t.entrenadores = TEAM.entrenadores
  BY DEF Aviso, Equipos
<1>2. e = Head(TEAM.ready)
  BY <1>1
<1>3. x = Tomado(TEAM, e, v)
  BY <1>1, <1>2 DEF Aviso, Tomado, Equipos
<1>4. u.ready = Tail(TEAM.ready)
  BY <1>1 DEF Aviso, Equipos
<1>5. v \in {"EXEC"} \cup {TEAM.entrenadores[Head(TEAM.ready)].estado}
  OBVIOUS
<1>6. \/ TEAM' = t /\ cpu' = MalAEvaluar /\ incidentes' = incidentes
      \/ /\ t.ready # <<>>
         /\ \/ /\ TEAM' \in {x, ActualizarEstimados(x, e, 0)} /\ r = 0
               /\ cpu' = MalAEvaluar /\ incidentes' = incidentes \cup {"sin rafagas"}
            \/ /\ TEAM' = x /\ r # 0 /\ incidentes' = incidentes
               /\ cpu' = [cpu EXCEPT !.lugar = "rafaga", !.e = e, !.i = 1, !.n = r,
                                     !.largo = Len(u.ready)]
  BY Zenon DEF Tomar, Aviso, MalAEvaluar
<1> HIDE DEF t, x, u, v, r
<1>7. QED
  BY <1>1, <1>2, <1>3, <1>4, <1>5, <1>6 DEF t, r, SinTurno, ConTurno, EnTurno

LEMMA AlLugar ==
  ASSUME NEW n \in Nat, cpu \in Hilos(n), Corre(cpu), cpu.e = 0
  PROVE  MalAEvaluar \in Hilos(n) /\ Corre(MalAEvaluar) /\ MalAEvaluar.e = 0
         /\ MalAEvaluar.etapa = cpu.etapa /\ MalAEvaluar.lugar = "evaluar"
BY OtroLugar DEF MalAEvaluar

LEMMA EnRafaga ==
  ASSUME NEW n \in Nat, NEW c \in Hilos(n), NEW e \in 1..n, NEW r \in Int, NEW z \in Int, NEW c2,
         c2 = EnTurno(c, e, r, z)
  PROVE  /\ c2 \in Hilos(n) /\ Corre(c2) /\ c2.lugar = "rafaga" /\ c2.e = e /\ c2.etapa = c.etapa
<1> DEFINE et == c.etapa
           id == c.id
           y == [lugar |-> "rafaga", etapa |-> et, e |-> e, i |-> 1, n |-> r, largo |-> z, id |-> id]
<1>1. et \in {1, 2} /\ id \in Int /\ e \in 0..n /\ e # 0
  BY DEF Hilos
<1>2. c2 = y
  BY DEF Hilos, EnTurno
<1> HIDE DEF et, id
<1>3. y \in Hilos(n)
  BY <1>1 DEF Hilos
<1>a. y.e = e /\ y.lugar = "rafaga" /\ y.etapa = et
  OBVIOUS
<1>4. c2.e = e /\ c2.lugar = "rafaga" /\ c2.etapa = et
  BY <1>2, <1>a
<1>5. QED
  BY <1>1, <1>2, <1>3, <1>4 DEF Corre, et

LEMMA SigueTomar ==
  ASSUME IInv, Tomar
  PROVE  IInv'
<1>1. cayo = "no" /\ cpu.lugar = "esperar" /\ TEAM.semaforo_ready > 0
  BY DEF Tomar, Vivo
<1>2. /\ SoloElHilo /\ UNCHANGED <<aceptados, cayo, resolutores>>
  BY DEF Tomar, SoloElHilo, mensajes, sistema
<1> DEFINE n == NE
           t == TEAM
           c2 == cpu'
           j == incidentes'
           Ahora1(u, c, i) == Todo(u, n, c, caught, i, resolutores, aceptados)
<1>3. n \in Nat /\ t \in Equipos(n) /\ cpu \in Hilos(n) /\ Corre(cpu) /\ Ahora1(t, cpu, incidentes)
      /\ resolutores \in Nat
  BY <1>1, Ahora DEF TiposHistoria
<1>4. cpu.e = 0
  BY <1>1, <1>3 DEF Corre
<1>5. SUFFICES c2 \in Hilos(n) /\ Corre(c2) /\ Ahora1(TEAM', c2, j) /\ MismaEspera(t, TEAM', n)
  <2>1. ASSUME c2 \in Hilos(n), Corre(c2), Ahora1(TEAM', c2, j), MismaEspera(t, TEAM', n)
        PROVE  IInv'
    <3>1. SigueEsperando(t, n, cpu, TEAM', c2)
      BY <1>1, <2>1, EsperaIgual
    <3>2. QED
      BY <1>1, <1>2, <1>3, <2>1, <3>1, PasoDelHilo
  <2>2. QED
    BY <2>1
<1>6. MalAEvaluar \in Hilos(n) /\ Corre(MalAEvaluar) /\ MalAEvaluar.e = 0
      /\ MalAEvaluar.etapa = cpu.etapa
  BY <1>3, <1>4, AlLugar
<1> HIDE DEF n
<1>7. CASE TEAM' = Aviso(TEAM) /\ cpu' = MalAEvaluar /\ incidentes' = incidentes
  <2>1. Casi(t, TEAM', n)
    BY <1>1, <1>3, <1>7, AvisoHace
  <2>2. Ahora1(TEAM', cpu, incidentes) /\ MismaEspera(t, TEAM', n)
    BY <1>3, <2>1, CasiTodo
  <2>3. Ahora1(TEAM', c2, incidentes)
    BY <1>3, <1>4, <1>6, <1>7, <2>2, SinEntrenador
  <2>4. QED
    BY <1>6, <1>7, <2>2, <2>3
<1>8. ASSUME TEAM.ready # <<>>, NEW v \in {"EXEC"} \cup {TEAM.entrenadores[Head(TEAM.ready)].estado},
             NEW e, e = Head(TEAM.ready), NEW u, u = Tomado(TEAM, e, v), NEW r,
             r = RafagasNecesarias(Aviso(TEAM), e),
             SinTurno(u, e, r) \/ ConTurno(u, e, r)
      PROVE  c2 \in Hilos(n) /\ Corre(c2) /\ Ahora1(TEAM', c2, j) /\ MismaEspera(t, TEAM', n)
  <2> DEFINE y == u.entrenadores[e]
             x == t.entrenadores[e]
  <2>1. /\ e \in 1..n /\ Cantidad(t.ready, e) > 0 /\ Saca(t, u, n, e, y)
        /\ Quieta(x, y) /\ y.esperando_intercambio = x.esperando_intercambio /\ y.estado \in {x.estado, "EXEC"}
    <3>1. /\ e \in 1..n /\ Cantidad(t.ready, e) > 0
          /\ Saca(t, Tomado(t, e, v), n, e, Tomado(t, e, v).entrenadores[e])
          /\ Quieta(t.entrenadores[e], Tomado(t, e, v).entrenadores[e])
          /\ Tomado(t, e, v).entrenadores[e].esperando_intercambio
               = t.entrenadores[e].esperando_intercambio
          /\ Tomado(t, e, v).entrenadores[e].estado = v
      BY <1>1, <1>3, <1>8, TomadoHace
    <3>2. QED
      BY <1>8, <3>1
  <2>2. Casi(t, Aviso(TEAM), n)
    BY <1>1, <1>3, AvisoHace
  <2>3. r \in Int /\ (r # 0 => x.tarea # SinTarea)
    <3>1. Aviso(TEAM) \in Equipos(n) /\ Aviso(TEAM).entrenadores = t.entrenadores
      BY <2>2 DEF Casi
    <3>2. QED
      BY <1>3, <1>8, <2>1, <3>1, RafagasTipo
  <2>4. c2 \in Hilos(n) /\ Corre(c2) /\ c2.etapa = cpu.etapa /\ c2.e \in {0, e}
        /\ Toma(x, c2, incidentes, j, e)
    <3>1. CASE SinTurno(u, e, r)
      <4>1. c2 = MalAEvaluar /\ j = incidentes \cup {"sin rafagas"}
        BY <3>1 DEF SinTurno
      <4> HIDE DEF c2, j
      <4>2. QED
        <5>1. e # 0
          BY <1>3, <2>1
        <5>2. c2 \in Hilos(n) /\ Corre(c2) /\ c2.e = 0 /\ c2.etapa = cpu.etapa
          BY <1>6, <4>1
        <5>3. QED
          BY <4>1, <5>1, <5>2 DEF Toma
    <3>2. CASE ConTurno(u, e, r)
      <4> DEFINE z == Len(Tail(TEAM.ready))
      <4>1. z \in Int
        BY <1>3, <1>8 DEF Equipos
      <4>2. c2 = EnTurno(cpu, e, r, z) /\ r # 0 /\ j = incidentes
        BY <3>2 DEF ConTurno
      <4> HIDE DEF z, j
      <4> HIDE DEF c2
      <4>3. c2 \in Hilos(n) /\ Corre(c2) /\ c2.lugar = "rafaga" /\ c2.e = e /\ c2.etapa = cpu.etapa
        BY <1>3, <2>1, <2>3, <4>1, <4>2, EnRafaga
      <4>4. QED
        BY <2>3, <4>2, <4>3 DEF Toma
    <3>3. QED
      BY <1>8, <3>1, <3>2
  <2> HIDE DEF y, x, c2, j, t
  <2>5. Ahora1(u, c2, j) /\ MismaEspera(t, u, n)
    <3>1. QED
      BY <1>3, <1>4, <2>1, <2>4, TomaTodo DEF x
  <2>6. Ahora1(ActualizarEstimados(u, e, 0), c2, j) /\ MismaEspera(u, ActualizarEstimados(u, e, 0), n)
    BY <1>3, <2>1, <2>5, EstimarTodo
  <2>7. MismaEspera(t, ActualizarEstimados(u, e, 0), n)
    BY <2>5, <2>6 DEF MismaEspera
  <2>8. TEAM' \in {u, ActualizarEstimados(u, e, 0)}
    BY <1>8 DEF SinTurno, ConTurno
  <2>9. QED
    BY <2>4, <2>5, <2>6, <2>7, <2>8
<1>9. QED
  BY <1>3, <1>7, <1>8, TomarHace, Zenon

\* An action that takes the cpu from the trainer.
LEMMA PasoSinCpu ==
  ASSUME IInv, cayo = "no", SoloElHilo, UNCHANGED <<aceptados, cayo, incidentes>>, resolutores' \in Nat,
         cpu' = AEvaluar,
         Todo(TEAM', NE, cpu', caught, incidentes, resolutores', aceptados),
         SigueEsperando(TEAM, NE, cpu, TEAM', cpu')
  PROVE  IInv'
<1>1. cpu' \in Hilos(NE) /\ Corre(cpu')
  BY Ahora, AlEvaluar
<1>2. QED
  BY <1>1, PasoDelHilo

\* What is known of the trainer that runs a cycle.
LEMMA EnCiclo ==
  ASSUME IInv, cayo = "no", cpu.lugar = "rafaga",
         LET r == RafagasNecesarias(CicloCpu(TEAM, cpu.e), cpu.e) IN r > 0 \/ r = 0, NEW t, t = CicloCpu(TEAM, cpu.e)
  PROVE  /\ cpu.e \in 1..NE /\ cpu.i \in Int /\ cpu.etapa \in {1, 2} /\ NE \in Nat /\ cpu \in Hilos(NE)
         /\ Corre(cpu)
         /\ Todo(t, NE, cpu, caught, incidentes, resolutores, aceptados)
         /\ MismaEspera(TEAM, t, NE) /\ t.entrenadores[cpu.e].estado = "READY"
<1>1. /\ NE \in Nat /\ cpu \in Hilos(NE) /\ cpu.etapa \in {1, 2}
      /\ cpu.i \in Int /\ cpu.e \in 0..NE /\ Corre(cpu)
      /\ Todo(TEAM, NE, cpu, caught, incidentes, resolutores, aceptados)
  BY Ahora
<1>2. cpu.e \in 1..NE
  BY <1>1 DEF Corre
<1>3. /\ Todo(t, NE, cpu, caught, incidentes, resolutores, aceptados)
      /\ MismaEspera(TEAM, t, NE) /\ t.entrenadores[cpu.e].estado = "READY"
  BY <1>1, <1>2, CicloTodo
<1>4. QED
  BY <1>1, <1>2, <1>3

LEMMA OtraRafaga ==
  ASSUME NEW n \in Nat, NEW c \in Hilos(n), Corre(c), NEW c2, c2 = [c EXCEPT !.i = @ + 1]
  PROVE  /\ c2 \in Hilos(n) /\ Corre(c2) /\ c2.lugar = c.lugar /\ c2.e = c.e /\ c2.etapa = c.etapa
         /\ c2.id = c.id
<1> DEFINE v == c.i + 1
<1>1. v \in Int /\ c2 = [c EXCEPT !.i = v]
  BY DEF Hilos
<1> HIDE DEF v
<1>2. /\ c2 \in Hilos(n) /\ c2.lugar = c.lugar /\ c2.e = c.e /\ c2.etapa = c.etapa /\ c2.id = c.id
  BY <1>1 DEF Hilos
<1>3. QED
  BY <1>2 DEF Corre

\* The main thread is told of the same trainer.
LEMMA MismoEntrenador ==
  ASSUME NEW n \in Nat, NEW t, NEW c, NEW k, NEW i, NEW res, NEW ac, NEW c2,
         Todo(t, n, c, k, i, res, ac), c2.e = c.e, c2.etapa = c.etapa,
         c2.lugar = c.lugar \/ (c.lugar = "enviar" /\ c2.lugar = "anotar")
  PROVE  Todo(t, n, c2, k, i, res, ac)
<1>1. t \in Equipos(n) /\ Orden(t, n, c, k, i, res) /\ Cuentas(t, n, k, ac)
  BY DEF Todo
<1>2. \A x \in 1..n : Manos(c, k, c2, k, x)
  BY DEF Manos
<1>3. Orden(t, n, c2, k, i, res)
  BY <1>1, <1>2, OrdenIgual
<1>4. QED
  BY <1>1, <1>3 DEF Todo

LEMMA SigueCiclo ==
  ASSUME IInv, Ciclo
  PROVE  IInv'
<1> DEFINE n == NE
           e == cpu.e
           t == CicloCpu(TEAM, e)
           Ahora1(u, c) == Todo(u, n, c, caught, incidentes, resolutores, aceptados)
<1>1. cayo = "no" /\ cpu.lugar = "rafaga" /\ RafagasNecesarias(t, e) > 0
  BY DEF Ciclo, Vivo
<1>2. /\ SoloElHilo /\ UNCHANGED <<aceptados, cayo, incidentes, resolutores>>
  BY DEF Ciclo, SoloElHilo, mensajes, sistema, historia
<1>3. /\ e \in 1..n /\ cpu.i \in Int /\ n \in Nat /\ cpu \in Hilos(n) /\ Corre(cpu)
      /\ Ahora1(t, cpu) /\ MismaEspera(TEAM, t, n) /\ resolutores \in Nat
  BY <1>1, EnCiclo, Ahora DEF TiposHistoria
<1>4. CASE TEAM' = AgregarAReady(Descansa(t), e) /\ cpu' = AEvaluar
  <2> DEFINE d == Descansa(t)
  <2>1. SinCpu(cpu, AEvaluar)
    BY <1>3, AlEvaluar
  <2> HIDE DEF n, t
  <2>2. Ahora1(d, cpu) /\ MismaEspera(t, d, n)
    BY <1>3, DescansaTodo
  <2> HIDE DEF d
  <2>3. Ahora1(AgregarAReady(d, e), AEvaluar) /\ MismaEspera(d, AgregarAReady(d, e), n)
    BY <1>1, <1>3, <2>1, <2>2, VuelveTodo
  <2>4. MismaEspera(TEAM, AgregarAReady(d, e), n)
    BY <1>3, <2>2, <2>3 DEF MismaEspera
  <2>5. TEAM' = AgregarAReady(d, e) /\ cpu' = AEvaluar
    BY <1>4 DEF d
  <2>6. SigueEsperando(TEAM, n, cpu, TEAM', cpu')
    BY <1>1, <2>4, <2>5, EsperaIgual
  <2>7. QED
    BY <1>1, <1>2, <1>3, <2>3, <2>5, <2>6, PasoSinCpu DEF n
<1>5. CASE TEAM' = t /\ cpu' = [cpu EXCEPT !.i = @ + 1]
  <2>1. cpu' \in Hilos(n) /\ Corre(cpu') /\ cpu'.lugar = cpu.lugar /\ cpu'.e = cpu.e
        /\ cpu'.etapa = cpu.etapa /\ cpu'.id = cpu.id
    BY <1>3, <1>5, OtraRafaga
  <2> HIDE DEF n, t
  <2>2. Ahora1(t, cpu')
    <3> DEFINE a == cpu
               b == cpu'
    <3>1. Ahora1(t, a) /\ b.lugar = a.lugar /\ b.e = a.e /\ b.etapa = a.etapa /\ n \in Nat
      BY <1>3, <2>1
    <3> HIDE DEF a, b
    <3>2. Ahora1(t, b)
      BY <3>1, MismoEntrenador
    <3>3. QED
      BY <3>2 DEF b
  <2>3. SigueEsperando(TEAM, n, cpu, TEAM', cpu')
    BY <1>1, <1>3, <1>5, EsperaIgual
  <2>4. QED
    BY <1>1, <1>2, <1>3, <1>5, <2>1, <2>2, <2>3, PasoDelHilo DEF n
<1>6. QED
  BY <1>4, <1>5 DEF Ciclo

\* The last thing that the trainer of the cpu does: what the planner thread adds.
LEMMA YDescansa ==
  ASSUME NEW n \in Nat, NEW t, NEW u, NEW c, NEW c2, NEW k, NEW i, NEW res, NEW ac,
         Todo(u, n, c2, k, i, res, ac), SigueEsperando(t, n, c, u, c2),
         cpu.e \in 1..n, cpu.i \in Int
  PROVE  Todo(Descansa(u), n, c2, k, i, res, ac) /\ SigueEsperando(t, n, c, Descansa(u), c2)
<1>1. Todo(Descansa(u), n, c2, k, i, res, ac) /\ MismaEspera(u, Descansa(u), n)
  BY DescansaTodo
<1>2. QED
  BY <1>1, SigueMas

LEMMA SigueDelCiclo ==
  ASSUME NEW n, NEW t, NEW u, NEW v, NEW c, NEW c2, MismaEspera(t, u, n), SigueEsperando(u, n, c, v, c2)
  PROVE  SigueEsperando(t, n, c, v, c2)
<1>1. \A id \in Int : Espera1(t, n, c, id) => Espera1(u, n, c, id)
  BY DEF MismaEspera, Espera1
<1>2. QED
  BY <1>1 DEF SigueEsperando

LEMMA SigueAtraparPorDefault ==
  ASSUME IInv, AtraparPorDefault
  PROVE  IInv'
<1> DEFINE n == NE
           e == cpu.e
           t == CicloCpu(TEAM, e)
           u == PorDefault(t, e)
           Ahora1(w, c) == Todo(w, n, c, caught, incidentes, resolutores, aceptados)
<1>1. /\ cayo = "no" /\ cpu.lugar = "rafaga" /\ RafagasNecesarias(t, e) = 0
      /\ t.entrenadores[e].tarea.tipo_tarea = "ATRAPAR" /\ cpu' = AEvaluar
  BY DEF AtraparPorDefault, Vivo
<1>2. /\ SoloElHilo /\ UNCHANGED <<aceptados, cayo, incidentes, resolutores>>
  BY DEF AtraparPorDefault, SoloElHilo, mensajes, sistema, historia
<1>3. /\ e \in 1..n /\ cpu.i \in Int /\ n \in Nat /\ cpu \in Hilos(n) /\ Corre(cpu) /\ cpu.etapa \in {1, 2}
      /\ Ahora1(t, cpu) /\ MismaEspera(TEAM, t, n) /\ resolutores \in Nat
  BY <1>1, EnCiclo, Ahora DEF TiposHistoria
<1>4. TEAM' = Descansa(u)
  BY DEF AtraparPorDefault, PorDefault
<1>5. SinCpu(cpu, AEvaluar)
  BY <1>3, AlEvaluar
<1>6. Atrapa(t.entrenadores[e])
  BY <1>1 DEF Atrapa
<1> HIDE DEF n, t
<1>7. Ahora1(u, AEvaluar) /\ SigueEsperando(t, n, cpu, u, AEvaluar)
  BY <1>1, <1>3, <1>5, <1>6, DefaultTodo
<1> HIDE DEF u
<1>8. SigueEsperando(TEAM, n, cpu, u, AEvaluar)
  BY <1>3, <1>7, SigueDelCiclo
<1>9. Ahora1(Descansa(u), AEvaluar) /\ SigueEsperando(TEAM, n, cpu, Descansa(u), AEvaluar)
  BY <1>3, <1>7, <1>8, YDescansa
<1>10. QED
  BY <1>1, <1>2, <1>3, <1>4, <1>9, PasoSinCpu DEF n

LEMMA SigueBloquear ==
  ASSUME IInv, Bloquear
  PROVE  IInv'
<1> DEFINE n == NE
           e == cpu.e
           t == CicloCpu(TEAM, e)
           x == t.entrenadores[e]
           u == Pon(t, e, Bloqueada(x))
           Ahora1(w, c) == Todo(w, n, c, caught, incidentes, resolutores, aceptados)
<1>1. /\ cayo = "no" /\ cpu.lugar = "rafaga" /\ RafagasNecesarias(t, e) = 0
      /\ x.tarea.tipo_tarea = "ATRAPAR"
      /\ cpu' = [cpu EXCEPT !.lugar = "enviar"]
  BY DEF Bloquear, Vivo
<1>2. /\ SoloElHilo /\ UNCHANGED <<aceptados, cayo, incidentes, resolutores>>
  BY DEF Bloquear, SoloElHilo, mensajes, sistema, historia
<1>3. /\ e \in 1..n /\ cpu.i \in Int /\ n \in Nat /\ cpu \in Hilos(n) /\ Corre(cpu) /\ cpu.etapa \in {1, 2}
      /\ Ahora1(t, cpu) /\ MismaEspera(TEAM, t, n) /\ resolutores \in Nat
  BY <1>1, EnCiclo, Ahora DEF TiposHistoria
<1>4. TEAM' = u
  BY DEF Bloquear, Pon, Bloqueada
<1>5. cpu' \in Hilos(n) /\ Corre(cpu') /\ cpu'.lugar = "enviar" /\ cpu'.e = e /\ cpu'.etapa = cpu.etapa
  <2>1. e # 0
    BY <1>3
  <2>2. QED
    BY <1>1, <1>3, <2>1, OtroLugar
<1>6. Atrapa(x)
  BY <1>1 DEF Atrapa
<1> HIDE DEF n, t
<1>7. /\ Ahora1(u, cpu')
      /\ MasEspera(t, u, n)
  BY <1>1, <1>3, <1>5, <1>6, BloquearTodo
<1> HIDE DEF u
<1>8. SigueEsperando(TEAM, n, cpu, u, cpu')
  BY <1>1, <1>3, <1>7 DEF SigueEsperando, Espera1, MismaEspera, MasEspera
<1>9. QED
  BY <1>1, <1>2, <1>3, <1>4, <1>5, <1>7, <1>8, PasoDelHilo DEF n

LEMMA SigueAnotarId ==
  ASSUME IInv, AnotarId
  PROVE  IInv'
<1> DEFINE n == NE
           e == cpu.e
           t == TEAM
           x == t.entrenadores[e]
           u == Pon(t, e, Anotada(x, cpu.id))
           Ahora1(w, c) == Todo(w, n, c, caught, incidentes, resolutores, aceptados)
<1>1. /\ cayo = "no" /\ cpu.lugar = "anotar" /\ cpu' = AEvaluar
  BY DEF AnotarId, Vivo
<1>2. /\ SoloElHilo /\ UNCHANGED <<aceptados, cayo, incidentes, resolutores>>
  BY DEF AnotarId, SoloElHilo, mensajes, sistema, historia
<1>3. /\ cpu.e \in 0..n /\ cpu.i \in Int /\ n \in Nat /\ cpu \in Hilos(n) /\ Corre(cpu) /\ cpu.etapa \in {1, 2}
      /\ Ahora1(t, cpu) /\ resolutores \in Nat /\ cpu.id \in Int
  BY <1>1, Ahora DEF TiposHistoria
<1>4. cpu.e \in 1..n
  BY <1>1, <1>3 DEF Corre
<1>5. TEAM' = Descansa(u)
  BY DEF AnotarId, Pon, Anotada
<1>6. SinCpu(cpu, AEvaluar)
  BY <1>3, AlEvaluar
<1> HIDE DEF n, t
<1>7. Ahora1(u, AEvaluar) /\ SigueEsperando(t, n, cpu, u, AEvaluar)
  BY <1>1, <1>3, <1>4, <1>6, AnotarTodo
<1> HIDE DEF u
<1>8. Ahora1(Descansa(u), AEvaluar) /\ SigueEsperando(t, n, cpu, Descansa(u), AEvaluar)
  BY <1>3, <1>4, <1>7, YDescansa
<1>9. QED
  BY <1>1, <1>2, <1>3, <1>5, <1>8, PasoSinCpu DEF n, t

LEMMA SigueIntercambiar ==
  ASSUME IInv, IntercambiarPokemones
  PROVE  IInv'
<1> DEFINE n == NE
           e == cpu.e
           t == CicloCpu(TEAM, e)
           u == Intercambiar(t, e)
           Ahora1(w, c, r) == Todo(w, n, c, caught, incidentes, r, aceptados)
<1>1. /\ cayo = "no" /\ cpu.lugar = "rafaga" /\ RafagasNecesarias(t, e) = 0
      /\ t.entrenadores[e].tarea.tipo_tarea = "INTERCAMBIO" /\ cpu' = AEvaluar
      /\ TEAM' = Descansa(u) /\ resolutores' \in {resolutores, resolutores + 1}
  BY DEF IntercambiarPokemones, Vivo
<1>2. /\ SoloElHilo /\ UNCHANGED <<aceptados, cayo, incidentes>>
  BY DEF IntercambiarPokemones, SoloElHilo, mensajes, sistema, historia
<1>3. /\ e \in 1..n /\ cpu.i \in Int /\ n \in Nat /\ cpu \in Hilos(n) /\ Corre(cpu) /\ cpu.etapa \in {1, 2}
      /\ Ahora1(t, cpu, resolutores) /\ MismaEspera(TEAM, t, n) /\ resolutores \in Nat
  BY <1>1, EnCiclo, Ahora DEF TiposHistoria
<1>5. SinCpu(cpu, AEvaluar)
  BY <1>3, AlEvaluar
<1>6. Va(t.entrenadores[e])
  BY <1>1 DEF Va
<1>7. resolutores' \in Nat
  BY <1>1, <1>3
<1> DEFINE r == resolutores'
<1> HIDE DEF n, t, r
<1>8. Ahora1(u, AEvaluar, r) /\ MismaEspera(t, u, n)
  BY <1>1, <1>3, <1>5, <1>6, IntercambioTodo
<1> HIDE DEF u
<1>9. SigueEsperando(TEAM, n, cpu, u, AEvaluar)
  <2>1. MismaEspera(TEAM, u, n)
    BY <1>3, <1>8 DEF MismaEspera
  <2>2. QED
    BY <1>1, <2>1, EsperaIgual
<1>10. Ahora1(Descansa(u), AEvaluar, r) /\ SigueEsperando(TEAM, n, cpu, Descansa(u), AEvaluar)
  BY <1>3, <1>8, <1>9, YDescansa
<1>11. QED
  BY <1>1, <1>2, <1>7, <1>10, PasoSinCpu DEF n, r

LEMMA UnoMenos ==
  ASSUME NEW n \in Nat, NEW t, NEW c, NEW k, NEW i, NEW res, NEW ac, NEW res2,
         Todo(t, n, c, k, i, res, ac), c.etapa = 2
  PROVE  Todo(t, n, c, k, i, res2, ac)
<1>1. t \in Equipos(n) /\ Orden(t, n, c, k, i, res) /\ Cuentas(t, n, k, ac)
  BY DEF Todo
<1>2. \A x \in 1..n : Manos(c, k, c, k, x)
  BY DEF Manos
<1>3. Orden(t, n, c, k, i, res2)
  BY <1>1, <1>2, OrdenIgual
<1>4. QED
  BY <1>1, <1>3 DEF Todo

LEMMA SigueResolver ==
  ASSUME IInv, ResolverEnHilo
  PROVE  IInv'
<1> DEFINE n == NE
           t == TEAM
           u == ResolverDeadlock(t)
           r == resolutores'
           Ahora1(w, q) == Todo(w, n, cpu, caught, incidentes, q, aceptados)
<1>1. /\ cayo = "no" /\ resolutores > 0 /\ r = resolutores - 1 /\ TEAM' = u /\ cpu' = cpu
  BY DEF ResolverEnHilo, Vivo
<1>2. /\ SoloElHilo /\ UNCHANGED <<aceptados, cayo, incidentes>>
  BY DEF ResolverEnHilo, SoloElHilo, mensajes, sistema, historia
<1>3. /\ n \in Nat /\ cpu \in Hilos(n) /\ Corre(cpu) /\ cpu.etapa \in {1, 2}
      /\ Ahora1(t, resolutores) /\ resolutores \in Nat
  BY <1>1, Ahora DEF TiposHistoria
<1>4. cpu.etapa = 2
  <2>1. Fases(t, n, cpu, incidentes, resolutores)
    BY <1>3 DEF Todo, Orden
  <2>2. cpu.etapa = 1 => resolutores = 0
    BY <2>1 DEF Fases
  <2>3. resolutores # 0
    BY <1>1, <1>3
  <2>4. QED
    BY <1>3, <2>2, <2>3
<1>5. r \in Nat
  BY <1>1, <1>3
<1> HIDE DEF n, t, r
<1>6. Ahora1(u, resolutores) /\ MismaEspera(t, u, n)
  BY <1>3, <1>4, ResolverTodo
<1> HIDE DEF u
<1>7. Ahora1(u, r)
  BY <1>3, <1>4, <1>6, UnoMenos
<1>8. SigueEsperando(t, n, cpu, u, cpu)
  BY <1>6, EsperaIgual
<1>9. QED
  BY <1>1, <1>2, <1>3, <1>5, <1>7, <1>8, PasoDelHilo DEF n, t, r

\* The id of a CATCH is one that no message has yet.
LEMMA IdentidadesEnviar ==
  ASSUME NEW E, NEW F, NEW ids, NEW prox \in Nat \ {0}, NEW cola, NEW pend, NEW resp, NEW pk, NEW q,
         Identidades(E, ids, prox, cola, pend, resp), E \subseteq F, prox \in F,
         ids \subseteq Int,
         \A p \in pend : p.id \in Int,
         \A i \in DOMAIN cola : cola[i].id \in Int,
         q = [id |-> prox, pokemon |-> pk]
  PROVE  Identidades(F, ids \cup {prox}, prox + 1, cola, pend \cup {q}, resp)
<1>1. q.id = prox /\ prox # -1
  OBVIOUS
<1>2. \A p \in pend : p.id # prox
  BY DEF Identidades
<1>3. \A i \in DOMAIN cola : cola[i].id # prox
  BY DEF Identidades
<1>4. \A m \in resp : m.id # prox
  BY DEF Identidades
<1>5. \A v : v \in 1..(prox - 1) => v \in 1..((prox + 1) - 1)
  OBVIOUS
<1>6. prox \in 1..((prox + 1) - 1)
  OBVIOUS
<1>7. \A x \in ids \cup {prox} : x = -1 \/ x \in 1..((prox + 1) - 1)
  BY <1>5, <1>6 DEF Identidades
<1>8. \A p \in pend \cup {q} :
        /\ p.id \in ids \cup {prox} /\ p.id # -1 /\ p.id \in F
        /\ \A z \in pend \cup {q} : z.id = p.id => z = p
  BY <1>1, <1>2 DEF Identidades
<1>9. \A i \in DOMAIN cola :
       /\ cola[i].id \in 1..((prox + 1) - 1)
       /\ \A p \in pend \cup {q} : p.id # cola[i].id
       /\ ~cola[i].copia /\ cola[i].id \in ids \cup {prox} => cola[i].id \in F
  BY <1>1, <1>3, <1>5 DEF Identidades
<1>10. \A m \in resp : m.id \in 1..((prox + 1) - 1) /\ \A p \in pend \cup {q} : p.id # m.id
  BY <1>1, <1>4, <1>5 DEF Identidades
<1>11. \A i, j \in DOMAIN cola : i < j /\ ~cola[j].copia => cola[j].id # cola[i].id
  BY DEF Identidades
<1> DEFINE prox2 == prox + 1
           ids2 == ids \cup {prox}
           pend2 == pend \cup {q}
<1> HIDE DEF prox2, ids2, pend2
<1>12. Identidades(F, ids2, prox2, cola, pend2, resp)
  BY <1>7, <1>8, <1>9, <1>10, <1>11 DEF Identidades, prox2, ids2, pend2
<1>13. QED
  BY <1>12 DEF prox2, ids2, pend2

LEMMA IdentidadesSinId ==
  ASSUME NEW E, NEW F, NEW ids, NEW prox, NEW cola, NEW pend, NEW resp,
         Identidades(E, ids, prox, cola, pend, resp), E \subseteq F, prox \in Nat
  PROVE  Identidades(F, ids \cup {-1}, prox, cola, pend, resp)
<1> DEFINE ids2 == ids \cup {-1}
<1>1. \A x \in ids2 : x = -1 \/ x \in 1..(prox - 1)
  BY DEF Identidades
<1>2. \A i \in DOMAIN cola : cola[i].id # -1
  BY DEF Identidades
<1>3. \A i \in DOMAIN cola : ~cola[i].copia /\ cola[i].id \in ids2 => cola[i].id \in F
  BY <1>2 DEF Identidades
<1>4. \A p \in pend : p.id \in ids2
  BY DEF Identidades
<1> HIDE DEF ids2
<1>5. Identidades(F, ids2, prox, cola, pend, resp)
  BY <1>1, <1>3, <1>4 DEF Identidades
<1>6. QED
  BY <1>5 DEF ids2

Anotando(c, v) == [c EXCEPT !.lugar = "anotar", !.id = v]
LEMMA ConId ==
  ASSUME NEW n \in Nat, NEW c \in Hilos(n), c.e # 0, NEW v \in Int, NEW c2,
         c2 = Anotando(c, v)
  PROVE  /\ c2 \in Hilos(n) /\ Corre(c2) /\ c2.lugar = "anotar" /\ c2.e = c.e /\ c2.etapa = c.etapa
         /\ c2.id = v
<1>1. /\ c2 \in Hilos(n) /\ c2.lugar = "anotar" /\ c2.e = c.e /\ c2.etapa = c.etapa /\ c2.id = v
  BY DEF Hilos, Anotando
<1>2. QED
  BY <1>1 DEF Corre

LEMMA SigueEnviarCatch ==
  ASSUME IInv, EnviarCatch
  PROVE  IInv'
<1> DEFINE n == NE
           e == cpu.e
           t == TEAM
           v == IF broker THEN proximoId ELSE -1
           p == Entrenador(e).tarea.pokemon
           q == [id |-> proximoId, pokemon |-> p]
           E == Esperados(t, n, cpu)
           F == Esperados(t, n, cpu')
           cola == colas["CAUGHT"]
           Ahora1(c, i) == Todo(t, n, c, caught, i, resolutores, aceptados)
<1>1. /\ cayo = "no" /\ cpu.lugar = "enviar" /\ cpu' = [cpu EXCEPT !.lugar = "anotar", !.id = v]
  BY DEF EnviarCatch, Vivo
<1>2. /\ UNCHANGED <<TEAM, caught, resolutores, colas, respondidos, aceptados, cayo, appeared, libres, suscripto,
                     conectado, broker>>
  BY DEF EnviarCatch
<1>3. \/ /\ broker /\ proximoId' = proximoId + 1 /\ idsCatch' = idsCatch \cup {proximoId}
         /\ pendientes' = pendientes \cup {q} /\ incidentes' = incidentes
      \/ /\ ~broker /\ idsCatch' = idsCatch \cup {-1} /\ incidentes' = incidentes \cup {"sin id"}
         /\ proximoId' = proximoId /\ pendientes' = pendientes
  BY DEF EnviarCatch
<1>4. /\ n \in Nat /\ t \in Equipos(n) /\ cpu \in Hilos(n) /\ Corre(cpu) /\ cpu.etapa \in {1, 2}
      /\ Ahora1(cpu, incidentes) /\ TiposSistema /\ TiposHistoria /\ Conocidos
      /\ Recibido(caught, n) /\ cpu.e \in 0..n
  BY <1>1, Ahora
<1>5. e \in 1..n /\ e # 0
  BY <1>1, <1>4 DEF Corre
<1>6. v \in Int /\ proximoId \in Nat \ {0} /\ idsCatch \subseteq Int
      /\ (\A x \in pendientes : x \in [id : Int, pokemon : Pokemones])
      /\ cola \in Seq(Avisos)
  BY <1>4 DEF TiposSistema
<1>7. cpu' \in Hilos(n) /\ Corre(cpu') /\ cpu'.lugar = "anotar" /\ cpu'.e = e /\ cpu'.etapa = cpu.etapa
      /\ cpu'.id = v
  <2> DEFINE c == cpu
             c2 == cpu'
  <2>1. n \in Nat /\ c \in Hilos(n) /\ c.e # 0 /\ v \in Int /\ c2 = Anotando(c, v)
    BY <1>1, <1>4, <1>5, <1>6 DEF Anotando
  <2> HIDE DEF v, c, c2, n
  <2>2. /\ c2 \in Hilos(n) /\ Corre(c2) /\ c2.lugar = "anotar" /\ c2.e = c.e /\ c2.etapa = c.etapa
        /\ c2.id = v
    BY <2>1, ConId
  <2>3. QED
    BY <2>2 DEF c, c2
<1>8. p \in Pokemones
  <2>1. Puesto(t.entrenadores[e], Cantidad(t.desocupados, e), Cantidad(t.ready, e), cpu, caught, incidentes, e)
    BY <1>4, <1>5 DEF Todo, Orden, Puestos
  <2>2. Atrapa(t.entrenadores[e])
    <3> DEFINE x == t.entrenadores[e]
               d == Cantidad(t.desocupados, e)
               r == Cantidad(t.ready, e)
    <3>1. Puesto(x, d, r, cpu, caught, incidentes, e)
      BY <2>1
    <3> HIDE DEF x, d, r
    <3>2. Atrapa(x)
      BY <1>1, <3>1 DEF Puesto
    <3>3. QED
      BY <3>2 DEF x
  <2>3. t.entrenadores[e] \in Fichas(n)
    BY <1>4, <1>5, Campos
  <2>4. QED
    BY <2>2, <2>3, TareaDeCaptura DEF Entrenador
<1>9. TiposSistema'
  <2>1. proximoId' \in Nat \ {0} /\ idsCatch' \subseteq Int
    <3>1. proximoId \in Nat \ {0} /\ idsCatch \subseteq Int
      BY <1>6
    <3>2. \/ proximoId' = proximoId + 1 /\ idsCatch' = idsCatch \cup {proximoId}
          \/ proximoId' = proximoId /\ idsCatch' = idsCatch \cup {-1}
      BY <1>3
    <3>3. proximoId' \in Nat \ {0}
      BY <3>1, <3>2
    <3>4. proximoId \in Int /\ -1 \in Int
      BY <3>1
    <3>5. idsCatch' \subseteq Int
      BY <3>1, <3>2, <3>4, Zenon
    <3>6. QED
      BY <3>3, <3>5
  <2>2. \A x \in pendientes' : x \in [id : Int, pokemon : Pokemones]
    <3> HIDE DEF p
    <3>1. q \in [id : Int, pokemon : Pokemones]
      BY <1>6, <1>8
    <3> HIDE DEF q
    <3>2. QED
      BY <1>3, <1>6, <3>1
  <2>3. QED
    BY <1>2, <1>4, <2>1, <2>2 DEF TiposSistema
<1>10. TiposHistoria'
  BY <1>2, <1>4, HistoriaSigue
<1>11. incidentes \subseteq incidentes' /\ ("pisado" \in incidentes' => "pisado" \in incidentes)
  BY <1>3
<1> DEFINE a == cpu
           b == cpu'
           j == incidentes'
<1>12. Ahora1(b, j)
  <2>1. Ahora1(a, incidentes) /\ b.lugar = "anotar" /\ a.lugar = "enviar" /\ b.e = a.e
        /\ b.etapa = a.etapa /\ n \in Nat
    BY <1>1, <1>4, <1>7
  <2>2. incidentes \subseteq j /\ ("pisado" \in j => "pisado" \in incidentes)
    BY <1>11
  <2> HIDE DEF a, b, n, t, j
  <2>3. Ahora1(b, incidentes)
    BY <2>1, MismoEntrenador
  <2>4. QED
    BY <2>1, <2>2, <2>3, MasIncidentes
<1>13. E \subseteq F /\ v \in F
  <2>1. cpu.lugar # "anotar" /\ cpu'.lugar = "anotar" /\ cpu'.id = v
    BY <1>1, <1>7
  <2>2. QED
    BY <1>6, <2>1 DEF Esperados, Espera1
<1>14. Identidades(E, idsCatch, proximoId, cola, pendientes, respondidos)
  BY <1>4 DEF Conocidos
<1>15. Identidades(F, idsCatch', proximoId', cola, pendientes', respondidos)
  <2>1. (\A x \in pendientes : x.id \in Int) /\ \A i \in DOMAIN cola : cola[i].id \in Int
    <3>1. \A x \in pendientes : x.id \in Int
      BY <1>6
    <3>2. \A i \in DOMAIN cola : cola[i] \in Avisos
      BY <1>6
    <3>3. QED
      BY <3>1, <3>2 DEF Avisos
  <2> HIDE DEF E, F, cola, p
  <2>2. CASE broker
    <3>1. v = proximoId
      BY <2>2
    <3>2. Identidades(F, idsCatch \cup {proximoId}, proximoId + 1, cola, pendientes \cup {q}, respondidos)
      BY <1>6, <1>13, <1>14, <2>1, <3>1, IdentidadesEnviar
    <3>3. QED
      BY <1>3, <2>2, <3>2
  <2>3. CASE ~broker
    <3>1. Identidades(F, idsCatch \cup {-1}, proximoId, cola, pendientes, respondidos)
      BY <1>6, <1>13, <1>14, IdentidadesSinId
    <3>2. QED
      BY <1>3, <2>3, <3>1
  <2>4. QED
    BY <2>2, <2>3
<1>16. NE' = NE
  BY <1>2 DEF NE
<1>17. Conocidos' /\ Bien'
  BY <1>2, <1>12, <1>15, <1>16 DEF Conocidos, Bien
<1>18. TiposEquipo(TEAM', NE', cpu', caught') /\ NE' \in Nat
  BY <1>2, <1>4, <1>7, <1>16 DEF TiposEquipo
<1>19. QED
  BY <1>9, <1>10, <1>17, <1>18 DEF IInv

LEMMA DeConjunto ==
  ASSUME NEW S, IsFiniteSet(S)
  PROVE  SetToSeq(S) \in Seq(S)
<1> DEFINE m == Cardinality(S)
<1>1. m \in Nat /\ ExistsBijection(1..m, S)
  BY FS_CardinalityType
<1>2. \E f \in [1..m -> S] : IsInjective(f)
  BY <1>1 DEF ExistsBijection, Bijection, Injection, Surjection, IsInjective
<1>3. SetToSeq(S) \in [1..m -> S]
  BY <1>2, Zenon DEF SetToSeq
<1> HIDE DEF m
<1>4. QED
  BY <1>1, <1>3

\* The types of a queue that changes.
LEMMA OtraCola ==
  ASSUME DOMAIN colas = Colas, NEW q \in Colas, NEW v, colas' = [colas EXCEPT ![q] = v]
  PROVE  /\ DOMAIN colas' = Colas /\ colas'[q] = v
         /\ \A z \in Colas : z # q => colas'[z] = colas[z]
OBVIOUS

LEMMA SigueVerificarAppeared ==
  ASSUME IInv, VerificarAppeared
  PROVE  IInv'
<1> DEFINE p == Head(colas["APPEARED"])
           v == Tail(colas["APPEARED"])
<1>1. /\ cayo = "no" /\ colas["APPEARED"] # <<>> /\ colas' = [colas EXCEPT !["APPEARED"] = v]
      /\ appeared' \in {appeared, [que |-> "agregar", pokemon |-> p]}
  BY DEF VerificarAppeared, Vivo
<1>2. UNCHANGED <<TEAM, cpu, resolutores, idsCatch, proximoId, caught, suscripto, conectado, broker, libres,
                  pendientes, respondidos, aceptados, incidentes, cayo>>
  BY DEF VerificarAppeared, sistema, historia
<1>3. TiposSistema
  BY <1>1, Ahora
<1>4. DOMAIN colas' = Colas /\ colas'["APPEARED"] = v /\ colas'["LOCALIZED"] = colas["LOCALIZED"]
      /\ colas'["CAUGHT"] = colas["CAUGHT"]
  BY <1>1, <1>3, OtraCola DEF TiposSistema, Colas
<1>5. p \in Pokemones /\ v \in Seq(Pokemones)
  <2> DEFINE s == colas["APPEARED"]
  <2>1. s \in Seq(Pokemones) /\ s # <<>>
    BY <1>1, <1>3 DEF TiposSistema
  <2> HIDE DEF s
  <2>2. Head(s) \in Pokemones /\ Tail(s) \in Seq(Pokemones)
    BY <2>1
  <2>3. QED
    BY <2>2 DEF s
<1> HIDE DEF p, v
<1>6. EnEspera(appeared')
  BY <1>1, <1>3, <1>5 DEF TiposSistema, EnEspera, Nada
<1>7. TiposSistema'
  BY <1>2, <1>3, <1>4, <1>5, <1>6 DEF TiposSistema
<1>8. QED
  BY <1>1, <1>2, <1>4, <1>7, PasoCallado

LEMMA SigueSuscripcion ==
  ASSUME IInv, cayo = "no",
         UNCHANGED <<TEAM, cpu, resolutores, idsCatch, proximoId, colas, appeared, caught, libres,
                     pendientes, respondidos, aceptados, cayo>>,
         incidentes \subseteq incidentes', "pisado" \in incidentes' => "pisado" \in incidentes,
         suscripto' \in [Colas -> {"no", "viva", "rota", "sorda"}], conectado' \in BOOLEAN,
         broker' \in BOOLEAN
  PROVE  IInv'
<1>1. TiposSistema
  BY Ahora
<1>2. TiposSistema'
  BY <1>1 DEF TiposSistema
<1>3. QED
  BY <1>2, PasoCallado

LEMMA SigueConectar ==
  ASSUME IInv, NEW q \in Colas, Conectar(q) \/ PerderConexion(q)
  PROVE  IInv'
<1>1. /\ cayo = "no" /\ conectado' \in BOOLEAN
      /\ \/ suscripto' = [suscripto EXCEPT ![q] = "viva"]
         \/ suscripto' = [suscripto EXCEPT ![q] = "no"]
         \/ suscripto' = [suscripto EXCEPT ![q] = "sorda"]
  <2>1. cayo = "no" /\ TiposSistema
    BY Ahora DEF Conectar, PerderConexion, Vivo
  <2>2. QED
    BY <2>1 DEF Conectar, PerderConexion, TiposSistema
<1>2. UNCHANGED <<TEAM, cpu, resolutores, idsCatch, proximoId, colas, appeared, caught, broker, libres,
                  pendientes, respondidos, aceptados, cayo>>
      /\ (incidentes' = incidentes \/ incidentes' = incidentes \cup {"sorda"})
  BY DEF Conectar, PerderConexion, mensajes, historia
<1>3. TiposSistema
  BY <1>1, Ahora
<1>4. suscripto' \in [Colas -> {"no", "viva", "rota", "sorda"}] /\ broker' \in BOOLEAN
  BY <1>1, <1>2, <1>3 DEF TiposSistema
<1>5. QED
  BY <1>1, <1>2, <1>4, SigueSuscripcion

LEMMA SigueVolverBroker ==
  ASSUME IInv, VolverBroker
  PROVE  IInv'
<1>1. cayo = "no" /\ broker' = TRUE
  BY DEF VolverBroker, Vivo
<1>2. UNCHANGED <<TEAM, cpu, resolutores, idsCatch, proximoId, colas, appeared, caught, libres, suscripto,
                  conectado, pendientes, respondidos, aceptados, incidentes, cayo>>
  BY DEF VolverBroker, mensajes, historia
<1>3. suscripto' \in [Colas -> {"no", "viva", "rota", "sorda"}] /\ conectado' \in BOOLEAN /\ broker' \in BOOLEAN
  BY <1>1, <1>2, Ahora DEF TiposSistema
<1>4. QED
  BY <1>1, <1>2, <1>3, SigueSuscripcion

LEMMA SigueAparece ==
  ASSUME IInv, NEW p \in libres, Aparece(p)
  PROVE  IInv'
<1> DEFINE v == Append(colas["APPEARED"], p)
<1>1. /\ cayo = "no" /\ libres' = libres \ {p} /\ colas' = [colas EXCEPT !["APPEARED"] = v]
  BY DEF Aparece, Vivo
<1>2. UNCHANGED <<TEAM, cpu, resolutores, idsCatch, proximoId, appeared, caught, suscripto, conectado, broker,
                  pendientes, respondidos, aceptados, incidentes, cayo>>
  BY DEF Aparece, historia
<1>3. TiposSistema
  BY <1>1, Ahora
<1>4. DOMAIN colas' = Colas /\ colas'["APPEARED"] = v /\ colas'["LOCALIZED"] = colas["LOCALIZED"]
      /\ colas'["CAUGHT"] = colas["CAUGHT"]
  BY <1>1, <1>3, OtraCola DEF TiposSistema, Colas
<1>5. v \in Seq(Pokemones) /\ libres' \subseteq Pokemones /\ IsFiniteSet(libres')
  BY <1>1, <1>3, FS_Subset DEF TiposSistema
<1> HIDE DEF v
<1>7. TiposSistema'
  BY <1>2, <1>3, <1>4, <1>5 DEF TiposSistema
<1>8. QED
  BY <1>1, <1>2, <1>4, <1>7, PasoCallado

LEMMA SigueLocalizar ==
  ASSUME IInv, NEW s \in consultas, Localizar(s)
  PROVE  IInv'
<1> DEFINE S == {p \in libres : p.especie = s}
           ps == SetToSeq(S)
           m == [especie |-> s, posiciones |-> ps]
           v == Append(colas["LOCALIZED"], m)
<1>1. /\ cayo = "no" /\ S # {} /\ libres' = libres \ S /\ colas' = [colas EXCEPT !["LOCALIZED"] = v]
  BY DEF Localizar, Vivo
<1>2. UNCHANGED <<TEAM, cpu, resolutores, idsCatch, proximoId, appeared, caught, suscripto, conectado, broker,
                  pendientes, respondidos, aceptados, incidentes, cayo>>
  BY DEF Localizar, historia
<1>3. TiposSistema
  BY <1>1, Ahora
<1>4. DOMAIN colas' = Colas /\ colas'["LOCALIZED"] = v /\ colas'["APPEARED"] = colas["APPEARED"]
      /\ colas'["CAUGHT"] = colas["CAUGHT"]
  BY <1>1, <1>3, OtraCola DEF TiposSistema, Colas
<1>5. IsFiniteSet(S) /\ S \subseteq Pokemones /\ IsFiniteSet(libres') /\ libres' \subseteq Pokemones
  BY <1>1, <1>3, FS_Subset DEF TiposSistema
<1>6. ps \in Seq(S)
  BY <1>5, DeConjunto
<1> DEFINE w == colas["LOCALIZED"]
<1>7. w \in Seq(Hallazgos) /\ \A i \in DOMAIN w : DeLaSuya(w[i])
  BY <1>3 DEF TiposSistema
<1>8. s \in Especies
  BY <1>1, <1>5 DEF Pokemones
<1>9. \A i \in DOMAIN ps : ps[i].especie = s
  <2> HIDE DEF ps
  <2>1. \A i \in DOMAIN ps : ps[i] \in S
    BY <1>6
  <2>2. QED
    BY <2>1
<1> HIDE DEF S, ps, w
<1>10. m \in Hallazgos /\ DeLaSuya(m)
  <2>1. ps \in Seq(Pokemones)
    BY <1>5, <1>6
  <2>2. QED
    BY <1>8, <1>9, <2>1 DEF Hallazgos, DeLaSuya
<1> HIDE DEF m
<1>11. Append(w, m) \in Seq(Hallazgos) /\ \A i \in DOMAIN Append(w, m) : DeLaSuya(Append(w, m)[i])
  BY <1>7, <1>10
<1>12. v \in Seq(Hallazgos) /\ \A i \in DOMAIN v : DeLaSuya(v[i])
  BY <1>11 DEF w
<1> HIDE DEF v
<1>13. TiposSistema'
  BY <1>2, <1>3, <1>4, <1>5, <1>12 DEF TiposSistema
<1>14. QED
  BY <1>1, <1>2, <1>4, <1>13, PasoCallado

LEMMA SubeTipo ==
  ASSUME NEW ac \in [Especies -> Int], NEW z, NEW v \in Int
  PROVE  Sube(ac, z, v) \in [Especies -> Int]
<1>1. \A s \in Especies : Sube(ac, z, v)[s] \in Int
  <2> TAKE s \in Especies
  <2>1. CASE s = z
    <3>1. Sube(ac, z, v)[s] = ac[s] + v
      BY <2>1 DEF Sube
    <3>2. QED
      BY <3>1
  <2>2. CASE s # z
    <3>1. Sube(ac, z, v)[s] = ac[s]
      BY <2>2 DEF Sube
    <3>2. QED
      BY <3>1
  <2>3. QED
    BY <2>1, <2>2
<1>2. Sube(ac, z, v) = [s \in Especies |-> Sube(ac, z, v)[s]]
  BY DEF Sube
<1> DEFINE f == Sube(ac, z, v)
<1> HIDE DEF f
<1>3. f = [s \in Especies |-> f[s]] /\ \A s \in Especies : f[s] \in Int
  BY <1>1, <1>2 DEF f
<1>4. f \in [Especies -> Int]
  BY <1>3
<1>5. QED
  BY <1>4 DEF f

LEMMA SigueAgregarAppeared ==
  ASSUME IInv, AgregarAppeared
  PROVE  IInv'
<1> DEFINE n == NE
           t == TEAM
           m == t.mapa
           p == appeared.pokemon
           z == p.especie
           w == Append(m, p)
           u == Planificar(ConMapa(t, w))
           ac == Sube(aceptados, z, 1)
           Ahora1(x, a) == Todo(x, n, cpu, caught, incidentes, resolutores, a)
<1>1. /\ cayo = "no" /\ appeared # Nada /\ appeared' = Nada /\ TEAM' = u /\ aceptados' = ac
  BY DEF AgregarAppeared, Vivo, ConMapa, Sube
<1>2. UNCHANGED <<cpu, resolutores, idsCatch, proximoId, colas, caught, suscripto, conectado, broker, libres,
                  pendientes, respondidos, incidentes, cayo>>
  BY DEF AgregarAppeared, sistema
<1>3. /\ n \in Nat /\ t \in Equipos(n) /\ cpu \in Hilos(n) /\ Corre(cpu) /\ cpu.etapa \in {1, 2}
      /\ Ahora1(t, aceptados) /\ TiposSistema /\ TiposHistoria /\ Recibido(caught, n)
  BY <1>1, Ahora
<1>4. p \in Pokemones
  BY <1>1, <1>3 DEF TiposSistema, EnEspera
<1>5. m \in Seq(Pokemones) /\ z \in Especies /\ aceptados \in [Especies -> Int]
  BY <1>3, <1>4 DEF Equipos, Pokemones, TiposHistoria
<1> HIDE DEF p, m
<1>6. w \in Seq(Pokemones) /\ MasDe(m, w, z, 1)
  BY <1>4, <1>5, UnoMas
<1> HIDE DEF z, w, t, n
<1>7. Ahora1(u, ac) /\ MismaEspera(t, u, n)
  BY <1>3, <1>5, <1>6, MapaTodo DEF m
<1>8. ac \in [Especies -> Int]
  BY <1>5, SubeTipo
<1> HIDE DEF u, ac
<1>9. TiposSistema' /\ TiposHistoria'
  <2>1. EnEspera(appeared')
    BY <1>1 DEF EnEspera, Nada
  <2>2. TiposSistema'
    BY <1>2, <1>3, <2>1 DEF TiposSistema
  <2>3. QED
    BY <1>1, <1>2, <1>3, <1>8, <2>2 DEF TiposHistoria
<1>10. SigueEsperando(t, n, cpu, u, cpu)
  BY <1>7, EsperaIgual
<1>11. TiposEquipo(u, n, cpu, caught)
  BY <1>3, <1>7 DEF TiposEquipo, Todo
<1>12. QED
  BY <1>1, <1>2, <1>7, <1>9, <1>10, <1>11, PasoDelEquipo DEF n, t

LEMMA SigueProcesarLocalized ==
  ASSUME IInv, ProcesarLocalized
  PROVE  IInv'
<1> DEFINE n == NE
           t == TEAM
           m == t.mapa
           q == colas["LOCALIZED"]
           h == Head(q)
           v == Tail(q)
           ps == h.posiciones
           z == h.especie
           w == m \o ps
           u == Planificar(ConMapa(t, w))
           ac == Sube(aceptados, z, Len(ps))
           Ahora1(x, a) == Todo(x, n, cpu, caught, incidentes, resolutores, a)
<1>1. /\ cayo = "no" /\ q # <<>> /\ colas' = [colas EXCEPT !["LOCALIZED"] = v]
  BY DEF ProcesarLocalized, Vivo
<1>2. UNCHANGED <<cpu, resolutores, idsCatch, proximoId, appeared, caught, suscripto, conectado, broker, libres,
                  pendientes, respondidos, cayo>>
  BY DEF ProcesarLocalized, sistema
<1>3. \/ TEAM' = u /\ aceptados' = ac /\ incidentes' = incidentes
      \/ TEAM' = TEAM /\ aceptados' = aceptados /\ incidentes' = incidentes \cup {"descartado"}
  BY DEF ProcesarLocalized, ConMapa, Sube
<1>4. /\ n \in Nat /\ t \in Equipos(n) /\ cpu \in Hilos(n) /\ Corre(cpu) /\ cpu.etapa \in {1, 2}
      /\ Ahora1(t, aceptados) /\ TiposSistema /\ TiposHistoria /\ Recibido(caught, n)
  BY <1>1, Ahora
<1>5. q \in Seq(Hallazgos) /\ (\A i \in DOMAIN q : DeLaSuya(q[i])) /\ q # <<>>
  BY <1>1, <1>4 DEF TiposSistema
<1>6. h \in Hallazgos /\ DeLaSuya(h) /\ v \in Seq(Hallazgos) /\ \A i \in DOMAIN v : DeLaSuya(v[i])
  <2> HIDE DEF q
  <2>1. h \in Hallazgos /\ v \in Seq(Hallazgos)
    BY <1>5
  <2>2. 1 \in DOMAIN q /\ h = q[1]
    BY <1>5
  <2>3. \A i \in DOMAIN v : i + 1 \in DOMAIN q /\ v[i] = q[i + 1]
    BY <1>5
  <2>4. QED
    BY <1>5, <2>1, <2>2, <2>3
<1>7. DOMAIN colas' = Colas /\ colas'["LOCALIZED"] = v /\ colas'["APPEARED"] = colas["APPEARED"]
      /\ colas'["CAUGHT"] = colas["CAUGHT"]
  BY <1>1, <1>4, OtraCola DEF TiposSistema, Colas
<1> HIDE DEF v
<1>8. TiposSistema'
  BY <1>2, <1>4, <1>6, <1>7 DEF TiposSistema
<1>9. CASE TEAM' = u /\ aceptados' = ac /\ incidentes' = incidentes
  <2> HIDE DEF h
  <2>1. ps \in Seq(Pokemones) /\ z \in Especies /\ \A i \in DOMAIN ps : ps[i].especie = z
    BY <1>6 DEF Hallazgos, DeLaSuya
  <2>2. m \in Seq(Pokemones) /\ aceptados \in [Especies -> Int]
    BY <1>4 DEF Equipos, TiposHistoria
  <2> HIDE DEF m, ps, z
  <2>3. w \in Seq(Pokemones) /\ MasDe(m, w, z, Len(ps)) /\ Len(ps) \in Nat
    BY <2>1, <2>2, VariosMas
  <2> DEFINE l == Len(ps)
  <2> HIDE DEF w, t, n, l
  <2>4. Ahora1(u, ac) /\ MismaEspera(t, u, n)
    BY <1>4, <2>1, <2>2, <2>3, MapaTodo DEF m, l
  <2>5. ac \in [Especies -> Int]
    BY <2>2, <2>3, SubeTipo
  <2> HIDE DEF u, ac
  <2>6. TiposHistoria'
    BY <1>2, <1>4, <1>9, <2>5 DEF TiposHistoria
  <2>7. SigueEsperando(t, n, cpu, u, cpu)
    BY <2>4, EsperaIgual
  <2>8. TiposEquipo(u, n, cpu, caught)
    BY <1>4, <2>4 DEF TiposEquipo, Todo
  <2>9. QED
    BY <1>1, <1>2, <1>7, <1>8, <1>9, <2>4, <2>6, <2>7, <2>8, PasoDelEquipo DEF n, t
<1>10. CASE TEAM' = TEAM /\ aceptados' = aceptados /\ incidentes' = incidentes \cup {"descartado"}
  <2>1. incidentes \subseteq incidentes' /\ ("pisado" \in incidentes' => "pisado" \in incidentes)
    BY <1>10
  <2>2. QED
    BY <1>1, <1>2, <1>7, <1>8, <1>10, <2>1, PasoCallado
<1>11. QED
  BY <1>3, <1>9, <1>10

\* The first message of the queue is handled: the others find who waits for them.
LEMMA IdentidadesCola ==
  ASSUME NEW E, NEW F, NEW ids, NEW prox \in Nat, NEW cola \in Seq(Avisos), NEW pend, NEW resp, NEW v,
         Identidades(E, ids, prox, cola, pend, resp), cola # <<>>, v = Head(cola).id,
         \A x : x # -1 /\ x # v /\ x \in E => x \in F
  PROVE  Identidades(F, ids, prox, Tail(cola), pend, resp)
<1> DEFINE s == Tail(cola)
<1>1. 1 \in DOMAIN cola /\ v = cola[1].id
  OBVIOUS
<1>2. \A i \in DOMAIN s : i + 1 \in DOMAIN cola /\ s[i] = cola[i + 1] /\ 1 < i + 1
  OBVIOUS
<1>3. DOMAIN s \subseteq Nat
  OBVIOUS
<1> HIDE DEF s
<1>4. \A p \in pend : p.id # v
  BY <1>1 DEF Identidades
<1>5. \A p \in pend : p.id \in ids /\ p.id # -1 /\ p.id \in F /\ \A q \in pend : q.id = p.id => q = p
  BY <1>4 DEF Identidades
<1>6. \A x : x \in 1..(prox - 1) => x # -1
  OBVIOUS
<1>7. ASSUME NEW i \in DOMAIN s
      PROVE  /\ s[i].id \in 1..(prox - 1)
             /\ \A p \in pend : p.id # s[i].id
             /\ ~s[i].copia /\ s[i].id \in ids => s[i].id \in F
  <2>1. i + 1 \in DOMAIN cola /\ s[i] = cola[i + 1] /\ 1 < i + 1
    BY <1>2
  <2> DEFINE j == i + 1
  <2>2. /\ s[i] = cola[j] /\ j \in DOMAIN cola /\ 1 < j
    BY <2>1
  <2> HIDE DEF j
  <2>3. /\ cola[j].id \in 1..(prox - 1) /\ (\A p \in pend : p.id # cola[j].id)
        /\ (~cola[j].copia /\ cola[j].id \in ids => cola[j].id \in E)
        /\ (~cola[j].copia => cola[j].id # cola[1].id)
    BY <1>1, <2>2 DEF Identidades
  <2>4. cola[j].id # -1
    BY <1>6, <2>3
  <2>5. QED
    BY <1>1, <2>2, <2>3, <2>4
<1>8. \A i, j \in DOMAIN s : i < j /\ ~s[j].copia => s[j].id # s[i].id
  <2> TAKE i \in DOMAIN s, j \in DOMAIN s
  <2> HAVE i < j /\ ~s[j].copia
  <2> DEFINE a == i + 1
             b == j + 1
  <2>1. a \in DOMAIN cola /\ b \in DOMAIN cola /\ s[i] = cola[a] /\ s[j] = cola[b]
    BY <1>2
  <2>2. a < b
    BY <1>3
  <2> HIDE DEF a, b
  <2>3. QED
    BY <2>1, <2>2 DEF Identidades
<1>9. Identidades(F, ids, prox, s, pend, resp)
  BY <1>5, <1>7, <1>8 DEF Identidades
<1>10. QED
  BY <1>9 DEF s

LEMMA PasoDelAviso ==
  ASSUME IInv, cayo = "no", colas["CAUGHT"] # <<>>,
         colas' = [colas EXCEPT !["CAUGHT"] = Tail(colas["CAUGHT"])],
         UNCHANGED <<cpu, resolutores, idsCatch, proximoId, appeared, suscripto, conectado, broker,
                     libres, pendientes, respondidos, incidentes>>,
         TiposEquipo(TEAM', NE, cpu, caught'), aceptados' \in [Especies -> Int],
         cayo' \in {"no", "ventana", "repetido", "liberado", "pisado"},
         cayo' = "no" =>
           /\ Todo(TEAM', NE, cpu, caught', incidentes, resolutores, aceptados')
           /\ SigueSin(TEAM, NE, cpu, TEAM', Head(colas["CAUGHT"]).id)
  PROVE  IInv'
<1> DEFINE q == colas["CAUGHT"]
           s == Tail(q)
<1>1. TiposSistema /\ TiposHistoria /\ Conocidos /\ NE \in Nat
  BY Ahora
<1>2. q \in Seq(Avisos) /\ q # <<>> /\ proximoId \in Nat
  BY <1>1 DEF TiposSistema
<1>3. s \in Seq(Avisos)
  <2> HIDE DEF q
  <2>1. QED
    BY <1>2
<1>4. DOMAIN colas' = Colas /\ colas'["CAUGHT"] = s /\ colas'["APPEARED"] = colas["APPEARED"]
      /\ colas'["LOCALIZED"] = colas["LOCALIZED"]
  BY <1>1, OtraCola DEF TiposSistema, Colas
<1> HIDE DEF s
<1>5. TiposSistema' /\ TiposHistoria'
  <2>1. TiposSistema'
    BY <1>1, <1>3, <1>4 DEF TiposSistema
  <2>2. QED
    BY <1>1, <2>1 DEF TiposHistoria
<1>6. NE' = NE
  <2> DEFINE n == NE
             u == TEAM'
  <2>1. n \in Nat /\ u \in Equipos(n)
    BY <1>1 DEF TiposEquipo
  <2>2. NE' = Len(u.entrenadores)
    BY DEF NE
  <2> HIDE DEF n, u
  <2>3. Len(u.entrenadores) = n
    BY <2>1, MismoNumero
  <2>4. QED
    BY <2>2, <2>3 DEF n
<1>7. ASSUME cayo' = "no"
      PROVE  Conocidos' /\ Bien'
  <2> DEFINE E == Esperados(TEAM, NE, cpu)
             F == Esperados(TEAM', NE, cpu)
             v == Head(q).id
  <2>1. \A x : x # -1 /\ x # v /\ x \in E => x \in F
    BY <1>7 DEF SigueSin, Esperados
  <2>2. Identidades(E, idsCatch, proximoId, q, pendientes, respondidos)
    BY <1>1 DEF Conocidos
  <2>3. v = Head(q).id
    OBVIOUS
  <2>5. Conocidos' = Identidades(F, idsCatch, proximoId, s, pendientes, respondidos)
    BY <1>4, <1>6 DEF Conocidos
  <2> HIDE DEF E, F, v, q
  <2>6. Identidades(F, idsCatch, proximoId, s, pendientes, respondidos)
    BY <1>2, <2>1, <2>2, <2>3, IdentidadesCola DEF s
  <2>7. Conocidos'
    BY <2>5, <2>6
  <2>8. QED
    BY <1>6, <1>7, <2>7 DEF Bien
<1>8. NE' \in Nat /\ TiposEquipo(TEAM', NE', cpu', caught')
  BY <1>1, <1>6
<1>9. QED
  BY <1>5, <1>7, <1>8 DEF IInv

LEMMA QuienEsperan ==
  ASSUME NEW n \in Nat, n = NE, TEAM \in Equipos(n), NEW id
  PROVE  /\ Esperan(id) # {} => Min(Esperan(id)) \in Esperan(id)
         /\ \A e \in Esperan(id) : /\ e \in 1..n /\ TEAM.entrenadores[e].esta_en_entrada_salida
                                   /\ TEAM.entrenadores[e].id_correlativo_esperado = id
         /\ Espera1(TEAM, n, cpu, id) =>
              Esperan(id) # {} \/ (cpu.lugar = "anotar" /\ cpu.id = id)
<1>1. DOMAIN TEAM.entrenadores = 1..n
  BY MismoNumero
<1>2. \A e : e \in Esperan(id) <=> /\ e \in 1..n /\ TEAM.entrenadores[e].esta_en_entrada_salida
                                   /\ TEAM.entrenadores[e].id_correlativo_esperado = id
  BY <1>1 DEF Esperan, Ids, Entrenador
<1> DEFINE S == Esperan(id)
<1>3. S \subseteq Nat
  BY <1>2
<1> HIDE DEF S
<1>4. S # {} => Min(S) \in S
  BY <1>3, MinEsta
<1>5. Espera1(TEAM, n, cpu, id) => S # {} \/ (cpu.lugar = "anotar" /\ cpu.id = id)
  BY <1>2 DEF Espera1, S
<1>6. QED
  BY <1>2, <1>4, <1>5 DEF S

\* What the handler of a CAUGHT does with its message m: nothing, fall, or end the wait of e.
AvisoPerdido(m) ==
  /\ m.id \in idsCatch /\ Esperan(m.id) = {}
  /\ cayo' = IF cpu.lugar = "anotar" /\ cpu.id = m.id THEN "ventana"
             ELSE IF m.copia THEN "repetido" ELSE "otra"
  /\ TEAM' = TEAM /\ caught' = caught /\ aceptados' = aceptados
AvisoBueno(m, e) ==
  /\ m.id \in idsCatch /\ e \in Esperan(m.id)
  /\ TEAM' = Atrapado(TEAM, e)
  /\ caught' = [que |-> IF PuedeCapturar(Atrapado(TEAM, e).entrenadores[e])
                        THEN "desocupar" ELSE "cerrar", e |-> e]
  /\ aceptados' = aceptados /\ cayo' = cayo
AvisoMalo(m, e, p) ==
  /\ m.id \in idsCatch /\ e \in Esperan(m.id) /\ p = TEAM.entrenadores[e].tarea.pokemon
  /\ TEAM' = Pon(TEAM, e, Soltada(TEAM.entrenadores[e]))
  /\ caught' = [que |-> "reponer", e |-> e, especie |-> p.especie]
  /\ aceptados' = Menos1(aceptados, p.especie)
  /\ cayo' \in {"liberado", cayo}
AvisoAjeno == TEAM' = TEAM /\ caught' = caught /\ aceptados' = aceptados /\ cayo' = cayo

LEMMA RecibirHace ==
  ASSUME NEW n \in Nat, n = NE, TEAM \in Equipos(n), RecibirCaught, NEW m, m = Head(colas["CAUGHT"])
  PROVE  \/ AvisoAjeno \/ AvisoPerdido(m)
         \/ \E e \in 1..n : AvisoBueno(m, e) \/ \E p : AvisoMalo(m, e, p)
<1> DEFINE e == Min(Esperan(m.id))
           p == TEAM.entrenadores[e].tarea.pokemon
<1>1. Esperan(m.id) # {} => e \in Esperan(m.id) /\ e \in 1..n
  BY QuienEsperan
<1>2. \/ AvisoAjeno \/ AvisoPerdido(m)
      \/ /\ m.id \in idsCatch /\ Esperan(m.id) # {}
         /\ TEAM' = Atrapado(TEAM, e)
         /\ caught' = [que |-> IF PuedeCapturar(Atrapado(TEAM, e).entrenadores[e])
                               THEN "desocupar" ELSE "cerrar", e |-> e]
         /\ aceptados' = aceptados /\ cayo' = cayo
      \/ /\ m.id \in idsCatch /\ Esperan(m.id) # {}
         /\ TEAM' = Pon(TEAM, e, Soltada(TEAM.entrenadores[e]))
         /\ caught' = [que |-> "reponer", e |-> e, especie |-> p.especie]
         /\ aceptados' = Menos1(aceptados, p.especie)
         /\ cayo' \in {"liberado", cayo}
  <2>1. \/ m.id \notin idsCatch /\ UNCHANGED <<TEAM, caught, aceptados, cayo>>
        \/ /\ m.id \in idsCatch /\ Esperan(m.id) = {}
           /\ cayo' = IF cpu.lugar = "anotar" /\ cpu.id = m.id THEN "ventana"
                      ELSE IF m.copia THEN "repetido" ELSE "otra"
           /\ UNCHANGED <<TEAM, caught, aceptados>>
        \/ /\ m.id \in idsCatch /\ Esperan(m.id) # {} /\ m.ok
           /\ TEAM' = Atrapado(TEAM, e)
           /\ caught' = [que |-> IF PuedeCapturar(Atrapado(TEAM, e).entrenadores[e])
                                 THEN "desocupar" ELSE "cerrar", e |-> e]
           /\ UNCHANGED <<aceptados, cayo>>
        \/ /\ m.id \in idsCatch /\ Esperan(m.id) # {} /\ ~m.ok
           /\ TEAM' = Pon(TEAM, e, Soltada(TEAM.entrenadores[e]))
           /\ caught' = [que |-> "reponer", e |-> e, especie |-> p.especie]
           /\ aceptados' = Menos1(aceptados, p.especie)
           /\ cayo' = IF EnUso(p, e) THEN "liberado" ELSE cayo
    BY DEF RecibirCaught, Pon, Soltada, Menos1, Entrenador
  <2> HIDE DEF e, p
  <2>2. QED
    BY <2>1 DEF AvisoAjeno, AvisoPerdido
<1>3. p = TEAM.entrenadores[e].tarea.pokemon
  OBVIOUS
<1> HIDE DEF e, p
<1>4. Esperan(m.id) # {} /\ TEAM' = Atrapado(TEAM, e)
        /\ m.id \in idsCatch /\ caught' = [que |-> IF PuedeCapturar(Atrapado(TEAM, e).entrenadores[e])
                               THEN "desocupar" ELSE "cerrar", e |-> e]
        /\ aceptados' = aceptados /\ cayo' = cayo => AvisoBueno(m, e)
  BY <1>1 DEF AvisoBueno
<1>5. Esperan(m.id) # {} /\ m.id \in idsCatch
         /\ TEAM' = Pon(TEAM, e, Soltada(TEAM.entrenadores[e]))
         /\ caught' = [que |-> "reponer", e |-> e, especie |-> p.especie]
         /\ aceptados' = Menos1(aceptados, p.especie)
         /\ cayo' \in {"liberado", cayo} => AvisoMalo(m, e, p)
  BY <1>1, <1>3 DEF AvisoMalo
<1>6. \/ AvisoAjeno \/ AvisoPerdido(m) \/ (Esperan(m.id) # {} /\ (AvisoBueno(m, e) \/ AvisoMalo(m, e, p)))
  BY <1>2, <1>4, <1>5
<1>7. QED
  BY <1>1, <1>6

LEMMA MenosTipo ==
  ASSUME NEW ac \in [Especies -> Int], NEW z \in Especies
  PROVE  Menos1(ac, z) \in [Especies -> Int]
<1> DEFINE v == ac[z] - 1
<1>1. v \in Int
  OBVIOUS
<1>2. Menos1(ac, z) = [ac EXCEPT ![z] = v]
  BY DEF Menos1
<1> HIDE DEF v
<1>3. QED
  BY <1>1, <1>2

LEMMA SigueRecibirCaught ==
  ASSUME IInv, RecibirCaught
  PROVE  IInv'
<1> DEFINE n == NE
           t == TEAM
           q == colas["CAUGHT"]
           m == Head(q)
           Sigue == SigueSin(t, n, cpu, TEAM', m.id)
           Ahora1(x, k, a) == Todo(x, n, cpu, k, incidentes, resolutores, a)
<1>1. /\ cayo = "no" /\ caught = Nada /\ q # <<>> /\ colas' = [colas EXCEPT !["CAUGHT"] = Tail(q)]
  BY DEF RecibirCaught, Vivo
<1>2. UNCHANGED <<cpu, resolutores, idsCatch, proximoId, appeared, suscripto, conectado, broker, libres,
                  pendientes, respondidos, incidentes>>
  BY DEF RecibirCaught, sistema
<1>3. /\ n \in Nat /\ t \in Equipos(n) /\ cpu \in Hilos(n) /\ Corre(cpu) /\ cpu.etapa \in {1, 2}
      /\ Ahora1(t, caught, aceptados) /\ TiposSistema /\ TiposHistoria /\ Recibido(caught, n) /\ Conocidos
  BY <1>1, Ahora
<1>4. m \in Avisos /\ 1 \in DOMAIN q /\ m = q[1]
  <2>1. q \in Seq(Avisos) /\ q # <<>>
    BY <1>1, <1>3 DEF TiposSistema
  <2> HIDE DEF q
  <2>2. QED
    BY <2>1
<1>5. caught.que = "nada" /\ aceptados \in [Especies -> Int] /\ proximoId \in Nat
  BY <1>1, <1>3 DEF Nada, TiposHistoria, TiposSistema
<1>6. m.id \in idsCatch /\ ~m.copia => Espera1(t, n, cpu, m.id)
  BY <1>3, <1>4 DEF Conocidos, Identidades, Esperados
<1>7. m.id \in Int /\ m.id # -1 /\ m.copia \in BOOLEAN
  <2>1. m.id \in 1..(proximoId - 1)
    BY <1>3, <1>4 DEF Conocidos, Identidades
  <2>2. QED
    BY <1>4, <1>5, <2>1 DEF Avisos
<1>a. \A e \in 1..n : e \in Esperan(m.id) =>
         /\ TEAM.entrenadores[e].esta_en_entrada_salida
         /\ TEAM.entrenadores[e].id_correlativo_esperado = m.id
  BY <1>3, QuienEsperan
<1>b. Espera1(t, n, cpu, m.id) => Esperan(m.id) # {} \/ (cpu.lugar = "anotar" /\ cpu.id = m.id)
  BY <1>3, QuienEsperan
<1>c. AvisoAjeno \/ AvisoPerdido(m) \/ \E e \in 1..n : AvisoBueno(m, e) \/ \E p : AvisoMalo(m, e, p)
  BY <1>3, RecibirHace
<1>d. m = Head(colas["CAUGHT"])
  OBVIOUS
<1>8. SUFFICES /\ TiposEquipo(TEAM', n, cpu, caught') /\ aceptados' \in [Especies -> Int]
               /\ cayo' \in {"no", "ventana", "repetido", "liberado", "pisado"}
               /\ cayo' = "no" => Ahora1(TEAM', caught', aceptados') /\ Sigue
  <2>1. ASSUME /\ TiposEquipo(TEAM', n, cpu, caught') /\ aceptados' \in [Especies -> Int]
               /\ cayo' \in {"no", "ventana", "repetido", "liberado", "pisado"}
               /\ cayo' = "no" => Ahora1(TEAM', caught', aceptados') /\ Sigue
        PROVE  IInv'
    BY <1>1, <1>2, <2>1, PasoDelAviso
  <2>2. QED
    BY <2>1
<1> HIDE DEF m, n, t
<1>9. CASE AvisoAjeno
  <2>1. TEAM' = TEAM /\ caught' = caught /\ aceptados' = aceptados /\ cayo' = cayo
    BY <1>9 DEF AvisoAjeno
  <2>2. Sigue
    BY <2>1 DEF SigueSin, t
  <2>3. QED
    BY <1>1, <1>3, <1>5, <2>1, <2>2 DEF TiposEquipo, t
<1>10. CASE AvisoPerdido(m)
  <2>1. /\ TEAM' = TEAM /\ caught' = caught /\ aceptados' = aceptados /\ m.id \in idsCatch
        /\ Esperan(m.id) = {}
        /\ cayo' = IF cpu.lugar = "anotar" /\ cpu.id = m.id THEN "ventana"
                   ELSE IF m.copia THEN "repetido" ELSE "otra"
    BY <1>10 DEF AvisoPerdido
  <2>2. cayo' \in {"ventana", "repetido"}
    BY <1>6, <1>7, <1>b, <2>1
  <2>3. QED
    BY <1>3, <1>5, <2>1, <2>2 DEF TiposEquipo, t
<1>11. ASSUME NEW e \in 1..n, AvisoBueno(m, e)
       PROVE  /\ TiposEquipo(TEAM', n, cpu, caught') /\ aceptados' \in [Especies -> Int]
              /\ cayo' \in {"no", "ventana", "repetido", "liberado", "pisado"}
              /\ cayo' = "no" => Ahora1(TEAM', caught', aceptados') /\ Sigue
  <2> DEFINE u == Atrapado(t, e)
             b == PuedeCapturar(u.entrenadores[e])
             qu == IF b THEN "desocupar" ELSE "cerrar"
             k == [que |-> qu, e |-> e]
  <2>1. TEAM' = u /\ caught' = k /\ aceptados' = aceptados /\ cayo' = "no" /\ e \in Esperan(m.id)
    BY <1>1, <1>11 DEF AvisoBueno, t
  <2>2. t.entrenadores[e].esta_en_entrada_salida /\ t.entrenadores[e].id_correlativo_esperado = m.id
    BY <1>a, <2>1 DEF t
  <2>3. k.e = e /\ (b => k.que = "desocupar") /\ (~b => k.que = "cerrar")
    BY DEF k
  <2> HIDE DEF k, qu
  <2>4. Ahora1(u, k, aceptados) /\ SigueSin(t, n, cpu, u, m.id)
    BY <1>3, <1>5, <1>7, <2>2, <2>3, AtrapadoTodo
  <2>5. k.que \in {"desocupar", "cerrar"}
    BY <2>3
  <2>6. Recibido(k, n)
    BY <2>3, <2>5 DEF Recibido
  <2> HIDE DEF u
  <2>7. QED
    BY <1>3, <1>5, <2>1, <2>4, <2>6 DEF TiposEquipo, Todo
<1>12. ASSUME NEW e \in 1..n, NEW p, AvisoMalo(m, e, p)
       PROVE  /\ TiposEquipo(TEAM', n, cpu, caught') /\ aceptados' \in [Especies -> Int]
              /\ cayo' \in {"no", "ventana", "repetido", "liberado", "pisado"}
              /\ cayo' = "no" => Ahora1(TEAM', caught', aceptados') /\ Sigue
  <2> DEFINE x == t.entrenadores[e]
             u == Pon(t, e, Soltada(x))
             z == p.especie
             k == [que |-> "reponer", e |-> e, especie |-> z]
             ac == Menos1(aceptados, z)
  <2>1. /\ TEAM' = u /\ caught' = k /\ aceptados' = ac /\ cayo' \in {"liberado", "no"}
        /\ e \in Esperan(m.id) /\ p = x.tarea.pokemon
    BY <1>1, <1>12 DEF AvisoMalo, t
  <2>2. x.esta_en_entrada_salida /\ x.id_correlativo_esperado = m.id
    BY <1>a, <2>1 DEF t
  <2>3. k.e = e /\ k.que = "reponer" /\ k.especie = z /\ z = x.tarea.pokemon.especie
    BY <2>1
  <2> HIDE DEF k, z
  <2>4. Todo(u, n, cpu, k, incidentes, resolutores, Menos1(aceptados, k.especie))
        /\ SigueSin(t, n, cpu, u, m.id)
    BY <1>3, <1>5, <1>7, <2>2, <2>3, SoltarTodo DEF x
  <2>5. Ahora1(u, k, ac)
    BY <2>3, <2>4
  <2>6. z \in Especies
    <3>1. Atrapa(x)
      BY <1>3, <1>7, <2>2, QuienEspera DEF x
    <3>2. x \in Fichas(n)
      BY <1>3, Campos DEF x
    <3>3. QED
      BY <2>3, <3>1, <3>2, TareaDeCaptura
  <2>7. Recibido(k, n)
    BY <2>3, <2>6 DEF Recibido
  <2>8. ac \in [Especies -> Int]
    BY <1>5, <2>6, MenosTipo
  <2> HIDE DEF u, ac
  <2>9. QED
    BY <1>3, <2>1, <2>4, <2>5, <2>7, <2>8 DEF TiposEquipo, Todo
<1>13. QED
  BY <1>9, <1>10, <1>11, <1>12, <1>c

\* procesar_caught ends what it was doing.
LEMMA PasoDelCaught ==
  ASSUME IInv, cayo = "no", caught' = Nada,
         UNCHANGED <<cpu, resolutores, idsCatch, proximoId, colas, appeared, suscripto, conectado,
                     broker, libres, pendientes, respondidos, aceptados, cayo>>,
         Todo(TEAM', NE, cpu, caught', incidentes', resolutores, aceptados),
         MismaEspera(TEAM, TEAM', NE)
  PROVE  IInv'
<1>1. /\ NE \in Nat /\ cpu \in Hilos(NE) /\ Corre(cpu) /\ TiposSistema /\ TiposHistoria
  BY Ahora
<1>2. TiposSistema' /\ TiposHistoria'
  <2>1. TiposSistema'
    BY <1>1, SistemaSigue
  <2>2. QED
    BY <1>1, <2>1, HistoriaSigue
<1>3. Recibido(caught', NE)
  BY DEF Recibido, Nada
<1>4. TiposEquipo(TEAM', NE, cpu, caught')
  BY <1>1, <1>3 DEF TiposEquipo, Todo
<1>5. SigueEsperando(TEAM, NE, cpu, TEAM', cpu)
  BY EsperaIgual
<1>6. QED
  BY <1>2, <1>4, <1>5, PasoDelEquipo

LEMMA SigueDesocupar ==
  ASSUME IInv, DesocuparPorCaught
  PROVE  IInv'
<1> DEFINE n == NE
           t == TEAM
           e == caught.e
           u == Desocupar(t, e)
           k2 == caught'
           Ahora1(x, k) == Todo(x, n, cpu, k, incidentes, resolutores, aceptados)
<1>1. /\ cayo = "no" /\ caught.que = "desocupar" /\ caught' = Nada /\ TEAM' = u
  BY DEF DesocuparPorCaught, Vivo
<1>2. UNCHANGED <<cpu, resolutores, idsCatch, proximoId, colas, appeared, suscripto, conectado,
                  broker, libres, pendientes, respondidos, aceptados, cayo, incidentes>>
  BY DEF DesocuparPorCaught, sistema, historia
<1>3. n \in Nat /\ cpu.etapa \in {1, 2} /\ Recibido(caught, n) /\ Ahora1(t, caught)
  BY <1>1, Ahora
<1>4. e \in 1..n /\ k2.que = "nada"
  BY <1>1, <1>3 DEF Recibido, Nada
<1> HIDE DEF n, t, k2
<1>5. Ahora1(u, k2) /\ MismaEspera(t, u, n)
  BY <1>1, <1>3, <1>4, DesocuparTodo
<1>6. QED
  BY <1>1, <1>2, <1>5, PasoDelCaught DEF n, t, k2

LEMMA SigueReponer ==
  ASSUME IInv, Reponer
  PROVE  IInv'
<1> DEFINE n == NE
           t == TEAM
           e == caught.e
           s == caught.especie
           u == Desocupar(Quiere(t, s), e)
           k2 == caught'
           Ahora1(x, k) == Todo(x, n, cpu, k, incidentes, resolutores, aceptados)
<1>1. /\ cayo = "no" /\ caught.que = "reponer" /\ caught' = Nada /\ TEAM' = u
  BY DEF Reponer, Vivo, Quiere
<1>2. UNCHANGED <<cpu, resolutores, idsCatch, proximoId, colas, appeared, suscripto, conectado,
                  broker, libres, pendientes, respondidos, aceptados, cayo, incidentes>>
  BY DEF Reponer, sistema, historia
<1>3. n \in Nat /\ cpu.etapa \in {1, 2} /\ Recibido(caught, n) /\ Ahora1(t, caught)
  BY <1>1, Ahora
<1>4. e \in 1..n /\ k2.que = "nada" /\ s \in Especies
  BY <1>1, <1>3 DEF Recibido, Nada
<1> HIDE DEF n, t, k2
<1>5. Ahora1(u, k2) /\ MismaEspera(t, u, n)
  BY <1>1, <1>3, <1>4, ReponerTodo
<1>6. QED
  BY <1>1, <1>2, <1>5, PasoDelCaught DEF n, t, k2

\* What Cerrar makes of the team, the wake-up of the main thread apart.
LEMMA CerrarHace ==
  ASSUME NEW n \in Nat, TEAM \in Equipos(n), Cerrar, caught.e \in 1..n
  PROVE  /\ Casi(Pon(TEAM, caught.e, Cerrada(TEAM.entrenadores[caught.e])), TEAM', n)
         /\ incidentes' = Pisa(TEAM.entrenadores[caught.e], incidentes)
<1> DEFINE e == caught.e
           x == TEAM.entrenadores[e]
           t == ExitOBlock(TEAM, e)
           v == IF Cumplio(x) THEN "EXIT" ELSE "BLOCK"
           s == IF AlgunosPuedenAtrapar(t) THEN TEAM.semaforo_ready ELSE TEAM.semaforo_ready + 1
           y == Cerrada(x)
           u == Pon(TEAM, e, y)
           g == [TEAM.entrenadores EXCEPT ![e] = [x EXCEPT !.estado = v]]
           h == [TEAM.entrenadores EXCEPT ![e] = y]
<1>1. s \in Nat
  BY DEF Equipos
<1>2. TEAM' = [t EXCEPT !.entrenadores[e].tarea = SinTarea,
                        !.entrenadores[e].esta_en_entrada_salida = FALSE,
                        !.semaforo_ready = IF AlgunosPuedenAtrapar(t) THEN @ ELSE @ + 1]
  BY DEF Cerrar
<1>3. x \in Fichas(n) /\ DOMAIN TEAM.entrenadores = 1..n
  BY Campos
<1>a. y = [x EXCEPT !.estado = v, !.tarea = SinTarea, !.esta_en_entrada_salida = FALSE]
  BY DEF Cerrada
<1>4. y \in Fichas(n)
  <2>1. v \in {"NEW", "READY", "EXEC", "BLOCK", "EXIT"}
    OBVIOUS
  <2> HIDE DEF v, y, x
  <2>3. SinTarea \in Tareas(n)
    BY DEF Tareas
  <2> DEFINE st == SinTarea
  <2> HIDE DEF st
  <2>4. QED
    BY <1>3, <1>a, <2>1, <2>3 DEF Fichas, st
<1>b. t = [TEAM EXCEPT !.entrenadores = g]
  BY DEF ExitOBlock
<1> HIDE DEF s, u, y, v
<1>5. u \in Equipos(n) /\ u = [TEAM EXCEPT !.entrenadores = h]
  <2> HIDE DEF x
  <2>1. Ponen(TEAM, Pon(TEAM, e, y), n, e, y)
    BY <1>4, PonHace
  <2>2. QED
    BY <2>1 DEF Ponen, u, Pon
<1>c. /\ t.entrenadores = g /\ t.semaforo_ready = TEAM.semaforo_ready
      /\ TEAM' = [t EXCEPT !.entrenadores = [g EXCEPT ![e].tarea = SinTarea, ![e].esta_en_entrada_salida = FALSE],
                           !.semaforo_ready = s]
  <2>1. t.entrenadores = g /\ t.semaforo_ready = TEAM.semaforo_ready
    <3> HIDE DEF g, t
    <3>1. QED
      BY <1>b DEF Equipos
  <2> HIDE DEF g, t
  <2>2. QED
    BY <1>2, <2>1 DEF s
<1>d. [g EXCEPT ![e].tarea = SinTarea, ![e].esta_en_entrada_salida = FALSE] = h
  <2> DEFINE st == SinTarea
  <2> HIDE DEF st, x
  <2>1. QED
    BY <1>3, <1>a DEF Fichas, st
<1> HIDE DEF g, h, t
<1>6. TEAM' = [u EXCEPT !.semaforo_ready = s]
  BY <1>5, <1>b, <1>c, <1>d DEF Equipos
<1>7. Casi(u, TEAM', n)
  BY <1>1, <1>5, <1>6 DEF Casi, Equipos
<1>8. incidentes' = Pisa(x, incidentes)
  BY DEF Cerrar, Pisa, Entrenador
<1>9. QED
  BY <1>7, <1>8 DEF u, y

LEMMA SigueCerrar ==
  ASSUME IInv, Cerrar
  PROVE  IInv'
<1> DEFINE n == NE
           t == TEAM
           e == caught.e
           x == t.entrenadores[e]
           w == Pon(t, e, Cerrada(x))
           k2 == caught'
           j == incidentes'
           Ahora1(y, k, i) == Todo(y, n, cpu, k, i, resolutores, aceptados)
<1>1. /\ cayo = "no" /\ caught.que = "cerrar" /\ caught' = Nada
      /\ cayo' = IF cpu.e = e THEN "pisado" ELSE cayo
  BY DEF Cerrar, Vivo
<1>2. UNCHANGED <<cpu, resolutores, idsCatch, proximoId, colas, appeared, suscripto, conectado,
                  broker, libres, pendientes, respondidos, aceptados>>
  BY DEF Cerrar, sistema
<1>3. n \in Nat /\ t \in Equipos(n) /\ cpu.etapa \in {1, 2} /\ Recibido(caught, n) /\ Ahora1(t, caught, incidentes)
      /\ cpu \in Hilos(n) /\ Corre(cpu) /\ TiposSistema /\ TiposHistoria
  BY <1>1, Ahora
<1>4. e \in 1..n /\ k2.que = "nada" /\ Recibido(k2, n)
  BY <1>1, <1>3 DEF Recibido, Nada
<1>5. Casi(w, TEAM', n) /\ j = Pisa(x, incidentes)
  BY <1>3, <1>4, CerrarHace
<1>6. TiposSistema'
  BY <1>2, <1>3, SistemaSigue
<1>7. CASE cpu.e # e
  <2> HIDE DEF n, t, k2, j
  <2>1. Ahora1(w, k2, j) /\ MismaEspera(t, w, n)
    BY <1>1, <1>3, <1>4, <1>5, <1>7, CerrarTodo DEF x
  <2> HIDE DEF w
  <2>2. Ahora1(TEAM', k2, j) /\ MismaEspera(w, TEAM', n)
    BY <1>3, <1>5, <2>1, CasiTodo
  <2>3. MismaEspera(t, TEAM', n)
    BY <2>1, <2>2 DEF MismaEspera
  <2>4. cayo' = cayo
    BY <1>1, <1>7
  <2>5. QED
    BY <1>1, <1>2, <2>2, <2>3, <2>4, PasoDelCaught DEF n, t, k2, j
<1>8. CASE cpu.e = e
  <2>1. cayo' = "pisado"
    BY <1>1, <1>8
  <2>2. TiposHistoria'
    BY <1>2, <1>3, <2>1 DEF TiposHistoria
  <2>3. TiposEquipo(TEAM', n, cpu', caught')
    BY <1>2, <1>3, <1>4, <1>5 DEF TiposEquipo, Casi
  <2>4. UNCHANGED <<idsCatch, proximoId, pendientes, respondidos>> /\ colas'["CAUGHT"] = colas["CAUGHT"]
    BY <1>2
  <2>5. QED
    BY <1>1, <1>6, <2>1, <2>2, <2>3, <2>4, PasoDelEquipo
<1>9. QED
  BY <1>7, <1>8

LEMMA IdentidadesLlega ==
  ASSUME NEW E, NEW ids, NEW prox \in Nat \ {0}, NEW prox2 \in Nat \ {0}, NEW cola \in Seq(Avisos),
         NEW pend, NEW pend2, NEW resp, NEW resp2, NEW m \in Avisos,
         Identidades(E, ids, prox, cola, pend, resp), prox <= prox2, pend2 \subseteq pend,
         m.id \in 1..(prox2 - 1), \A p \in pend2 : p.id # m.id, ~m.copia => m.id \notin ids \/ m.id \in E,
         ~m.copia => \A i \in DOMAIN cola : cola[i].id # m.id,
         resp2 \subseteq resp \cup {m}
  PROVE  Identidades(E, ids, prox2, Append(cola, m), pend2, resp2)
<1> DEFINE s == Append(cola, m)
           l == Len(cola) + 1
<1>1. /\ s[l] = m /\ DOMAIN s = DOMAIN cola \cup {l} /\ l \in Nat
      /\ \A i \in DOMAIN cola : s[i] = cola[i] /\ i < l /\ i \in Nat
  OBVIOUS
<1> HIDE DEF s, l
<1>2. \A v : v \in 1..(prox - 1) => v \in 1..(prox2 - 1)
  OBVIOUS
<1>3. \A x \in ids : x = -1 \/ x \in 1..(prox2 - 1)
  BY <1>2 DEF Identidades
<1>4. \A p \in pend2 : p.id \in ids /\ p.id # -1 /\ p.id \in E /\ \A q \in pend2 : q.id = p.id => q = p
  BY DEF Identidades
<1>5. ASSUME NEW i \in DOMAIN s
      PROVE  /\ s[i].id \in 1..(prox2 - 1)
             /\ \A p \in pend2 : p.id # s[i].id
             /\ ~s[i].copia /\ s[i].id \in ids => s[i].id \in E
  <2>1. CASE i = l
    BY <1>1, <2>1
  <2>2. CASE i \in DOMAIN cola
    <3>1. s[i] = cola[i]
      BY <1>1, <2>2
    <3>2. QED
      BY <1>2, <2>2, <3>1 DEF Identidades
  <2>3. QED
    BY <1>1, <2>1, <2>2
<1>6. \A i, j \in DOMAIN s : i < j /\ ~s[j].copia => s[j].id # s[i].id
  <2> TAKE i \in DOMAIN s, j \in DOMAIN s
  <2> HAVE i < j /\ ~s[j].copia
  <2>1. i \in DOMAIN cola
    <3>1. \A z \in DOMAIN s : z = l \/ z < l
      BY <1>1
    <3>2. i = l => FALSE
      <4>1. j = l \/ j < l
        BY <3>1
      <4>2. QED
        BY <1>1, <4>1
    <3>3. QED
      BY <1>1, <3>2
  <2>2. CASE j = l
    BY <1>1, <2>1, <2>2
  <2>3. CASE j \in DOMAIN cola
    <3>1. s[i] = cola[i] /\ s[j] = cola[j]
      BY <1>1, <2>1, <2>3
    <3>2. QED
      BY <2>1, <2>3, <3>1 DEF Identidades
  <2>4. QED
    BY <1>1, <2>2, <2>3
<1>7. \A z \in resp2 : z.id \in 1..(prox2 - 1) /\ \A p \in pend2 : p.id # z.id
  <2> TAKE z \in resp2
  <2>1. z = m \/ z \in resp
    OBVIOUS
  <2>2. QED
    BY <1>2, <2>1 DEF Identidades
<1>8. Identidades(E, ids, prox2, s, pend2, resp2)
  BY <1>3, <1>4, <1>5, <1>6, <1>7 DEF Identidades
<1>9. QED
  BY <1>8 DEF s

\* A CAUGHT arrives.
LEMMA PasoDeLlegada ==
  ASSUME IInv, cayo = "no", UNCHANGED <<TEAM, cpu, caught, resolutores, aceptados, cayo, idsCatch>>,
         UNCHANGED <<appeared, suscripto, conectado, broker>>,
         incidentes \subseteq incidentes', "pisado" \in incidentes' => "pisado" \in incidentes,
         NEW m \in Avisos, colas' = [colas EXCEPT !["CAUGHT"] = Append(colas["CAUGHT"], m)],
         libres' \subseteq Pokemones, IsFiniteSet(libres'), pendientes' \subseteq pendientes,
         respondidos' \subseteq respondidos \cup {m},
         proximoId' \in Nat, proximoId <= proximoId', m.id \in 1..(proximoId' - 1),
         \A p \in pendientes' : p.id # m.id,
         ~m.copia => m.id \notin idsCatch \/ m.id \in Esperados(TEAM, NE, cpu),
         ~m.copia => \A i \in DOMAIN colas["CAUGHT"] : colas["CAUGHT"][i].id # m.id
  PROVE  IInv'
<1> DEFINE q == colas["CAUGHT"]
           s == Append(q, m)
           E == Esperados(TEAM, NE, cpu)
           prox == proximoId
           prox2 == proximoId'
           pend == pendientes
           pend2 == pendientes'
           resp == respondidos
           resp2 == respondidos'
           ids == idsCatch
<1>1. TiposSistema /\ Conocidos
  BY Ahora
<1>2. q \in Seq(Avisos) /\ prox \in Nat \ {0} /\ prox2 \in Nat \ {0} /\ resp \subseteq Avisos
  BY <1>1 DEF TiposSistema
<1>3. s \in Seq(Avisos)
  <2> HIDE DEF q
  <2>1. QED
    BY <1>2
<1>4. Identidades(E, ids, prox, q, pend, resp)
  BY <1>1 DEF Conocidos
<1>5. /\ prox <= prox2 /\ pend2 \subseteq pend /\ m.id \in 1..(prox2 - 1)
      /\ (\A p \in pend2 : p.id # m.id) /\ (~m.copia => m.id \notin ids \/ m.id \in E)
      /\ (~m.copia => \A i \in DOMAIN q : q[i].id # m.id) /\ resp2 \subseteq resp \cup {m}
  OBVIOUS
<1>6. colas' = [colas EXCEPT !["CAUGHT"] = s]
  OBVIOUS
<1> HIDE DEF E, q, prox, prox2, pend, pend2, resp, resp2, ids
<1>7. Identidades(E, ids, prox2, s, pend2, resp2)
  BY <1>2, <1>4, <1>5, IdentidadesLlega
<1> HIDE DEF s
<1>8. DOMAIN colas' = Colas /\ colas'["CAUGHT"] = s /\ colas'["LOCALIZED"] = colas["LOCALIZED"]
      /\ colas'["APPEARED"] = colas["APPEARED"]
  BY <1>1, <1>6, OtraCola DEF TiposSistema, Colas
<1>9. TiposSistema'
  <2>1. \A p \in pendientes' : p \in [id : Int, pokemon : Pokemones]
    BY <1>1 DEF TiposSistema
  <2>2. respondidos' \subseteq Avisos /\ proximoId' \in Nat \ {0}
    BY <1>2, <1>5 DEF resp, resp2, prox2
  <2>3. QED
    BY <1>1, <1>3, <1>8, <2>1, <2>2 DEF TiposSistema
<1>10. QED
  BY <1>7, <1>8, <1>9, PasoAjeno DEF E, prox2, pend2, resp2, ids

LEMMA SigueResponder ==
  ASSUME IInv, NEW c \in pendientes, NEW ok \in BOOLEAN, Responder(c, ok)
  PROVE  IInv'
<1> DEFINE m == [id |-> c.id, ok |-> ok, copia |-> FALSE]
           z == c.pokemon
           y == [z EXCEPT !.n = @ + 10, !.posicion[2] = @ + 1]
<1>1. /\ cayo = "no" /\ colas' = [colas EXCEPT !["CAUGHT"] = Append(colas["CAUGHT"], m)]
      /\ respondidos' \subseteq respondidos \cup {m} /\ pendientes' = pendientes \ {c}
  BY DEF Responder, Vivo
<1>2. UNCHANGED <<TEAM, cpu, caught, resolutores, aceptados, cayo, idsCatch>>
      /\ UNCHANGED <<appeared, suscripto, conectado, broker>> /\ proximoId' = proximoId
  BY DEF Responder
<1>3. incidentes' \in {incidentes, incidentes \cup {"dos veces"}}
  BY DEF Responder
<1>4. libres' = libres \/ libres' = libres \cup {y}
  BY DEF Responder
<1>5. TiposSistema /\ Conocidos
  BY <1>1, Ahora
<1>6. c \in [id : Int, pokemon : Pokemones] /\ proximoId \in Nat \ {0} /\ libres \subseteq Pokemones
      /\ IsFiniteSet(libres)
  BY <1>5 DEF TiposSistema
<1>7. z \in Pokemones /\ c.id \in Int
  BY <1>6
<1>8. m \in Avisos /\ m.id = c.id /\ ~m.copia
  BY <1>7 DEF Avisos
<1> HIDE DEF m
<1>9. y \in Pokemones
  <2> HIDE DEF z
  <2> DEFINE a == z.posicion[1]
             b == z.posicion[2] + 1
             v == z.n + 10
             s == z.especie
  <2>1. a \in Int /\ b \in Int /\ v \in Int /\ s \in Especies /\ z.posicion = <<z.posicion[1], z.posicion[2]>>
    BY <1>7 DEF Pokemones, Posiciones
  <2>2. [z.posicion EXCEPT ![2] = b] = <<a, b>>
    BY <2>1
  <2>3. y = [n |-> v, especie |-> s, posicion |-> <<a, b>>]
    <3>1. y = [z EXCEPT !.n = v, !.posicion = [z.posicion EXCEPT ![2] = b]]
      OBVIOUS
    <3>2. y = [z EXCEPT !.n = v, !.posicion = <<a, b>>]
      BY <2>2, <3>1
    <3> HIDE DEF y, v, a, b
    <3>3. QED
      BY <1>7, <3>2 DEF Pokemones
  <2> HIDE DEF a, b, v, s, y
  <2>4. QED
    BY <2>1, <2>3 DEF Pokemones, Posiciones
<1> HIDE DEF y
<1>10. libres' \subseteq Pokemones /\ IsFiniteSet(libres')
  BY <1>4, <1>6, <1>9, FS_AddElement
<1>11. /\ c.id \in 1..(proximoId - 1) /\ c.id \in Esperados(TEAM, NE, cpu)
       /\ (\A p \in pendientes' : p.id # c.id)
       /\ \A i \in DOMAIN colas["CAUGHT"] : colas["CAUGHT"][i].id # c.id
  <2> DEFINE E == Esperados(TEAM, NE, cpu)
             q == colas["CAUGHT"]
  <2>1. Identidades(E, idsCatch, proximoId, q, pendientes, respondidos)
    BY <1>5 DEF Conocidos
  <2> HIDE DEF E, q
  <2>2. /\ c.id \in 1..(proximoId - 1) /\ c.id \in E
        /\ (\A p \in pendientes : p.id = c.id => p = c)
        /\ \A i \in DOMAIN q : q[i].id # c.id
    BY <2>1 DEF Identidades
  <2>3. \A p \in pendientes' : p.id # c.id
    BY <1>1, <2>2
  <2>4. QED
    BY <2>2, <2>3 DEF E, q
<1>12. incidentes \subseteq incidentes' /\ ("pisado" \in incidentes' => "pisado" \in incidentes)
  BY <1>3
<1>13. proximoId' \in Nat /\ proximoId <= proximoId' /\ m.id \in 1..(proximoId' - 1)
  BY <1>2, <1>6, <1>8, <1>11
<1>14. pendientes' \subseteq pendientes /\ (\A p \in pendientes' : p.id # m.id)
       /\ (~m.copia => m.id \notin idsCatch \/ m.id \in Esperados(TEAM, NE, cpu))
       /\ (~m.copia => \A i \in DOMAIN colas["CAUGHT"] : colas["CAUGHT"][i].id # m.id)
  BY <1>1, <1>8, <1>11
<1>15. QED
  BY <1>1, <1>2, <1>8, <1>10, <1>12, <1>13, <1>14, PasoDeLlegada

LEMMA SigueRepetir ==
  ASSUME IInv, NEW a \in respondidos, Repetir(a)
  PROVE  IInv'
<1> DEFINE m == [a EXCEPT !.copia = TRUE]
<1>1. /\ cayo = "no" /\ colas' = [colas EXCEPT !["CAUGHT"] = Append(colas["CAUGHT"], m)]
  BY DEF Repetir, Vivo
<1>2. UNCHANGED <<TEAM, cpu, caught, resolutores, aceptados, cayo, idsCatch>>
      /\ UNCHANGED <<appeared, suscripto, conectado, broker>> /\ proximoId' = proximoId
      /\ incidentes' = incidentes /\ libres' = libres /\ pendientes' = pendientes
      /\ respondidos' = respondidos
  BY DEF Repetir, historia
<1>3. TiposSistema /\ Conocidos
  BY <1>1, Ahora
<1>4. a \in Avisos /\ proximoId \in Nat /\ libres' \subseteq Pokemones /\ IsFiniteSet(libres')
  BY <1>2, <1>3 DEF TiposSistema
<1>5. m \in Avisos /\ m.id = a.id /\ m.copia
  BY <1>4 DEF Avisos
<1> HIDE DEF m
<1>6. /\ a.id \in 1..(proximoId - 1) /\ (\A p \in pendientes : p.id # a.id)
  BY <1>3 DEF Conocidos, Identidades
<1>7. incidentes \subseteq incidentes' /\ ("pisado" \in incidentes' => "pisado" \in incidentes)
  BY <1>2
<1>8. proximoId' \in Nat /\ proximoId <= proximoId' /\ m.id \in 1..(proximoId' - 1)
  BY <1>2, <1>4, <1>5, <1>6
<1>9. pendientes' \subseteq pendientes /\ (\A p \in pendientes' : p.id # m.id)
       /\ (~m.copia => m.id \notin idsCatch \/ m.id \in Esperados(TEAM, NE, cpu))
       /\ (~m.copia => \A i \in DOMAIN colas["CAUGHT"] : colas["CAUGHT"][i].id # m.id)
       /\ respondidos' \subseteq respondidos \cup {m}
  BY <1>2, <1>5, <1>6
<1>10. QED
  BY <1>1, <1>2, <1>4, <1>5, <1>7, <1>8, <1>9, PasoDeLlegada

LEMMA SigueAjeno ==
  ASSUME IInv, Ajeno
  PROVE  IInv'
<1> DEFINE m == [id |-> proximoId, ok |-> TRUE, copia |-> FALSE]
<1>1. /\ cayo = "no" /\ colas' = [colas EXCEPT !["CAUGHT"] = Append(colas["CAUGHT"], m)]
      /\ proximoId' = proximoId + 1
  BY DEF Ajeno, Vivo
<1>2. UNCHANGED <<TEAM, cpu, caught, resolutores, aceptados, cayo, idsCatch>>
      /\ UNCHANGED <<appeared, suscripto, conectado, broker>>
      /\ incidentes' = incidentes /\ libres' = libres /\ pendientes' = pendientes
      /\ respondidos' = respondidos
  BY DEF Ajeno, historia
<1>3. TiposSistema /\ Conocidos
  BY <1>1, Ahora
<1>4. proximoId \in Nat \ {0} /\ libres' \subseteq Pokemones /\ IsFiniteSet(libres')
  BY <1>2, <1>3 DEF TiposSistema
<1>5. m \in Avisos /\ m.id = proximoId /\ ~m.copia
  BY <1>4 DEF Avisos
<1> HIDE DEF m
<1>6. /\ (\A p \in pendientes : p.id # proximoId) /\ proximoId \notin idsCatch
      /\ \A i \in DOMAIN colas["CAUGHT"] : colas["CAUGHT"][i].id # proximoId
  <2> DEFINE q == colas["CAUGHT"]
             E == Esperados(TEAM, NE, cpu)
  <2>1. Identidades(E, idsCatch, proximoId, q, pendientes, respondidos)
    BY <1>3 DEF Conocidos
  <2> HIDE DEF E, q
  <2>2. proximoId \notin 1..(proximoId - 1) /\ proximoId # -1
    BY <1>4
  <2>3. (\A p \in pendientes : p.id # proximoId) /\ proximoId \notin idsCatch
    BY <2>1, <2>2 DEF Identidades
  <2>4. \A i \in DOMAIN q : q[i].id # proximoId
    BY <2>1, <2>2 DEF Identidades
  <2>5. QED
    BY <2>3, <2>4 DEF q
<1>7. incidentes \subseteq incidentes' /\ ("pisado" \in incidentes' => "pisado" \in incidentes)
  BY <1>2
<1>8. proximoId' \in Nat /\ proximoId <= proximoId' /\ m.id \in 1..(proximoId' - 1)
  BY <1>1, <1>4, <1>5
<1>9. pendientes' \subseteq pendientes /\ (\A p \in pendientes' : p.id # m.id)
       /\ (~m.copia => m.id \notin idsCatch \/ m.id \in Esperados(TEAM, NE, cpu))
       /\ (~m.copia => \A i \in DOMAIN colas["CAUGHT"] : colas["CAUGHT"][i].id # m.id)
       /\ respondidos' \subseteq respondidos \cup {m}
  BY <1>2, <1>5, <1>6
<1>10. QED
  BY <1>1, <1>2, <1>4, <1>5, <1>7, <1>8, <1>9, PasoDeLlegada

LEMMA SigueCaerBroker ==
  ASSUME IInv, CaerBroker
  PROVE  IInv'
<1>1. /\ cayo = "no" /\ broker' = FALSE /\ pendientes' \subseteq pendientes
      /\ suscripto' = [q \in Colas |-> IF suscripto[q] = "viva" THEN "rota" ELSE suscripto[q]]
      /\ incidentes' \in {incidentes, incidentes \cup {"sin respuesta"}}
  BY DEF CaerBroker, Vivo
<1>2. UNCHANGED <<TEAM, cpu, caught, resolutores, aceptados, cayo, idsCatch, proximoId, colas, appeared,
                  conectado, libres, respondidos>>
  BY DEF CaerBroker, mensajes
<1>3. TiposSistema /\ Conocidos
  BY <1>1, Ahora
<1>4. suscripto' \in [Colas -> {"no", "viva", "rota", "sorda"}]
  BY <1>1, <1>3 DEF TiposSistema
<1>5. TiposSistema'
  BY <1>1, <1>2, <1>3, <1>4 DEF TiposSistema
<1>6. incidentes \subseteq incidentes' /\ ("pisado" \in incidentes' => "pisado" \in incidentes)
  BY <1>1
<1>7. Identidades(Esperados(TEAM, NE, cpu), idsCatch', proximoId', colas'["CAUGHT"], pendientes', respondidos')
  <2> DEFINE q == colas["CAUGHT"]
             E == Esperados(TEAM, NE, cpu)
             pend == pendientes
             pend2 == pendientes'
  <2>1. Identidades(E, idsCatch, proximoId, q, pend, respondidos) /\ pend2 \subseteq pend
    BY <1>1, <1>3 DEF Conocidos
  <2> HIDE DEF E, q, pend, pend2
  <2>2. Identidades(E, idsCatch, proximoId, q, pend2, respondidos)
    BY <2>1 DEF Identidades
  <2>3. QED
    BY <1>2, <2>2 DEF E, q, pend2
<1>8. QED
  BY <1>1, <1>2, <1>5, <1>6, <1>7, PasoAjeno

LEMMA SigueIgual ==
  ASSUME IInv, UNCHANGED vars
  PROVE  IInv'
<1>1. UNCHANGED <<TEAM, cpu, resolutores, idsCatch, proximoId, colas, appeared, caught, suscripto,
                  conectado, broker, libres, pendientes, respondidos, aceptados, incidentes, cayo>>
  BY DEF vars, mensajes, sistema, historia
<1>2. NE' = NE /\ TiposSistema' /\ TiposHistoria'
  BY <1>1, SistemaSigue, HistoriaSigue DEF IInv, NE
<1>3. Bien => Bien'
  BY <1>1, <1>2 DEF Bien, Conocidos
<1>4. QED
  BY <1>1, <1>2, <1>3 DEF IInv

LEMMA SigueSiempre ==
  ASSUME IInv, [Next]_vars
  PROVE  IInv'
<1>1. CASE Programa
  BY <1>1, SigueEnviarGet, SigueEvaluar, SigueTomar, SigueCiclo, SigueAtraparPorDefault, SigueBloquear,
     SigueEnviarCatch, SigueAnotarId, SigueIntercambiar DEF Programa
<1>2. CASE Entorno
  BY <1>2, SigueAparece, SigueResponder, SigueVolverBroker DEF Entorno
<1>3. CASE \/ ResolverEnHilo \/ VerificarAppeared \/ AgregarAppeared \/ ProcesarLocalized
           \/ RecibirCaught \/ DesocuparPorCaught \/ Reponer \/ Cerrar
  BY <1>3, SigueResolver, SigueVerificarAppeared, SigueAgregarAppeared, SigueProcesarLocalized,
     SigueRecibirCaught, SigueDesocupar, SigueReponer, SigueCerrar
<1>4. CASE \/ \E q \in Colas : Conectar(q) \/ PerderConexion(q)
           \/ \E s \in consultas : Localizar(s)
           \/ \E m \in respondidos : Repetir(m)
           \/ Ajeno \/ CaerBroker
  BY <1>4, SigueConectar, SigueLocalizar, SigueRepetir, SigueAjeno, SigueCaerBroker
<1>5. CASE UNCHANGED vars
  BY <1>5, SigueIgual
<1>6. QED
  BY <1>1, <1>2, <1>3, <1>4, <1>5 DEF Next

LEMMA NuevoTipo ==
  ASSUME NEW n, NEW x \in [posicion : Int \X Int, buscados : Seq(Especies), capturados : Seq(Especies)],
         PuedeCapturar(x), NEW y, y = EntrenadorNuevo(x)
  PROVE  /\ y \in Fichas(n) /\ ~Lleno(y) /\ y.tarea = SinTarea /\ ~y.esta_en_entrada_salida
         /\ y.id_correlativo_esperado = -1 /\ ~y.esperando_intercambio
         /\ Len(y.capturados) <= Len(y.buscados)
<1> DEFINE st == SinTarea
           a == x.posicion
           b == x.capturados
           d == x.buscados
<1>1. a \in Posiciones /\ b \in Seq(Especies) /\ d \in Seq(Especies)
  BY DEF Posiciones
<1>2. st \in Tareas(n)
  BY DEF Tareas
<1>3. y = [posicion |-> a, capturados |-> b, buscados |-> d,
           estado |-> "NEW", tarea |-> st, esta_en_entrada_salida |-> FALSE,
           id_correlativo_esperado |-> -1, rafagas_intercambio |-> 0,
           esperando_intercambio |-> FALSE, estimado |-> ESTIMACION_INICIAL]
  BY DEF EntrenadorNuevo
<1>4. Len(d) > Len(b) /\ Len(d) \in Nat /\ Len(b) \in Nat
  BY <1>1 DEF PuedeCapturar
<1> HIDE DEF st, a, b, d
<1>5. y \in Fichas(n)
  BY <1>1, <1>2, <1>3, TeamAssumption DEF Fichas, RafagasIntercambio
<1>6. /\ y.tarea = st /\ y.esta_en_entrada_salida = FALSE /\ y.id_correlativo_esperado = -1
      /\ y.esperando_intercambio = FALSE /\ y.capturados = b /\ y.buscados = d
  BY <1>3
<1>7. QED
  BY <1>4, <1>5, <1>6 DEF Lleno, PuedeCapturar, st

LEMMA AlPrincipio ==
  ASSUME NEW x, NEW d, NEW c, NEW k, NEW i, NEW e,
         ~Lleno(x), x.tarea = SinTarea, ~x.esta_en_entrada_salida, x.id_correlativo_esperado = -1,
         Len(x.capturados) <= Len(x.buscados), d = 1, c.e = 0, e # 0, k.que = "nada"
  PROVE  Puesto(x, d, 0, c, k, i, e)
<1>1. ~Atrapa(x)
  BY DEF Atrapa, SinTarea
<1>2. Uno(c.e = e) = 0 /\ Uno(c.e # e /\ x.esta_en_entrada_salida) = 0 /\ ~EnMano(k, e) /\ Uno(EnMano(k, e)) = 0
  BY DEF Uno, EnMano
<1>3. Sitios(x, d, 0, c, k, e) = 1
  BY <1>2 DEF Sitios
<1>4. Sitios(x, d, 0, c, k, e) <= 1
  BY <1>3
<1>5. c.e # e /\ k.que # "cerrar"
  OBVIOUS
<1>6. QED
  BY <1>1, <1>2, <1>3, <1>4, <1>5, Zenon DEF Puesto

LEMMA ObjetivosHace ==
  ASSUME NEW n \in Nat, NEW t \in Equipos(n), NEW q, q = ObjetivosRestantes(t.entrenadores)
  PROVE  /\ q \in Seq(Especies)
         /\ \A s \in Especies : Cantidad(q, s) >= EspecieBuscada(t, s) - EspecieCapturada(t, s)
<1> DEFINE a == FlattenSeq(Pedidos(t))
           b == FlattenSeq(Bolsillos(t))
<1>1. q = Menos(a, b)
  BY DEF ObjetivosRestantes, Pedidos, Bolsillos
<1>2. a \in Seq(Especies) /\ b \in Seq(Especies)
  BY BolsillosTipo, AplanarTipo
<1>3. \A s : EspecieBuscada(t, s) = Cantidad(a, s) /\ EspecieCapturada(t, s) = Cantidad(b, s)
  BY DEF EspecieBuscada, EspecieCapturada, Pedidos, Bolsillos
<1> HIDE DEF a, b
<1>4. q \in Seq(Especies)
  BY <1>1, <1>2, MenosCuenta
<1>5. ASSUME NEW s \in Especies
      PROVE  Cantidad(q, s) >= EspecieBuscada(t, s) - EspecieCapturada(t, s)
  <2> DEFINE x == Cuantos(a, {s})
             y == Cuantos(b, {s})
             z == Cuantos(q, {s})
  <2>1. Cantidad(a, s) = x /\ Cantidad(b, s) = y /\ Cantidad(q, s) = z /\ x \in Nat /\ y \in Nat
    BY <1>2, <1>4, CantidadCuantos
  <2>2. z = IF x <= y THEN 0 ELSE x - y
    BY <1>1, <1>2, MenosCuenta
  <2> HIDE DEF x, y, z
  <2>3. z >= x - y
    BY <2>1, <2>2
  <2>4. QED
    BY <1>3, <2>1, <2>3
<1>6. QED
  BY <1>4, <1>5

NuevoEquipo(f, p, q) ==
  [entrenadores |-> f, planificador |-> p, ready |-> <<>>,
   semaforo_ready |-> 0, desocupados |-> [e \in DOMAIN f |-> e],
   objetivos |-> q, mapa |-> <<>>, hubo_deadlocks |-> FALSE]
LEMMA EquipoTipo ==
  ASSUME NEW n \in Nat, NEW f \in [1..n -> Fichas(n)], NEW p \in {"FIFO", "RR", "SJF_CD", "SJF_SD"},
         NEW q \in Seq(Especies), NEW t, t = NuevoEquipo(f, p, q)
  PROVE  /\ t \in Equipos(n) /\ t.entrenadores = f /\ t.ready = <<>> /\ t.objetivos = q /\ t.mapa = <<>>
         /\ \A e \in 1..n : Cantidad(t.desocupados, e) = 1 /\ Cantidad(t.ready, e) = 0
<1> DEFINE d == [e \in 1..n |-> e]
           vacia == <<>>
<1>1. d \in Seq(1..n) /\ DOMAIN d = 1..n
  <2>1. d \in [1..n -> 1..n]
    OBVIOUS
  <2> HIDE DEF d
  <2>2. QED
    BY <2>1, UnaLista
<1>2. t = [entrenadores |-> f, planificador |-> p, ready |-> vacia, semaforo_ready |-> 0,
           desocupados |-> d, objetivos |-> q, mapa |-> vacia, hubo_deadlocks |-> FALSE]
  BY DEF NuevoEquipo
<1>3. vacia \in Seq(1..n) /\ vacia \in Seq(Pokemones)
  OBVIOUS
<1>4. \A e \in 1..n : Cantidad(d, e) = 1 /\ Cantidad(vacia, e) = 0
  <2> TAKE e \in 1..n
  <2>1. {i \in DOMAIN d : d[i] = e} = {e}
    OBVIOUS
  <2>2. {i \in DOMAIN vacia : vacia[i] = e} = {}
    OBVIOUS
  <2>3. QED
    BY <2>1, <2>2, FS_EmptySet, FS_Singleton DEF Cantidad
<1> HIDE DEF d, vacia
<1>5. t \in Equipos(n)
  BY <1>1, <1>2, <1>3 DEF Equipos
<1>6. t.entrenadores = f /\ t.ready = vacia /\ t.objetivos = q /\ t.mapa = vacia /\ t.desocupados = d
  BY <1>2
<1>7. QED
  BY <1>4, <1>5, <1>6 DEF vacia

LEMMA TodoAlPrincipio ==
  ASSUME NEW n \in Nat, NEW t \in Equipos(n), t.mapa = <<>>, NEW c, NEW ac,
         \A e \in 1..n : Cantidad(t.desocupados, e) = 1 /\ Cantidad(t.ready, e) = 0,
         \A e \in 1..n :
           LET x == t.entrenadores[e]
           IN  /\ ~Lleno(x) /\ x.tarea = SinTarea /\ ~x.esta_en_entrada_salida
               /\ x.id_correlativo_esperado = -1 /\ ~x.esperando_intercambio
               /\ Len(x.capturados) <= Len(x.buscados),
         \A s \in Especies : Cantidad(t.objetivos, s) >= EspecieBuscada(t, s) - EspecieCapturada(t, s),
         \A s \in Especies : ac[s] = EspecieCapturada(t, s),
         c.e = 0, c.etapa = 1
  PROVE  Todo(t, n, c, Nada, {}, 0, ac)
<1>1. Nada.que = "nada"
  BY DEF Nada
<1>2. Puestos(t, n, c, Nada, {})
  <2> SUFFICES ASSUME NEW e \in 1..n
               PROVE  Puesto(t.entrenadores[e], Cantidad(t.desocupados, e), Cantidad(t.ready, e), c, Nada, {}, e)
    BY DEF Puestos
  <2> DEFINE x == t.entrenadores[e]
             d == Cantidad(t.desocupados, e)
             r == Cantidad(t.ready, e)
             k == Nada
  <2>1. /\ ~Lleno(x) /\ x.tarea = SinTarea /\ ~x.esta_en_entrada_salida /\ x.id_correlativo_esperado = -1
        /\ Len(x.capturados) <= Len(x.buscados) /\ d = 1 /\ r = 0 /\ e # 0 /\ k.que = "nada"
    BY <1>1
  <2> HIDE DEF x, d, r, k
  <2>2. Puesto(x, d, 0, c, k, {}, e)
    BY <2>1, AlPrincipio
  <2>3. QED
    BY <2>1, <2>2 DEF x, d, r, k
<1>3. \A e \in 1..n : ~Va(t.entrenadores[e]) /\ ~t.entrenadores[e].esperando_intercambio
  BY DEF Va, SinTarea
<1>4. Fases(t, n, c, {}, 0)
  BY <1>3 DEF Fases
<1>5. Pares(t, n, {})
  BY <1>3, Zenon DEF Pares
<1>6. Cuentas(t, n, Nada, ac)
  <2> SUFFICES ASSUME NEW s \in Especies
               PROVE  /\ EnMapa(t, s) + EnTareas(t, n, s) + EspecieCapturada(t, s) = ac[s]
                      /\ Cantidad(t.objetivos, s) + EnTareas(t, n, s)
                           + Uno(Nada.que = "reponer" /\ Nada.especie = s)
                             >= EspecieBuscada(t, s) - EspecieCapturada(t, s)
    BY DEF Cuentas
  <2>1. EnMapa(t, s) = 0
    BY CuantosVacia DEF EnMapa
  <2>2. {e \in 1..n : VaPor(t, e, s)} = {}
    BY DEF VaPor, SinTarea
  <2>3. EnTareas(t, n, s) = 0
    BY <2>2, FS_EmptySet DEF EnTareas
  <2>4. Uno(Nada.que = "reponer" /\ Nada.especie = s) = 0
    BY <1>1 DEF Uno
  <2>5. EspecieCapturada(t, s) \in Nat /\ Cantidad(t.objetivos, s) \in Nat /\ EspecieBuscada(t, s) \in Nat
    BY CuentasTipo
  <2>6. ac[s] = EspecieCapturada(t, s)
        /\ Cantidad(t.objetivos, s) >= EspecieBuscada(t, s) - EspecieCapturada(t, s)
    OBVIOUS
  <2> DEFINE a == EnMapa(t, s)
             b == EnTareas(t, n, s)
             f == EspecieCapturada(t, s)
             g == Cantidad(t.objetivos, s)
             h == EspecieBuscada(t, s)
             z == Uno(Nada.que = "reponer" /\ Nada.especie = s)
  <2> HIDE DEF a, b, f, g, h, z
  <2>7. a + b + f = ac[s] /\ g + b + z >= h - f
    BY <2>1, <2>3, <2>4, <2>5, <2>6 DEF a, b, f, g, h, z
  <2>8. QED
    BY <2>7 DEF a, b, f, g, h, z
<1>7. QED
  BY <1>2, <1>4, <1>5, <1>6 DEF Todo, Orden

HiloInicial == [lugar |-> "gets", etapa |-> 1, e |-> 0, i |-> 0, n |-> 0, largo |-> 0, id |-> -1]
Recien(x) ==
  /\ ~Lleno(x) /\ x.tarea = SinTarea /\ ~x.esta_en_entrada_salida
  /\ x.id_correlativo_esperado = -1 /\ ~x.esperando_intercambio
  /\ Len(x.capturados) <= Len(x.buscados)
LEMMA NuevosTipo ==
  ASSUME NEW c \in Casos, NEW n, n = Len(c.entrenadores), NEW f,
         f = [e \in DOMAIN c.entrenadores |-> EntrenadorNuevo(c.entrenadores[e])]
  PROVE  /\ n \in Nat /\ f \in [1..n -> Fichas(n)] /\ \A e \in 1..n : Recien(f[e])
         /\ c.planificador \in {"FIFO", "RR", "SJF_CD", "SJF_SD"}
         /\ c.libres \subseteq Pokemones /\ IsFiniteSet(c.libres)
<1> DEFINE X == [posicion : Int \X Int, buscados : Seq(Especies), capturados : Seq(Especies)]
           s == c.entrenadores
<1>1. /\ s \in Seq(X) /\ \A e \in DOMAIN s : PuedeCapturar(s[e])
      /\ c.planificador \in {"FIFO", "RR", "SJF_CD", "SJF_SD"}
      /\ c.libres \subseteq Pokemones /\ IsFiniteSet(c.libres)
  BY TeamAssumption DEF Pokemones, Posiciones
<1>2. n = Len(s) /\ f = [e \in DOMAIN s |-> EntrenadorNuevo(s[e])]
  OBVIOUS
<1> HIDE DEF s
<1>3. DOMAIN s = 1..n /\ n \in Nat /\ \A e \in 1..n : s[e] \in X
  <2> HIDE DEF X
  <2>1. s \in Seq(X)
    BY <1>1 DEF X
  <2>2. QED
    BY <1>2, <2>1, LenProperties, ElementOfSeq
<1>4. ASSUME NEW e \in 1..n
      PROVE  f[e] \in Fichas(n) /\ Recien(f[e])
  <2>1. f[e] = EntrenadorNuevo(s[e])
    BY <1>2, <1>3
  <2>2. s[e] \in X /\ PuedeCapturar(s[e])
    BY <1>1, <1>3
  <2> DEFINE x == s[e]
             y == f[e]
  <2> HIDE DEF x, y
  <2>3. y = EntrenadorNuevo(x) /\ x \in X /\ PuedeCapturar(x)
    BY <2>1, <2>2 DEF x, y
  <2>4. y \in Fichas(n) /\ Recien(y)
    BY <2>3, NuevoTipo DEF Recien
  <2>5. QED
    BY <2>4 DEF y
<1>5. f \in [1..n -> Fichas(n)]
  BY <1>2, <1>3, <1>4
<1>6. QED
  BY <1>1, <1>3, <1>4, <1>5

LEMMA EquipoInicial ==
  ASSUME NEW n \in Nat, NEW f \in [1..n -> Fichas(n)], \A e \in 1..n : Recien(f[e]),
         NEW p \in {"FIFO", "RR", "SJF_CD", "SJF_SD"}, NEW t,
         t = NuevoEquipo(f, p, ObjetivosRestantes(f)), NEW ac,
         \A s \in Especies : ac[s] = EspecieCapturada(t, s)
  PROVE  t.entrenadores = f /\ Todo(t, n, HiloInicial, Nada, {}, 0, ac)
<1> DEFINE q == ObjetivosRestantes(f)
           v == <<>>
           u == NuevoEquipo(f, p, v)
           c == HiloInicial
<1>1. v \in Seq(Especies)
  OBVIOUS
<1> HIDE DEF v
<1>2. u \in Equipos(n) /\ u.entrenadores = f
  BY <1>1, EquipoTipo
<1>3. q = ObjetivosRestantes(u.entrenadores)
  BY <1>2
<1> HIDE DEF q, u
<1>4. q \in Seq(Especies)
      /\ \A s \in Especies : Cantidad(q, s) >= EspecieBuscada(u, s) - EspecieCapturada(u, s)
  BY <1>2, <1>3, ObjetivosHace
<1>5. t = NuevoEquipo(f, p, q)
  BY DEF q
<1>6. /\ t \in Equipos(n) /\ t.entrenadores = f /\ t.objetivos = q /\ t.mapa = <<>>
      /\ \A e \in 1..n : Cantidad(t.desocupados, e) = 1 /\ Cantidad(t.ready, e) = 0
  BY <1>4, <1>5, EquipoTipo
<1>7. \A s : EspecieBuscada(t, s) = EspecieBuscada(u, s) /\ EspecieCapturada(t, s) = EspecieCapturada(u, s)
  BY <1>2, <1>6 DEF EspecieBuscada, EspecieCapturada
<1>8. \A s \in Especies : Cantidad(t.objetivos, s) >= EspecieBuscada(t, s) - EspecieCapturada(t, s)
  BY <1>4, <1>6, <1>7
<1>9. \A e \in 1..n :
        LET x == t.entrenadores[e]
        IN  /\ ~Lleno(x) /\ x.tarea = SinTarea /\ ~x.esta_en_entrada_salida
            /\ x.id_correlativo_esperado = -1 /\ ~x.esperando_intercambio
            /\ Len(x.capturados) <= Len(x.buscados)
  BY <1>6 DEF Recien
<1>10. c.e = 0 /\ c.etapa = 1
  BY DEF HiloInicial
<1> HIDE DEF c
<1>11. Todo(t, n, c, Nada, {}, 0, ac)
  BY <1>6, <1>8, <1>9, <1>10, TodoAlPrincipio
<1>12. QED
  BY <1>6, <1>11 DEF c

LEMMA EmpiezaBien ==
  ASSUME Init
  PROVE  IInv
<1>1. PICK c \in Casos :
        LET nuevos == [e \in DOMAIN c.entrenadores |-> EntrenadorNuevo(c.entrenadores[e])] IN
        /\ TEAM = NuevoEquipo(nuevos, c.planificador, ObjetivosRestantes(nuevos))
        /\ libres = c.libres
  BY DEF Init, NuevoEquipo
<1> DEFINE f == [e \in DOMAIN c.entrenadores |-> EntrenadorNuevo(c.entrenadores[e])]
           n == Len(c.entrenadores)
           p == c.planificador
<1>2. /\ n \in Nat /\ f \in [1..n -> Fichas(n)] /\ (\A e \in 1..n : Recien(f[e]))
      /\ p \in {"FIFO", "RR", "SJF_CD", "SJF_SD"}
      /\ c.libres \subseteq Pokemones /\ IsFiniteSet(c.libres)
  BY NuevosTipo
<1>3. TEAM = NuevoEquipo(f, p, ObjetivosRestantes(f)) /\ libres \subseteq Pokemones /\ IsFiniteSet(libres)
  BY <1>1, <1>2
<1> HIDE DEF f, n, p
<1>4. /\ cpu = HiloInicial /\ resolutores = 0 /\ idsCatch = {} /\ proximoId = 1
      /\ colas = [q \in Colas |-> <<>>] /\ appeared = Nada /\ caught = Nada
      /\ suscripto = [q \in Colas |-> "no"] /\ conectado = FALSE /\ broker = TRUE
      /\ pendientes = {} /\ respondidos = {} /\ incidentes = {} /\ cayo = "no"
      /\ aceptados = [s \in Especies |-> EspecieCapturada(TEAM, s)]
  BY DEF Init, HiloInicial
<1>5. \A s \in Especies : aceptados[s] = EspecieCapturada(TEAM, s)
  BY <1>4
<1>6. TEAM.entrenadores = f /\ Todo(TEAM, n, HiloInicial, Nada, {}, 0, aceptados)
  BY <1>2, <1>3, <1>5, EquipoInicial
<1>7. NE = n
  BY <1>2, <1>6, UnaLista DEF NE
<1>8. TEAM \in Equipos(n)
  BY <1>6 DEF Todo
<1>9. TiposEquipo(TEAM, NE, cpu, caught)
  <2> DEFINE k == HiloInicial
  <2>1. k \in Hilos(n) /\ Corre(k)
    BY <1>2 DEF HiloInicial, Hilos, Corre
  <2>2. Recibido(Nada, n)
    BY DEF Recibido, Nada
  <2> HIDE DEF k
  <2>3. QED
    BY <1>4, <1>7, <1>8, <2>1, <2>2 DEF TiposEquipo, k
<1>10. TiposSistema
  <2>1. colas["APPEARED"] = <<>> /\ colas["LOCALIZED"] = <<>> /\ colas["CAUGHT"] = <<>> /\ DOMAIN colas = Colas
    BY <1>4 DEF Colas
  <2>2. EnEspera(appeared)
    BY <1>4 DEF EnEspera, Nada
  <2>3. suscripto \in [Colas -> {"no", "viva", "rota", "sorda"}]
    BY <1>4
  <2>4. \A i \in DOMAIN colas["LOCALIZED"] : DeLaSuya(colas["LOCALIZED"][i])
    BY <2>1
  <2>5. colas["APPEARED"] \in Seq(Pokemones) /\ colas["LOCALIZED"] \in Seq(Hallazgos) /\ colas["CAUGHT"] \in Seq(Avisos)
    BY <2>1
  <2>6. \A x \in pendientes : x \in [id : Int, pokemon : Pokemones]
    BY <1>4
  <2>7. respondidos \subseteq Avisos /\ idsCatch \subseteq Int /\ proximoId \in Nat \ {0}
    BY <1>4
  <2>8. conectado \in BOOLEAN /\ broker \in BOOLEAN
    BY <1>4
  <2>9. QED
    BY <1>3, <2>1, <2>2, <2>3, <2>4, <2>5, <2>6, <2>7, <2>8, Zenon DEF TiposSistema
<1>11. TiposHistoria
  <2>1. \A s \in Especies : EspecieCapturada(TEAM, s) \in Int
    BY <1>2, <1>8, CuentasTipo
  <2>2. aceptados \in [Especies -> Int]
    BY <1>4, <2>1
  <2>3. QED
    BY <1>4, <2>2 DEF TiposHistoria
<1>12. Conocidos
  <2>1. colas["CAUGHT"] = <<>>
    BY <1>4 DEF Colas
  <2>2. QED
    BY <1>4, <2>1 DEF Conocidos, Identidades
<1>13. Bien
  BY <1>4, <1>6, <1>7, <1>12 DEF Bien
<1>14. QED
  BY <1>2, <1>7, <1>9, <1>10, <1>11, <1>13 DEF IInv

------------------------------------------------------------------------------
(* The properties. *)

LEMMA LosIds ==
  ASSUME IInv
  PROVE  Ids = 1..NE /\ NE \in Nat /\ TEAM \in Equipos(NE) /\ \A e \in Ids : Entrenador(e) \in Fichas(NE)
<1> DEFINE n == NE
           t == TEAM
<1>1. n \in Nat /\ t \in Equipos(n)
  BY DEF IInv, TiposEquipo
<1> HIDE DEF n, t
<1>2. t.entrenadores \in [1..n -> Fichas(n)]
  BY <1>1, Campos
<1>3. QED
  BY <1>1, <1>2 DEF n, t, Ids, Entrenador

LEMMA Tipos ==
  ASSUME IInv
  PROVE  TypeOK
<1> DEFINE n == NE
           t == TEAM
<1>1. Ids = 1..n /\ n \in Nat /\ t \in Equipos(n) /\ \A e \in Ids : Entrenador(e) \in Fichas(n)
  BY LosIds
<1>2. /\ cpu \in Hilos(n) /\ Corre(cpu) /\ suscripto \in [Colas -> {"no", "viva", "rota", "sorda"}]
      /\ conectado \in BOOLEAN /\ broker \in BOOLEAN
      /\ cayo \in {"no", "ventana", "repetido", "liberado", "pisado"}
  BY DEF IInv, TiposEquipo, TiposSistema, TiposHistoria
<1> HIDE DEF n, t
<1>3. ASSUME NEW e \in Ids
      PROVE  /\ Entrenador(e).estado \in {"NEW", "READY", "EXEC", "BLOCK", "EXIT"}
             /\ Entrenador(e).tarea.tipo_tarea \in {"NULL", "ATRAPAR", "INTERCAMBIO"}
             /\ Entrenador(e).rafagas_intercambio \in 0..RafagasIntercambio
             /\ {Entrenador(e).capturados[i] : i \in DOMAIN Entrenador(e).capturados} \subseteq Especies
  <2> DEFINE x == Entrenador(e)
             s == x.capturados
  <2>1. x \in Fichas(n)
    BY <1>1
  <2>2. /\ x.estado \in {"NEW", "READY", "EXEC", "BLOCK", "EXIT"} /\ x.tarea \in Tareas(n)
        /\ x.rafagas_intercambio \in 0..RafagasIntercambio /\ s \in Seq(Especies)
    BY <2>1 DEF Fichas
  <2>3. x.tarea.tipo_tarea \in {"NULL", "ATRAPAR", "INTERCAMBIO"}
    BY <2>2, UnaTarea
  <2>4. \A i \in DOMAIN s : s[i] \in Especies
    BY <2>2
  <2>5. QED
    BY <2>2, <2>3, <2>4
<1>4. {t.ready[i] : i \in DOMAIN t.ready} \subseteq Ids
      /\ {t.desocupados[i] : i \in DOMAIN t.desocupados} \subseteq Ids
  <2>1. t.ready \in Seq(Ids) /\ t.desocupados \in Seq(Ids)
    BY <1>1, Campos
  <2>2. QED
    BY <2>1
<1>5. /\ cpu.lugar \in {"gets", "evaluar", "esperar", "rafaga", "enviar", "anotar", "fin"}
      /\ cpu.e \in Ids \cup {0} /\ (cpu.lugar \in {"rafaga", "enviar", "anotar"} <=> cpu.e # 0)
  BY <1>1, <1>2 DEF Hilos, Corre
<1>6. QED
  BY <1>2, <1>3, <1>4, <1>5 DEF TypeOK, t

LEMMA Donde ==
  ASSUME NEW x, NEW d \in Nat, NEW r \in Nat, NEW c, NEW k, NEW i, NEW e, Puesto(x, d, r, c, k, i, e),
         i \cap Perdidos = {}, x.esta_en_entrada_salida \in BOOLEAN
  PROVE  Sitios(x, d, r, c, k, e) = Uno(~Lleno(x) \/ x.tarea # SinTarea)
<1>1. "sin rafagas" \notin i /\ "pisado" \notin i
  BY DEF Perdidos
<1>2. CASE ~Lleno(x)
  BY <1>1, <1>2 DEF Puesto, Uno
<1>3. CASE Lleno(x)
  <2>1. d = 0 /\ ~EnMano(k, e) /\ ~x.esta_en_entrada_salida
    BY <1>3, EnNingunLado
  <2>2. r + Uno(c.e = e) = Uno(x.tarea # SinTarea)
    BY <1>1, <1>3 DEF Puesto
  <2>3. Uno(c.e # e /\ x.esta_en_entrada_salida) = 0 /\ Uno(EnMano(k, e)) = 0
    BY <2>1 DEF Uno
  <2>4. Uno(~Lleno(x) \/ x.tarea # SinTarea) = Uno(x.tarea # SinTarea)
    BY <1>3 DEF Uno
  <2> DEFINE a == Uno(c.e = e)
  <2>5. a \in Nat
    BY DEF Uno
  <2> HIDE DEF a
  <2>6. d + r + a + 0 + 0 = r + a
    BY <2>1, <2>5
  <2>7. QED
    BY <2>2, <2>3, <2>4, <2>6 DEF Sitios, a
<1>4. QED
  BY <1>2, <1>3

LEMMA EnUnLugar ==
  ASSUME IInv
  PROVE  NadieVarado
<1> SUFFICES ASSUME cayo = "no", incidentes \cap Perdidos = {}, NEW e \in Ids
             PROVE  Lugares(e) = Uno(PuedeCapturar(Entrenador(e)) \/ Entrenador(e).tarea # SinTarea)
  BY DEF NadieVarado, Vivo
<1> DEFINE n == NE
           t == TEAM
           x == Entrenador(e)
           d == Cantidad(t.desocupados, e)
           r == Cantidad(t.ready, e)
<1>1. e \in 1..n /\ n \in Nat /\ t \in Equipos(n) /\ x \in Fichas(n)
  BY LosIds
<1>2. Puesto(x, d, r, cpu, caught, incidentes, e)
  BY <1>1 DEF IInv, Bien, Todo, Orden, Puestos, Entrenador
<1>3. d \in Nat /\ r \in Nat
  BY <1>1, Campos, CantidadTipo
<1>4. x.esta_en_entrada_salida \in BOOLEAN
  BY <1>1 DEF Fichas
<1>5. Lugares(e) = Sitios(x, d, r, cpu, caught, e)
  BY DEF Lugares, Sitios, EnMano
<1> HIDE DEF x, d, r
<1>6. Sitios(x, d, r, cpu, caught, e) = Uno(~Lleno(x) \/ x.tarea # SinTarea)
  BY <1>2, <1>3, <1>4, Donde
<1>7. QED
  BY <1>5, <1>6 DEF Lleno, x

LEMMA Contados ==
  ASSUME IInv, cayo = "no", NEW s \in Especies
  PROVE  /\ Asignados(s) = EnTareas(TEAM, NE, s)
         /\ Cardinality({i \in DOMAIN TEAM.mapa : TEAM.mapa[i].especie = s}) = EnMapa(TEAM, s)
         /\ EnMapa(TEAM, s) + EnTareas(TEAM, NE, s) + EspecieCapturada(TEAM, s) = aceptados[s]
         /\ Cantidad(TEAM.objetivos, s) + EnTareas(TEAM, NE, s)
              + Uno(caught.que = "reponer" /\ caught.especie = s)
                >= EspecieBuscada(TEAM, s) - EspecieCapturada(TEAM, s)
<1>1. Ids = 1..NE /\ NE \in Nat /\ TEAM \in Equipos(NE)
  BY LosIds
<1>2. Asignados(s) = EnTareas(TEAM, NE, s)
  <2>1. {e \in Ids : /\ Entrenador(e).tarea.tipo_tarea = "ATRAPAR"
                     /\ Entrenador(e).tarea.pokemon.especie = s} = {e \in 1..NE : VaPor(TEAM, e, s)}
    BY <1>1 DEF VaPor, Entrenador
  <2>2. QED
    BY <2>1 DEF Asignados, EnTareas
<1>3. Cardinality({i \in DOMAIN TEAM.mapa : TEAM.mapa[i].especie = s}) = EnMapa(TEAM, s)
  <2> DEFINE m == TEAM.mapa
  <2>1. m \in Seq(Pokemones)
    BY <1>1, Campos
  <2>2. EnMapa(TEAM, s) = Cuantos(m, DeEspecie(s))
    BY DEF EnMapa
  <2> HIDE DEF m
  <2>3. {i \in DOMAIN m : m[i].especie = s} = {i \in 1..Len(m) : m[i] \in DeEspecie(s)}
    BY <2>1 DEF DeEspecie
  <2>4. QED
    BY <2>2, <2>3 DEF m, Cuantos
<1>4. QED
  BY <1>2, <1>3 DEF IInv, Bien, Todo, Cuentas

LEMMA DeADos ==
  ASSUME IInv
  PROVE  ParejaEntera
<1> SUFFICES ASSUME cayo = "no", "pisado" \notin incidentes
             PROVE  ParejaEntera
  BY DEF ParejaEntera
<1> DEFINE n == NE
           t == TEAM
           x(e) == t.entrenadores[e]
           V == {e \in 1..n : Va(x(e))}
<1>1. n \in Nat /\ t \in Equipos(n) /\ Ids = 1..n
  BY LosIds
<1>2. Pares(t, n, incidentes)
  BY DEF IInv, Bien, Todo, Orden
<1>3. ASSUME NEW e \in V
      PROVE  /\ Otro(x(e)) # e /\ x(Otro(x(e))).estado = "BLOCK"
             /\ Contains(Sobrantes(x(Otro(x(e)))), x(e).tarea.pokemon_a_pedir)
             /\ Contains(Sobrantes(x(e)), x(e).tarea.pokemon_a_otorgar)
  <2> DEFINE f == Otro(x(e))
  <2>1. f \in 1..n
    BY <1>1, UnOtro
  <2>2. f # e /\ Par(x(e), x(f))
    BY <1>2 DEF Pares
  <2>3. x(f).estado = "BLOCK"
    BY <1>2, <2>1, <2>2 DEF Pares, Par
  <2>4. QED
    BY <2>2, <2>3 DEF Par
<1>4. ASSUME NEW f \in 1..n, x(f).esperando_intercambio
      PROVE  Cardinality({e \in V : Otro(x(e)) = f}) = 1
  <2>1. PICK e \in 1..n : Va(x(e)) /\ Otro(x(e)) = f
    BY <1>2, <1>4 DEF Pares
  <2>2. \A g \in V : Otro(x(g)) = f => g = e
    BY <1>2, <2>1 DEF Pares
  <2>3. {g \in V : Otro(x(g)) = f} = {e}
    BY <2>1, <2>2
  <2>4. QED
    BY <2>3, FS_Singleton
<1>5. V = {e \in Ids : Entrenador(e).tarea.tipo_tarea = "INTERCAMBIO"}
  BY <1>1 DEF Va, Entrenador
<1> HIDE DEF V
<1>6. QED
  BY <1>1, <1>3, <1>4, <1>5 DEF ParejaEntera, Otro, Entrenador

\* A step of the cpu leaves the pockets, the wishes and the tasks as they were.
MismosBienes(t, u, n) ==
  \A e \in 1..n : Quieta(t.entrenadores[e], u.entrenadores[e])
LEMMA CicloBienes ==
  ASSUME NEW n \in Nat, NEW t \in Equipos(n), NEW e \in 1..n, ConTarea(t, n, e), NEW u, u = CicloCpu(t, e),
         RafagasNecesarias(u, e) = 0
  PROVE  u \in Equipos(n) /\ MismosBienes(t, u, n)
<1>1. LET r == RafagasNecesarias(CicloCpu(t, e), e) IN r > 0 \/ r = 0
  OBVIOUS
<1>2. PICK y \in Fichas(n) : u = Pon(t, e, y) /\ Anduvo(t.entrenadores[e], y)
  BY <1>1, CicloHace
<1>3. Ponen(t, u, n, e, y)
  BY <1>2, PonHace
<1>4. QED
  BY <1>2, <1>3 DEF Ponen, MismosBienes, Anduvo, Quieta

LEMMA DescansaBienes ==
  ASSUME NEW n \in Nat, NEW t \in Equipos(n), cpu.e \in 1..n, cpu.i \in Int
  PROVE  MismosBienes(t, Descansa(t), n)
<1>1. CASE t.planificador \in {"SJF_CD", "SJF_SD"}
  <2> DEFINE e == cpu.e
             u == Descansa(t)
  <2>1. u = ActualizarEstimados(t, e, cpu.i)
    BY <1>1 DEF Descansa
  <2> HIDE DEF e, u
  <2>2. PICK y \in Fichas(n) : u = Pon(t, e, y) /\ Quieta(t.entrenadores[e], y)
    BY <2>1, EstimarHace DEF e
  <2>3. Ponen(t, u, n, e, y)
    BY <2>2, PonHace DEF e
  <2>4. QED
    BY <2>2, <2>3 DEF Ponen, MismosBienes, Quieta, u
<1>2. CASE t.planificador \notin {"SJF_CD", "SJF_SD"}
  BY <1>2 DEF Descansa, MismosBienes, Quieta
<1>3. QED
  BY <1>1, <1>2

LEMMA MismosFaltantes ==
  ASSUME NEW x, NEW y, Quieta(x, y)
  PROVE  Faltantes(y) = Faltantes(x)
BY DEF Quieta, Faltantes

Faltan(t, x) == Len(Faltantes(t.entrenadores[x]))
LEMMA Sirve ==
  ASSUME IInv, IntercambiarPokemones, NEW e, cpu.e = e, NEW f, f = Otro(TEAM.entrenadores[e])
  PROVE  Faltan(TEAM', e) < Faltan(TEAM, e) /\ Faltan(TEAM', f) <= Faltan(TEAM, f)
<1> DEFINE n == NE
           t == TEAM
           c == CicloCpu(t, e)
           u == Intercambiar(c, e)
           v == Descansa(u)
<1>1. /\ cayo = "no" /\ cpu.lugar = "rafaga" /\ RafagasNecesarias(c, e) = 0
      /\ Va(c.entrenadores[e]) /\ TEAM' = v
  BY DEF IntercambiarPokemones, Vivo, Va
<1>2. /\ e \in 1..n /\ cpu.i \in Int /\ n \in Nat /\ t \in Equipos(n)
      /\ Todo(c, n, cpu, caught, incidentes, resolutores, aceptados)
  BY <1>1, EnCiclo, Ahora
<1>3. ConTarea(t, n, e)
  <2>1. Puestos(t, n, cpu, caught, incidentes) /\ Pares(t, n, incidentes)
    BY <1>1, Ahora DEF Todo, Orden
  <2>2. t.entrenadores[e].tarea # SinTarea
    BY <1>2, <2>1 DEF Puestos, Puesto
  <2>3. QED
    BY <1>2, <2>1, <2>2 DEF ConTarea, Pares
<1> HIDE DEF n, t
<1>4. c \in Equipos(n) /\ MismosBienes(t, c, n)
  BY <1>1, <1>2, <1>3, CicloBienes
<1>5. f = Otro(c.entrenadores[e])
  BY <1>2, <1>4 DEF MismosBienes, Quieta, Otro, t
<1>6. Pares(c, n, incidentes)
  BY <1>2 DEF Todo, Orden
<1> HIDE DEF c
<1>7. f \in 1..n /\ Conviene(c, n, e, f)
  BY <1>1, <1>2, <1>4, <1>5, <1>6, SeCitaron
<1>8. Cambiado(c, u, n, e, f)
  BY <1>2, <1>4, <1>7, IntercambiarHace
<1> HIDE DEF u
<1>9. u \in Equipos(n) /\ Faltan(u, e) < Faltan(c, e) /\ Faltan(u, f) <= Faltan(c, f)
  BY <1>8 DEF Cambiado, Cambio, Faltan
<1>10. MismosBienes(u, v, n)
  BY <1>2, <1>9, DescansaBienes
<1> HIDE DEF v
<1>11. Faltan(v, e) = Faltan(u, e) /\ Faltan(v, f) = Faltan(u, f)
  BY <1>2, <1>7, <1>10, MismosFaltantes DEF MismosBienes, Faltan
<1>12. Faltan(c, e) = Faltan(t, e) /\ Faltan(c, f) = Faltan(t, f)
  BY <1>2, <1>4, <1>7, MismosFaltantes DEF MismosBienes, Faltan
<1>13. QED
  BY <1>1, <1>9, <1>11, <1>12 DEF t

------------------------------------------------------------------------------
(* The theorems. *)

\* The inductive invariant: every trainer in one place, every pokemon counted once, every
\* exchange with its two trainers, and every answer to come with someone who waits for it.
THEOREM Invariante == Spec => []IInv
<1>1. IInv /\ [Next]_vars => IInv'
  BY SigueSiempre
<1>2. Init => IInv
  BY EmpiezaBien
<1>3. QED
  BY <1>1, <1>2, PTL DEF Spec

\* The main thread has a trainer exactly while it waits for it, and every list holds
\* trainers (planificador.c, conexiones.c).
THEOREM TiposCorrectos == Spec => []TypeOK
<1>1. IInv => TypeOK
  BY Tipos
<1>2. QED
  BY <1>1, Invariante, PTL

\* No interleaving of the planner, the consumers and the trainers leaves behind a trainer
\* that nobody looks for: desocupados, ready, the cpu and the wait for a CAUGHT share the
\* trainers out (planificador.c:232-402, conexiones.c:201-306).
THEOREM NadieQuedaVarado == Spec => []NadieVarado
<1>1. IInv => NadieVarado
  BY EnUnLugar
<1>2. QED
  BY <1>1, Invariante, PTL

\* What the team still lacks of a species is never forgotten, failed catches included.
THEOREM ObjetivosSeConservan == Spec => []ObjetivosNoPerdidos
<1>1. IInv => ObjetivosNoPerdidos
  BY Contados DEF ObjetivosNoPerdidos, CapturadosDe
<1>2. QED
  BY <1>1, Invariante, PTL

\* Of each species no pokemon is lost or multiplied between the map, the tasks and the
\* pockets, the exchanges of a deadlock included.  It counts: which pokemon of the species
\* is where it does not say (planificador.c:46-48).
THEOREM EspeciesSeConservan == Spec => []EspeciesConservadas
<1>1. IInv => EspeciesConservadas
  BY Contados DEF EspeciesConservadas
<1>2. QED
  BY <1>1, Invariante, PTL

\* An exchange has two trainers, who still have what they promised, until it happens
\* (deadlock.c).
THEOREM ParejasEnteras == Spec => []ParejaEntera
<1>1. IInv => ParejaEntera
  BY DeADos
<1>2. QED
  BY <1>1, Invariante, PTL

\* procesar_caught gets a NULL trainer only by one of the races that have a name.
THEOREM CaidasExplicadas == Spec => []CaeSoloPorCarrera
<1>1. IInv => CaeSoloPorCarrera
  BY DEF IInv, TiposHistoria, CaeSoloPorCarrera
<1>2. QED
  BY <1>1, Invariante, PTL

\* An exchange brings the trainer that asked one pokemon nearer to its objective and takes
\* the other one no further (deadlock.c, realizar_intercambio).
THEOREM IntercambiosSirven == Spec => IntercambioSirve
<1>1. IInv /\ [Next]_vars =>
        [\A e \in Ids :
           LET f == Entrenador(e).tarea.entrenador_intercambio
               Falta(t, x) == Len(Faltantes(t.entrenadores[x]))
           IN  (IntercambiarPokemones /\ cpu.e = e) =>
                 Falta(TEAM', e) < Falta(TEAM, e) /\ Falta(TEAM', f) <= Falta(TEAM, f)]_vars
  BY Sirve DEF Faltan, Otro, Entrenador
<1>2. QED
  BY <1>1, Invariante, PTL DEF Spec, IntercambioSirve
==============================================================================
