--------------------------------- MODULE Team ---------------------------------
(****************************************************************************)
(* A Team process: the main thread that plans (planificar_team), a thread   *)
(* for each trainer (handler_entrenador), the consumers of the three queues *)
(* (procesar_appeared, _localized, _caught), the subscriptions to the       *)
(* Broker (handler_broker) and the GameBoy's messages (handler_appeared).   *)
(*                                                                          *)
(* While a trainer runs the main thread waits for it, so the two share cpu. *)
(* A critical section of mutex_planificar_entrenador is one action.         *)
(* resolver_deadlock takes no mutex: it is one action because an exchange   *)
(* lasts five cycles of RETARDO_CICLO_CPU seconds and the search            *)
(* microseconds, but others may run between its call and its start.         *)
(*                                                                          *)
(* The rest of the system (Broker, GameCard, the other Teams) is what it    *)
(* answers: libres are the pokemons nobody has announced yet, pendientes    *)
(* the CATCH without answer.  incidentes is the history of the mishaps that *)
(* the code has no remedy for.  Mal... as in Entrenadores.                  *)
(****************************************************************************)
EXTENDS Entrenadores

CONSTANTS Especies, ESTIMACION_INICIAL,
          Casos   \* initial configurations: planificador, entrenadores, libres, and
                  \* bounds: failed CATCH, crashes of the Broker, CAUGHT repeated or
                  \* of another Team

\* Every trainer of a configuration has room for a pokemon: the code lists it as idle
\* without asking.
ASSUME TeamAssumption ==
  /\ ESTIMACION_INICIAL \in Int
  /\ \A c \in Casos :
       /\ c.planificador \in {"FIFO", "RR", "SJF_CD", "SJF_SD"}
       /\ c.entrenadores \in Seq([posicion : Int \X Int, buscados : Seq(Especies),
                                  capturados : Seq(Especies)])
       /\ \A e \in DOMAIN c.entrenadores : PuedeCapturar(c.entrenadores[e])
       /\ c.libres \subseteq [n : Int, especie : Especies, posicion : Int \X Int]
       /\ IsFiniteSet(c.libres)

Nada == [que |-> "nada"]
Colas == {"APPEARED", "LOCALIZED", "CAUGHT"}

VARIABLES
  TEAM,            \* the t_team
  cpu,             \* the main thread and the trainer it waits for
  resolutores,     \* trainers' threads about to call resolver_deadlock
  porPedir, idsGet,      \* species without and with a GET of this Team
  idsCatch, proximoId,
  especiesRecibidas,
  colas,           \* cola_appeared, cola_localized, cola_caught
  appeared, caught,      \* what a consumer holds between two critical sections
  suscripto, conectado,  \* the socket of each queue; conectado_al_broker
  broker, libres, consultas, pendientes, atrapados, respondidos,  \* the rest of the system
  quedan,          \* bounds left: fallos, caidas, duplicados
  aceptados,       \* history: pokemons of each species had at the start or put in the map
  embolsados, mezcladas, \* history: pokemons caught; species of which the map had two at once
  incidentes, cayo

mensajes == <<porPedir, idsGet, idsCatch, proximoId, especiesRecibidas, colas, appeared, caught>>
sistema  == <<suscripto, conectado, broker, libres, consultas, pendientes, atrapados, respondidos,
              quedan>>
historia == <<aceptados, embolsados, mezcladas, incidentes, cayo>>
vars == <<TEAM, cpu, resolutores, mensajes, sistema, historia>>

Ids == DOMAIN TEAM.entrenadores
Entrenador(e) == TEAM.entrenadores[e]

Vivo == cayo = "no" /\ cpu.lugar # "fin"

EntrenadorNuevo(x) ==
  [posicion |-> x.posicion, capturados |-> x.capturados, buscados |-> x.buscados,
   estado |-> "NEW", tarea |-> SinTarea, esta_en_entrada_salida |-> FALSE,
   id_correlativo_esperado |-> -1, rafagas_intercambio |-> 0,
   esperando_intercambio |-> FALSE, estimado |-> ESTIMACION_INICIAL]

SinRepetidos(s) == FoldLeft(LAMBDA q, x : IF Contains(q, x) THEN q ELSE Append(q, x), <<>>, s)

Init ==
  \E c \in Casos :
    LET nuevos == [e \in DOMAIN c.entrenadores |-> EntrenadorNuevo(c.entrenadores[e])] IN
    /\ TEAM = [entrenadores |-> nuevos, planificador |-> c.planificador, ready |-> <<>>,
               semaforo_ready |-> 0, desocupados |-> [e \in DOMAIN nuevos |-> e],
               objetivos |-> ObjetivosRestantes(nuevos), mapa |-> <<>>, hubo_deadlocks |-> FALSE]
    /\ cpu = [lugar |-> "gets", etapa |-> 1, e |-> 0, i |-> 0, n |-> 0, largo |-> 0, id |-> -1]
    /\ porPedir = SinRepetidos(ObjetivosRestantes(nuevos))
    /\ libres = c.libres
    /\ quedan = [fallos |-> c.fallos, caidas |-> c.caidas, duplicados |-> c.duplicados]
    /\ resolutores = 0 /\ idsGet = {} /\ idsCatch = {} /\ proximoId = 1
    /\ especiesRecibidas = {} /\ colas = [q \in Colas |-> <<>>]
    /\ appeared = Nada /\ caught = Nada
    /\ suscripto = [q \in Colas |-> "no"] /\ conectado = FALSE /\ broker = TRUE
    /\ consultas = {} /\ pendientes = {} /\ atrapados = {} /\ respondidos = {}
    /\ aceptados = [s \in Especies |-> EspecieCapturada(TEAM, s)]
    /\ embolsados = {} /\ mezcladas = {} /\ incidentes = {} /\ cayo = "no"

(* ------------------------------- main thread ------------------------------- *)

\* enviar_gets, one species at a time; without the Broker that GET is not sent.
EnviarGet ==
  /\ Vivo /\ cpu.lugar = "gets" /\ porPedir # <<>>
  /\ porPedir' = Tail(porPedir)
  /\ idsGet' = IF broker THEN idsGet \cup {Head(porPedir)} ELSE idsGet
  /\ consultas' = IF broker THEN consultas \cup {Head(porPedir)} ELSE consultas
  /\ cpu' = [cpu EXCEPT !.lugar = IF Len(porPedir) = 1 THEN "evaluar" ELSE "gets"]
  /\ UNCHANGED <<TEAM, resolutores, idsCatch, proximoId, especiesRecibidas, colas, appeared,
                 caught, suscripto, conectado, broker, libres, pendientes, atrapados,
                 respondidos, quedan, historia>>

\* The conditions of the two loops, with the detection between them.
Evaluar ==
  /\ Vivo /\ cpu.lugar = "evaluar"
  /\ \/ /\ cpu.etapa = 1 /\ AlgunosPuedenAtrapar(TEAM)
        /\ cpu' = [cpu EXCEPT !.lugar = "esperar"]
        /\ UNCHANGED TEAM
     \/ /\ cpu.etapa = 1 /\ ~AlgunosPuedenAtrapar(TEAM)
        /\ cpu' = [cpu EXCEPT !.etapa = 2]
        /\ TEAM' = IF DetectarDeadlock(TEAM)
                   THEN ResolverDeadlock([TEAM EXCEPT !.hubo_deadlocks = TRUE]) ELSE TEAM
     \/ /\ cpu.etapa = 2
        /\ cpu' = [cpu EXCEPT !.lugar = IF TeamCumplio(TEAM) THEN "fin" ELSE "esperar"]
        /\ UNCHANGED TEAM
  /\ UNCHANGED <<resolutores, mensajes, sistema, historia>>

\* sem_wait, the first of the ready list, and sem_post_algoritmo up to its first
\* sem_post: a trainer that is already where it goes needs no cycle and gets none.
Tomar ==
  /\ Vivo /\ cpu.lugar = "esperar" /\ TEAM.semaforo_ready > 0
  /\ LET t == [TEAM EXCEPT !.semaforo_ready = @ - 1]
         e == Head(t.ready)
         n == RafagasNecesarias(t, e)
         u == [t EXCEPT !.ready = Tail(@)]
         x == [u EXCEPT !.entrenadores[e].estado =
                  IF t.planificador = "SJF_SD" THEN @ ELSE "EXEC"]
     IN IF t.ready = <<>>
        THEN /\ TEAM' = t
             /\ cpu' = [cpu EXCEPT !.lugar = "evaluar"]
             /\ UNCHANGED incidentes
        ELSE IF n = 0
        THEN /\ TEAM' = IF t.planificador \in {"SJF_CD", "SJF_SD"}
                        THEN ActualizarEstimados(x, e, 0) ELSE x
             /\ cpu' = [cpu EXCEPT !.lugar = "evaluar"]
             /\ incidentes' = incidentes \cup {"sin rafagas"}
        ELSE /\ TEAM' = x
             /\ cpu' = [cpu EXCEPT !.lugar = "rafaga", !.e = e, !.i = 1, !.n = n,
                                   !.largo = Len(u.ready)]
             /\ UNCHANGED incidentes
  /\ UNCHANGED <<resolutores, mensajes, sistema, aceptados, embolsados, mezcladas, cayo>>

(* -------------------- a cycle of the trainer that runs --------------------- *)

\* After its last cycle: the estimate, and back to the loop of the main thread.
Descansa(t) == IF t.planificador \in {"SJF_CD", "SJF_SD"}
               THEN ActualizarEstimados(t, cpu.e, cpu.i) ELSE t
MalAEvaluar == [cpu EXCEPT !.lugar = "evaluar"]
AEvaluar == [cpu EXCEPT !.lugar = "evaluar", !.e = 0, !.i = 0, !.n = 0, !.largo = 0, !.id = -1]

\* The end of the quantum (RR), or the ready list has changed (SJF_CD, which compares the
\* length read before the cycle).
Desalojado(t, e) ==
  \/ t.planificador = "RR" /\ cpu.n > QUANTUM /\ cpu.i = QUANTUM
  \/ t.planificador = "SJF_CD" /\ Len(t.ready) # cpu.largo

MalCiclo ==
  /\ Vivo /\ cpu.lugar = "rafaga"
  /\ LET e == cpu.e
         t == CicloCpu(TEAM, e)
     IN /\ RafagasNecesarias(t, e) > 0
        /\ TEAM' = t
        /\ cpu' = IF Desalojado(t, e) THEN AEvaluar ELSE [cpu EXCEPT !.i = @ + 1]
  /\ UNCHANGED <<resolutores, mensajes, sistema, historia>>
Ciclo ==
  /\ Vivo /\ cpu.lugar = "rafaga"
  /\ LET e == cpu.e
         t == CicloCpu(TEAM, e)
     IN /\ RafagasNecesarias(t, e) > 0
        /\ IF Desalojado(t, e)
           THEN /\ TEAM' = AgregarAReady(Descansa(t), e)
                /\ cpu' = AEvaluar
           ELSE /\ TEAM' = t
                /\ cpu' = [cpu EXCEPT !.i = @ + 1]
  /\ UNCHANGED <<resolutores, mensajes, sistema, historia>>

Atrapado(t, e) ==
  LET x == t.entrenadores[e]
  IN  [t EXCEPT !.entrenadores[e] =
         [x EXCEPT !.capturados = Append(@, x.tarea.pokemon.especie), !.tarea = SinTarea,
                   !.esta_en_entrada_salida = FALSE, !.id_correlativo_esperado = -1]]

\* Back to the planner, or EXIT or BLOCK when its hands are full.
Desocupar(t, e) == Planificar([t EXCEPT !.desocupados = Append(@, e)])
ExitOBlock(t, e) ==
  [t EXCEPT !.entrenadores[e].estado = IF Cumplio(t.entrenadores[e]) THEN "EXIT" ELSE "BLOCK"]

\* The pokemon is reached and the Broker is believed down: caught by default.
AtraparPorDefault ==
  /\ Vivo /\ cpu.lugar = "rafaga" /\ ~conectado
  /\ LET e == cpu.e
         t == CicloCpu(TEAM, e)
         u == Atrapado(t, e)
     IN /\ RafagasNecesarias(t, e) = 0
        /\ t.entrenadores[e].tarea.tipo_tarea = "ATRAPAR"
        /\ TEAM' = Descansa(IF PuedeCapturar(u.entrenadores[e])
                            THEN Desocupar([u EXCEPT !.entrenadores[e].estado = "BLOCK"], e)
                            ELSE ExitOBlock(u, e))
        /\ embolsados' = embolsados \cup {t.entrenadores[e].tarea.pokemon}
  /\ cpu' = AEvaluar
  /\ UNCHANGED <<resolutores, mensajes, sistema, aceptados, mezcladas, incidentes, cayo>>

\* The pokemon is reached: the trainer blocks and is about to send the CATCH.
Bloquear ==
  /\ Vivo /\ cpu.lugar = "rafaga" /\ conectado
  /\ LET e == cpu.e
         t == CicloCpu(TEAM, e)
     IN /\ RafagasNecesarias(t, e) = 0
        /\ t.entrenadores[e].tarea.tipo_tarea = "ATRAPAR"
        /\ TEAM' = [t EXCEPT !.entrenadores[e] =
                       [@ EXCEPT !.estado = "BLOCK", !.esta_en_entrada_salida = TRUE]]
  /\ cpu' = [cpu EXCEPT !.lugar = "enviar"]
  /\ UNCHANGED <<resolutores, mensajes, sistema, historia>>

\* enviar_catch under mutex_idsCatch.  Without an answer of the Broker the id is one that
\* no CAUGHT will have.
EnviarCatch ==
  /\ Vivo /\ cpu.lugar = "enviar"
  /\ cpu' = [cpu EXCEPT !.lugar = "anotar", !.id = IF broker THEN proximoId ELSE -1]
  /\ IF broker
     THEN /\ proximoId' = proximoId + 1
          /\ idsCatch' = idsCatch \cup {proximoId}
          /\ pendientes' = pendientes \cup
               {[id |-> proximoId, pokemon |-> Entrenador(cpu.e).tarea.pokemon]}
          /\ UNCHANGED incidentes
     ELSE /\ idsCatch' = idsCatch \cup {-1}
          /\ incidentes' = incidentes \cup {"sin id"}
          /\ UNCHANGED <<proximoId, pendientes>>
  /\ UNCHANGED <<TEAM, resolutores, porPedir, idsGet, especiesRecibidas, colas, appeared, caught,
                 suscripto, conectado, broker, libres, consultas, atrapados, respondidos,
                 quedan, aceptados, embolsados, mezcladas, cayo>>

\* id_correlativo_esperado is written once the mutex is free.
MalAnotarId ==
  /\ Vivo /\ cpu.lugar = "anotar"
  /\ TEAM' = Descansa(TEAM)
  /\ cpu' = AEvaluar
  /\ UNCHANGED <<resolutores, mensajes, sistema, historia>>
AnotarId ==
  /\ Vivo /\ cpu.lugar = "anotar"
  /\ TEAM' = Descansa([TEAM EXCEPT !.entrenadores[cpu.e].id_correlativo_esperado = cpu.id])
  /\ cpu' = AEvaluar
  /\ UNCHANGED <<resolutores, mensajes, sistema, historia>>

\* The last cycle of an exchange; the trainer's thread looks for more of them once the
\* main thread has been told, if either of the two still needs something.
IntercambiarPokemones ==
  /\ Vivo /\ cpu.lugar = "rafaga"
  /\ LET e == cpu.e
         t == CicloCpu(TEAM, e)
         f == t.entrenadores[e].tarea.entrenador_intercambio
         u == Intercambiar(t, e)
     IN /\ t.entrenadores[e].tarea.tipo_tarea = "INTERCAMBIO"
        /\ RafagasNecesarias(t, e) = 0
        /\ TEAM' = Descansa(u)
        /\ resolutores' = IF Cumplio(u.entrenadores[e]) /\ Cumplio(u.entrenadores[f])
                          THEN resolutores ELSE resolutores + 1
  /\ cpu' = AEvaluar
  /\ UNCHANGED <<mensajes, sistema, historia>>

MalResolverEnHilo ==
  /\ Vivo /\ resolutores > 0
  /\ resolutores' = resolutores - 1
  /\ UNCHANGED <<TEAM, cpu, mensajes, sistema, historia>>
ResolverEnHilo ==
  /\ Vivo /\ resolutores > 0
  /\ resolutores' = resolutores - 1
  /\ TEAM' = ResolverDeadlock(TEAM)
  /\ UNCHANGED <<cpu, mensajes, sistema, historia>>


(* ------------------------- consumers of the queues ------------------------- *)

\* verificar_nuevo_appeared, without any mutex of the Team.
VerificarAppeared ==
  /\ Vivo /\ appeared = Nada /\ colas["APPEARED"] # <<>>
  /\ LET p == Head(colas["APPEARED"])
     IN IF TeamPuedeCapturar(TEAM, p.especie)
        THEN /\ appeared' = [que |-> "agregar", pokemon |-> p]
             /\ especiesRecibidas' = especiesRecibidas \cup {p.especie}
        ELSE UNCHANGED <<appeared, especiesRecibidas>>
  /\ colas' = [colas EXCEPT !["APPEARED"] = Tail(@)]
  /\ UNCHANGED <<TEAM, cpu, resolutores, porPedir, idsGet, idsCatch, proximoId, caught,
                 sistema, historia>>

\* The species of which a map has more than one.
Mezcladas(mapa) ==
  {s \in Especies : \E i, j \in DOMAIN mapa :
     i # j /\ mapa[i].especie = s /\ mapa[j].especie = s}

AgregarAppeared ==
  /\ Vivo /\ appeared # Nada
  /\ LET mapa == Append(TEAM.mapa, appeared.pokemon)
     IN /\ TEAM' = Planificar([TEAM EXCEPT !.mapa = mapa])
        /\ mezcladas' = mezcladas \cup Mezcladas(mapa)
  /\ aceptados' = [aceptados EXCEPT ![appeared.pokemon.especie] = @ + 1]
  /\ appeared' = Nada
  /\ UNCHANGED <<cpu, resolutores, porPedir, idsGet, idsCatch, proximoId, especiesRecibidas,
                 colas, caught, sistema, embolsados, incidentes, cayo>>

\* Only the first notice of a species counts: what a later one says is dropped.
ProcesarLocalized ==
  /\ Vivo /\ colas["LOCALIZED"] # <<>>
  /\ colas' = [colas EXCEPT !["LOCALIZED"] = Tail(@)]
  /\ LET m == Head(colas["LOCALIZED"])
     IN IF m.especie \in idsGet /\ m.especie \notin especiesRecibidas
        THEN /\ especiesRecibidas' = especiesRecibidas \cup {m.especie}
             /\ TEAM' = Planificar([TEAM EXCEPT !.mapa = @ \o m.posiciones])
             /\ mezcladas' = mezcladas \cup Mezcladas(TEAM.mapa \o m.posiciones)
             /\ aceptados' = [aceptados EXCEPT ![m.especie] = @ + Len(m.posiciones)]
             /\ UNCHANGED incidentes
        ELSE /\ incidentes' = incidentes \cup {"descartado"}
             /\ UNCHANGED <<TEAM, especiesRecibidas, aceptados, mezcladas>>
  /\ UNCHANGED <<cpu, resolutores, porPedir, idsGet, idsCatch, proximoId, appeared, caught,
                 sistema, embolsados, cayo>>

\* The trainer in E/S with that id; none is a NULL that the code uses.
Esperan(id) == {e \in Ids : /\ Entrenador(e).esta_en_entrada_salida
                           /\ Entrenador(e).id_correlativo_esperado = id}

\* A pokemon that is still in the map, in a pocket, or another trainer's task: the failed
\* end of procesar_caught frees it.  Exchanges, which take pokemons out of pockets, come
\* when nobody has one to catch any more.
EnUso(p, e) == \/ Contains(TEAM.mapa, p)
               \/ p \in embolsados
               \/ \E f \in Ids \ {e} : Entrenador(f).tarea = Atrapar(p)

\* The part of procesar_caught before mutex_planificar_entrenador is taken.
RecibirCaught ==
  /\ Vivo /\ caught = Nada /\ colas["CAUGHT"] # <<>>
  /\ colas' = [colas EXCEPT !["CAUGHT"] = Tail(@)]
  /\ LET m == Head(colas["CAUGHT"])
         e == Min(Esperan(m.id))
         p == Entrenador(e).tarea.pokemon
     IN \/ m.id \notin idsCatch /\ UNCHANGED <<TEAM, caught, aceptados, embolsados, cayo>>
        \/ /\ m.id \in idsCatch /\ Esperan(m.id) = {}
           /\ cayo' = IF cpu.lugar = "anotar" /\ cpu.id = m.id THEN "ventana"
                      ELSE IF m.copia THEN "repetido" ELSE "otra"
           /\ UNCHANGED <<TEAM, caught, aceptados, embolsados>>
        \/ /\ m.id \in idsCatch /\ Esperan(m.id) # {} /\ m.ok
           /\ TEAM' = Atrapado(TEAM, e)
           /\ caught' = [que |-> IF PuedeCapturar(Atrapado(TEAM, e).entrenadores[e])
                                 THEN "desocupar" ELSE "cerrar", e |-> e]
           /\ embolsados' = embolsados \cup {p}
           /\ UNCHANGED <<aceptados, cayo>>
        \/ /\ m.id \in idsCatch /\ Esperan(m.id) # {} /\ ~m.ok
           /\ TEAM' = [TEAM EXCEPT !.entrenadores[e] =
                         [@ EXCEPT !.tarea = SinTarea, !.esta_en_entrada_salida = FALSE,
                                   !.id_correlativo_esperado = -1]]
           /\ caught' = [que |-> "reponer", e |-> e, especie |-> p.especie]
           /\ aceptados' = [aceptados EXCEPT ![p.especie] = @ - 1]
           /\ cayo' = IF EnUso(p, e) THEN "liberado" ELSE cayo
           /\ UNCHANGED embolsados
  /\ UNCHANGED <<cpu, resolutores, porPedir, idsGet, idsCatch, proximoId, especiesRecibidas,
                 appeared, sistema, mezcladas, incidentes>>

DesocuparPorCaught ==
  /\ Vivo /\ caught.que = "desocupar"
  /\ TEAM' = Desocupar(TEAM, caught.e)
  /\ caught' = Nada
  /\ UNCHANGED <<cpu, resolutores, porPedir, idsGet, idsCatch, proximoId, especiesRecibidas,
                 colas, appeared, sistema, historia>>

\* The capture failed: the species is wanted again.
MalReponer ==
  /\ Vivo /\ caught.que = "reponer"
  /\ TEAM' = Desocupar(TEAM, caught.e)
  /\ caught' = Nada
  /\ UNCHANGED <<cpu, resolutores, porPedir, idsGet, idsCatch, proximoId, especiesRecibidas,
                 colas, appeared, sistema, historia>>
Reponer ==
  /\ Vivo /\ caught.que = "reponer"
  /\ TEAM' = Desocupar([TEAM EXCEPT !.objetivos = Append(@, caught.especie)], caught.e)
  /\ caught' = Nada
  /\ UNCHANGED <<cpu, resolutores, porPedir, idsGet, idsCatch, proximoId, especiesRecibidas,
                 colas, appeared, sistema, historia>>

\* Full hands: the last one wakes the main thread.  The task is set to NULL again, even
\* when resolver_deadlock has given it one in between.
Cerrar ==
  /\ Vivo /\ caught.que = "cerrar"
  /\ LET e == caught.e
         t == ExitOBlock(TEAM, e)
     IN /\ TEAM' = [t EXCEPT !.entrenadores[e].tarea = SinTarea,
                             !.entrenadores[e].esta_en_entrada_salida = FALSE,
                             !.semaforo_ready = IF AlgunosPuedenAtrapar(t) THEN @ ELSE @ + 1]
        /\ incidentes' = IF Entrenador(e).tarea # SinTarea THEN incidentes \cup {"pisado"}
                         ELSE incidentes
        /\ cayo' = IF cpu.e = e THEN "pisado" ELSE cayo
  /\ caught' = Nada
  /\ UNCHANGED <<cpu, resolutores, porPedir, idsGet, idsCatch, proximoId, especiesRecibidas,
                 colas, appeared, sistema, aceptados, embolsados, mezcladas>>

(* ------------------------------- connections ------------------------------- *)

\* A thread for each queue; the three write the same conectado_al_broker.
MalConectar(q) ==
  /\ Vivo /\ broker /\ suscripto[q] = "no"
  /\ suscripto' = [suscripto EXCEPT ![q] = "viva"]
  /\ conectado' = (q = "CAUGHT" \/ conectado)
  /\ UNCHANGED <<TEAM, cpu, resolutores, mensajes, broker, libres, consultas, pendientes,
                 atrapados, respondidos, quedan, historia>>
Conectar(q) ==
  /\ Vivo /\ broker /\ suscripto[q] = "no"
  /\ suscripto' = [suscripto EXCEPT ![q] = "viva"]
  /\ conectado' = TRUE
  /\ UNCHANGED <<TEAM, cpu, resolutores, mensajes, broker, libres, consultas, pendientes,
                 atrapados, respondidos, quedan, historia>>

\* recv returns 0 (NO_CONNECTION), and the thread will subscribe again; or -1 (ERROR_RECV,
\* a Broker that died with something unread), which handler_suscripciones takes for an
\* unknown message: it goes on reading the socket that recv_message has closed, for ever.
PerderConexion(q) ==
  /\ Vivo /\ suscripto[q] = "rota"
  /\ \/ /\ suscripto' = [suscripto EXCEPT ![q] = "no"]
        /\ conectado' = FALSE
        /\ UNCHANGED incidentes
     \/ /\ suscripto' = [suscripto EXCEPT ![q] = "sorda"]
        /\ incidentes' = incidentes \cup {"sorda"}
        /\ UNCHANGED conectado
  /\ UNCHANGED <<TEAM, cpu, resolutores, mensajes, broker, libres, consultas, pendientes,
                 atrapados, respondidos, quedan, aceptados, embolsados, mezcladas, cayo>>

(* --------------------------- the rest of the system ------------------------ *)

\* Somebody announces a pokemon, through the Broker or with the GameBoy.
Aparece(p) ==
  /\ Vivo /\ p \in libres
  /\ libres' = libres \ {p}
  /\ colas' = [colas EXCEPT !["APPEARED"] = Append(@, p)]
  /\ UNCHANGED <<TEAM, cpu, resolutores, porPedir, idsGet, idsCatch, proximoId,
                 especiesRecibidas, appeared, caught, suscripto, conectado, broker, consultas,
                 pendientes, atrapados, respondidos, quedan, historia>>

\* The answer to a GET: where the pokemons of that species are.
Localizar(s) ==
  /\ Vivo /\ s \in consultas /\ suscripto["LOCALIZED"] = "viva"
  /\ LET S == {p \in libres : p.especie = s}
     IN /\ S # {}
        /\ libres' = libres \ S
        /\ colas' = [colas EXCEPT !["LOCALIZED"] =
                       Append(@, [especie |-> s, posiciones |-> SetToSeq(S)])]
  /\ consultas' = consultas \ {s}
  /\ UNCHANGED <<TEAM, cpu, resolutores, porPedir, idsGet, idsCatch, proximoId,
                 especiesRecibidas, appeared, caught, suscripto, conectado, broker,
                 pendientes, atrapados, respondidos, quedan, historia>>

\* The answer to a CATCH.  A pokemon is caught once; after a failure another one appears.
Responder(c, ok) ==
  /\ Vivo /\ c \in pendientes /\ suscripto["CAUGHT"] = "viva"
  /\ IF ok THEN /\ c.pokemon \notin atrapados
                /\ atrapados' = atrapados \cup {c.pokemon}
                /\ UNCHANGED <<libres, quedan, incidentes>>
     ELSE IF c.pokemon \in atrapados
     THEN /\ incidentes' = incidentes \cup {"dos veces"}
          /\ UNCHANGED <<libres, atrapados, quedan>>
     ELSE /\ quedan.fallos > 0
          /\ quedan' = [quedan EXCEPT !.fallos = @ - 1]
          /\ libres' = libres \cup {[c.pokemon EXCEPT !.n = @ + 10, !.posicion[2] = @ + 1]}
          /\ UNCHANGED <<atrapados, incidentes>>
  /\ LET m == [id |-> c.id, ok |-> ok, copia |-> FALSE]
     IN /\ colas' = [colas EXCEPT !["CAUGHT"] = Append(@, m)]
        /\ respondidos' = IF quedan.duplicados > 0 THEN respondidos \cup {m} ELSE respondidos
  /\ pendientes' = pendientes \ {c}
  /\ UNCHANGED <<TEAM, cpu, resolutores, porPedir, idsGet, idsCatch, proximoId,
                 especiesRecibidas, appeared, caught, suscripto, conectado, broker, consultas,
                 aceptados, embolsados, mezcladas, cayo>>

\* The Broker sends again a message that it has not seen confirmed.
Repetir(m) ==
  /\ Vivo /\ m \in respondidos /\ quedan.duplicados > 0 /\ suscripto["CAUGHT"] = "viva"
  /\ colas' = [colas EXCEPT !["CAUGHT"] = Append(@, [m EXCEPT !.copia = TRUE])]
  /\ quedan' = [quedan EXCEPT !.duplicados = @ - 1]
  /\ UNCHANGED <<TEAM, cpu, resolutores, porPedir, idsGet, idsCatch, proximoId,
                 especiesRecibidas, appeared, caught, suscripto, conectado, broker, libres,
                 consultas, pendientes, atrapados, respondidos, historia>>

\* The answer to a CATCH of another Team: its id is none of this one's.
Ajeno ==
  /\ Vivo /\ broker /\ quedan.duplicados > 0 /\ suscripto["CAUGHT"] = "viva"
  /\ colas' = [colas EXCEPT !["CAUGHT"] =
                  Append(@, [id |-> proximoId, ok |-> TRUE, copia |-> FALSE])]
  /\ proximoId' = proximoId + 1
  /\ quedan' = [quedan EXCEPT !.duplicados = @ - 1]
  /\ UNCHANGED <<TEAM, cpu, resolutores, porPedir, idsGet, idsCatch, especiesRecibidas,
                 appeared, caught, suscripto, conectado, broker, libres, consultas, pendientes,
                 atrapados, respondidos, historia>>

\* Its memory is lost with it: the questions that it had not answered may be.
CaerBroker ==
  /\ Vivo /\ broker /\ quedan.caidas > 0
  /\ broker' = FALSE
  /\ quedan' = [quedan EXCEPT !.caidas = @ - 1]
  /\ suscripto' = [q \in Colas |-> IF suscripto[q] = "viva" THEN "rota" ELSE suscripto[q]]
  /\ \E C \in SUBSET consultas, P \in SUBSET pendientes :
       /\ consultas' = C /\ pendientes' = P
       /\ incidentes' = IF P = pendientes THEN incidentes ELSE incidentes \cup {"sin respuesta"}
  /\ UNCHANGED <<TEAM, cpu, resolutores, mensajes, conectado, libres, atrapados, respondidos,
                 aceptados, embolsados, mezcladas, cayo>>

VolverBroker ==
  /\ Vivo /\ ~broker
  /\ broker' = TRUE
  /\ UNCHANGED <<TEAM, cpu, resolutores, mensajes, suscripto, conectado, libres, consultas,
                 pendientes, atrapados, respondidos, quedan, historia>>

Programa ==
  \/ EnviarGet \/ Evaluar \/ Tomar \/ Ciclo \/ AtraparPorDefault \/ Bloquear \/ EnviarCatch
  \/ AnotarId \/ IntercambiarPokemones
Entorno ==
  \/ \E p \in libres : Aparece(p)
  \/ \E c \in pendientes, ok \in BOOLEAN : Responder(c, ok)
  \/ VolverBroker
Next ==
  \/ Programa \/ Entorno \/ ResolverEnHilo
  \/ VerificarAppeared \/ AgregarAppeared \/ ProcesarLocalized
  \/ RecibirCaught \/ DesocuparPorCaught \/ Reponer \/ Cerrar
  \/ \E q \in Colas : Conectar(q) \/ PerderConexion(q)
  \/ \E s \in consultas : Localizar(s)
  \/ \E m \in respondidos : Repetir(m)
  \/ Ajeno \/ CaerBroker

Spec == Init /\ [][Next]_vars

ProgramaPuede == Vivo /\ (cpu.lugar = "esperar" => TEAM.semaforo_ready > 0)
ResolverPuede == Vivo /\ resolutores > 0
AppearedPuede == Vivo /\ (appeared # Nada \/ colas["APPEARED"] # <<>>)
LocalizedPuede == Vivo /\ colas["LOCALIZED"] # <<>>
CaughtPuede == Vivo /\ (caught # Nada \/ colas["CAUGHT"] # <<>>)

\* Every thread of the Team keeps running; the others announce what there is and answer
\* what they are asked, and the Broker is started again.  GETs need not be answered.
\* The first five are WF_vars of those actions with ENABLED written out, because TLC
\* evaluates it anew, planning included, at every use of what it reads.
FairSpec ==
  /\ Spec
  /\ []<>~ProgramaPuede \/ []<><<Programa>>_vars
  /\ []<>~ResolverPuede \/ []<><<ResolverEnHilo>>_vars
  /\ []<>~AppearedPuede \/ []<><<VerificarAppeared \/ AgregarAppeared>>_vars
  /\ []<>~LocalizedPuede \/ []<><<ProcesarLocalized>>_vars
  /\ []<>~CaughtPuede
       \/ []<><<RecibirCaught \/ DesocuparPorCaught \/ Reponer \/ Cerrar>>_vars
  /\ \A q \in Colas : WF_vars(Conectar(q)) /\ WF_vars(PerderConexion(q))
  /\ WF_vars(\E p \in libres : Aparece(p))
  /\ WF_vars(\E c \in pendientes, ok \in BOOLEAN : Responder(c, ok))
  /\ WF_vars(VolverBroker)

(* ------------------------------- properties -------------------------------- *)

\* Every variable has its type.
TypeOK ==
  /\ \A e \in Ids :
       /\ Entrenador(e).estado \in {"NEW", "READY", "EXEC", "BLOCK", "EXIT"}
       /\ Entrenador(e).tarea.tipo_tarea \in {"NULL", "ATRAPAR", "INTERCAMBIO"}
       /\ Entrenador(e).rafagas_intercambio \in 0..RafagasIntercambio
       /\ {Entrenador(e).capturados[i] : i \in DOMAIN Entrenador(e).capturados} \subseteq Especies
  /\ {TEAM.ready[i] : i \in DOMAIN TEAM.ready} \subseteq Ids
  /\ {TEAM.desocupados[i] : i \in DOMAIN TEAM.desocupados} \subseteq Ids
  /\ cpu.lugar \in {"gets", "evaluar", "esperar", "rafaga", "enviar", "anotar", "fin"}
  /\ cpu.e \in Ids \cup {0} /\ (cpu.lugar \in {"rafaga", "enviar", "anotar"} <=> cpu.e # 0)
  /\ \A q \in Colas : suscripto[q] \in {"no", "viva", "rota", "sorda"}
  /\ conectado \in BOOLEAN /\ broker \in BOOLEAN
  /\ cayo \in {"no", "ventana", "repetido", "liberado", "pisado", "otra"}

\* The mishaps that leave a trainer where nobody looks for it.
Perdidos == {"sin rafagas", "pisado"}

Uno(b) == IF b THEN 1 ELSE 0
Lugares(e) ==
  Cantidad(TEAM.desocupados, e) + Cantidad(TEAM.ready, e) + Uno(cpu.e = e)
    + Uno(cpu.e # e /\ Entrenador(e).esta_en_entrada_salida)
    + Uno(caught.que \in {"desocupar", "reponer"} /\ caught.e = e)

\* A trainer that can still catch, or that has a task, is in exactly one place that some
\* thread looks at: idle, ready, running, waiting for a CAUGHT, or on its way from one to
\* the other.  The others are in none.
NadieVarado ==
  Vivo /\ incidentes \cap Perdidos = {} =>
    \A e \in Ids :
      Lugares(e) = Uno(PuedeCapturar(Entrenador(e)) \/ Entrenador(e).tarea # SinTarea)

Asignados(s) == Cardinality({e \in Ids : /\ Entrenador(e).tarea.tipo_tarea = "ATRAPAR"
                                         /\ Entrenador(e).tarea.pokemon.especie = s})
CapturadosDe(s) == EspecieCapturada(TEAM, s)

\* objetivo_pokemones_restantes never forgets: what the team still lacks of a species is
\* in the list, assigned to a trainer, or about to be put back (team.h:33-36).
ObjetivosNoPerdidos ==
  cayo = "no" =>
    \A s \in Especies :
      Cantidad(TEAM.objetivos, s) + Asignados(s)
        + Uno(caught.que = "reponer" /\ caught.especie = s)
        >= EspecieBuscada(TEAM, s) - CapturadosDe(s)

\* Species by species the numbers agree: what there is in the map, in tasks and in pockets
\* is what was put in the map, less the failed ones, and what the trainers had at the start.
EspeciesConservadas ==
  cayo = "no" =>
    \A s \in Especies :
      Cardinality({i \in DOMAIN TEAM.mapa : TEAM.mapa[i].especie = s})
        + Asignados(s) + EspecieCapturada(TEAM, s) = aceptados[s]

\* planificar_entrenador sends a trainer for a pokemon and has the map forget the first of
\* its species (planificador.c:46-48): as long as the map has not had two of a species at
\* once, a pokemon of it is in one place of the map, in one trainer's task, or caught.
UnLugarCadaUno ==
  cayo = "no" =>
    \A p \in {TEAM.mapa[i] : i \in DOMAIN TEAM.mapa}
               \cup {Entrenador(e).tarea.pokemon :
                       e \in {f \in Ids : Entrenador(f).tarea.tipo_tarea = "ATRAPAR"}} :
      p.especie \notin mezcladas =>
        Cantidad(TEAM.mapa, p) + Cardinality({e \in Ids : Entrenador(e).tarea = Atrapar(p)})
          + Uno(p \in embolsados) = 1

\* No species is lost or multiplied and, until the map has had two of its species at once,
\* no pokemon is in two places.  With two at once it may be: both trainers of MCTeam's
\* Iguales go for the same one, and the free of a failed CATCH is seen as "liberado".
NadaSePierde == EspeciesConservadas /\ UnLugarCadaUno

\* An exchange that is under way involves two trainers and no more: the other one stays
\* blocked with what is asked of it to spare, the first has what it promised to spare, and
\* whoever waits for an exchange is the other one of exactly one.
ParejaEntera ==
  cayo = "no" /\ "pisado" \notin incidentes =>
    LET Van == {e \in Ids : Entrenador(e).tarea.tipo_tarea = "INTERCAMBIO"}
        Otro(e) == Entrenador(e).tarea.entrenador_intercambio
    IN  /\ \A e \in Van :
             /\ Otro(e) # e /\ Entrenador(Otro(e)).estado = "BLOCK"
             /\ Contains(Sobrantes(Entrenador(Otro(e))), Entrenador(e).tarea.pokemon_a_pedir)
             /\ Contains(Sobrantes(Entrenador(e)), Entrenador(e).tarea.pokemon_a_otorgar)
        /\ \A f \in Ids : Entrenador(f).esperando_intercambio =>
                          Cardinality({e \in Van : Otro(e) = f}) = 1

\* The NULL trainer of procesar_caught comes only from the races that are named.
CaeSoloPorCarrera == cayo # "otra"

\* An exchange takes the team nearer to its end: the one that asked lacks one less, the
\* other one lacks no more than before.
IntercambioSirve ==
  [][\A e \in Ids :
       LET f == Entrenador(e).tarea.entrenador_intercambio
           Faltan(t, x) == Len(Faltantes(t.entrenadores[x]))
       IN  (IntercambiarPokemones /\ cpu.e = e) =>
             Faltan(TEAM', e) < Faltan(TEAM, e) /\ Faltan(TEAM', f) <= Faltan(TEAM, f)]_vars

\* Without mishaps, a team whose pokemons all appear reaches its objective and ends,
\* deadlocks included.
Termina == [](incidentes = {} /\ cayo = "no") => <>(cpu.lugar = "fin")

\* Once the Broker stays up every queue whose thread has seen the connection close is
\* subscribed again and, whatever the order in which the threads notice,
\* conectado_al_broker says so for good.  A thread that got ERROR_RECV instead never
\* subscribes again: its queue stays deaf although conectado_al_broker is true.
Reconecta ==
  <>[](broker /\ Vivo) =>
    <>[](conectado /\ \A q \in Colas : suscripto[q] \in {"viva", "sorda"})

\* pokemones.c:160: no more of a species than what is wanted globally.
NoSobraEspecie ==
  \A s \in Especies : EspecieCapturada(TEAM, s) <= EspecieBuscada(TEAM, s)
=================================================================================
