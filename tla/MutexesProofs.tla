---------------------------- MODULE MutexesProofs ----------------------------
(****************************************************************************)
(* Proofs about Mutexes for any number of threads and any queues: a thread  *)
(* that waits for a message holds nothing, and the nested critical sections *)
(* cannot block each other for ever.                                        *)
(*                                                                          *)
(* The inductive invariant is a table: what a thread holds is given by      *)
(* where it is in the handler.  Deadlock freedom follows from the order the *)
(* table shows: the holder of a queue's mutex waits for nothing, the holder *)
(* of a subscribers' mutex at most for a queue's, the holder of             *)
(* mutexMemoria at most for those.                                          *)
(****************************************************************************)
EXTENDS Mutexes, TLAPS

\* What a thread holds at place l of the handler of a message of queue c.
Suyos(l, c) ==
  CASE l \in {"enMemoria", "conMemoria", "enUltimos", "sinQueue", "confirmado"} -> {Memoria}
    [] l = "conId"                                -> {Id}
    [] l \in {"buscado", "agregado"}              -> {IDsCorrelativos(c)}
    [] l \in {"contado", "leido", "sinMemoria", "suscripto"} -> {Suscriptores(c)}
    [] l \in {"anotado", "conSuscriptores"}       -> {Memoria, Suscriptores(c)}
    [] l = "conQueue"        -> {Memoria, Suscriptores(c), Queue(c)}
    [] l = "sinSuscriptores" -> {Memoria, Queue(c)}
    [] l = "encolado"        -> {Queue(c)}
    [] OTHER -> {}

\* An eviction also holds the queue of its victim, whichever it is.
Posibles(l, c) == IF l = "desalojando" THEN {{Memoria, Queue(v)} : v \in Pedidos}
                  ELSE {Suyos(l, c)}

IInv == /\ TypeOK
        /\ \A h \in Hilos : Tiene(h) \in Posibles(lugar[h], cola[h])

------------------------------------------------------------------------------
(* Mutexes are what their names say. *)

LEMMA MutexesDistintos ==
  ASSUME NEW c \in Colas, NEW d \in Colas
  PROVE  /\ Memoria \in Mutex /\ Id \in Mutex
         /\ Suscriptores(c) \in Mutex /\ Queue(c) \in Mutex /\ IDsCorrelativos(c) \in Mutex
         /\ Memoria # Id /\ Memoria # Suscriptores(c) /\ Memoria # Queue(c)
         /\ Memoria # IDsCorrelativos(c) /\ Id # Suscriptores(c) /\ Id # Queue(c)
         /\ Id # IDsCorrelativos(c) /\ Suscriptores(c) # Queue(d)
         /\ Suscriptores(c) # IDsCorrelativos(d) /\ Queue(c) # IDsCorrelativos(d)
         /\ (Suscriptores(c) = Suscriptores(d) => c = d)
         /\ (Queue(c) = Queue(d) => c = d)
         /\ (IDsCorrelativos(c) = IDsCorrelativos(d) => c = d)
BY DEF Mutex, Memoria, Id, Suscriptores, Queue, IDsCorrelativos

\* A mutex is held by one thread, so a step of h changes what h holds and nothing else.
LEMMA OtrosIgual ==
  ASSUME IInv, NEW h \in Hilos, NEW ll, Hacer(h, ll), ll.mutex \in Mutex,
         ll.op \in {"lock", "unlock", "sigue"}
  PROVE  /\ \A g \in Hilos \ {h} : Tiene(g)' = Tiene(g)
         /\ ll.op = "lock"   => Tiene(h)' = Tiene(h) \cup {ll.mutex}
         /\ ll.op = "unlock" => Tiene(h)' = Tiene(h) \ {ll.mutex} /\ ll.mutex \in Tiene(h)
         /\ ll.op = "sigue"  => Tiene(h)' = Tiene(h)
<1>1. duenio \in [Mutex -> Hilos \cup {Nadie}] /\ Nadie \notin Hilos
  BY MutexesAssumption DEF IInv, TypeOK
<1>2. CASE ll.op = "lock"
  <2>1. duenio[ll.mutex] = Nadie /\ duenio' = [duenio EXCEPT ![ll.mutex] = h]
    BY <1>2 DEF Hacer, Puede
  <2>2. QED
    BY <1>1, <1>2, <2>1 DEF Tiene
<1>3. CASE ll.op = "unlock"
  <2>1. duenio[ll.mutex] = h /\ duenio' = [duenio EXCEPT ![ll.mutex] = Nadie]
    BY <1>3 DEF Hacer, Puede
  <2>2. QED
    BY <1>1, <1>3, <2>1 DEF Tiene
<1>4. CASE ll.op = "sigue"
  <2>1. duenio' = duenio
    BY <1>4 DEF Hacer
  <2>2. QED
    BY <1>4, <2>1 DEF Tiene
<1>5. QED
  BY <1>2, <1>3, <1>4

------------------------------------------------------------------------------
(* The table agrees with the calls. *)

\* Every call takes or releases a mutex, or none, and leads to a place.
LEMMA LlamadaValida ==
  ASSUME NEW l \in Lugares, NEW c \in Colas, NEW ll \in Llamadas(l, c)
  PROVE  /\ ll.op \in {"lock", "unlock", "sigue"}
         /\ ll.mutex \in Mutex
         /\ ll.a \in Lugares
<1>1. Memoria \in Mutex /\ Id \in Mutex
  BY MutexesDistintos
<1>2. \A d \in Colas : Suscriptores(d) \in Mutex /\ Queue(d) \in Mutex
                       /\ IDsCorrelativos(d) \in Mutex
  BY MutexesDistintos
<1>3. Pedidos \subseteq Colas
  BY DEF Colas
<1>4. QED
  BY <1>1, <1>2, <1>3
     DEF Llamadas, LlamadasPublicar, LlamadasSuscripcion, LlamadasConfirmacion,
         Llamada, Lock, Unlock, Sigue, Lugares

\* Holding what the table says before a call, a thread holds what it says after it.
LEMMA TablaCorrecta ==
  ASSUME NEW l \in Lugares, NEW c \in Colas, NEW ll \in Llamadas(l, c),
         NEW T \in Posibles(l, c), NEW U,
         ll.op = "lock"   => U = T \cup {ll.mutex},
         ll.op = "unlock" => U = T \ {ll.mutex} /\ ll.mutex \in T,
         ll.op = "sigue"  => U = T
  PROVE  U \in Posibles(ll.a, c)
<1> USE DEF Llamadas, LlamadasPublicar, LlamadasSuscripcion, LlamadasConfirmacion,
            Llamada, Lock, Unlock, Sigue
<1>m. /\ Memoria \in Mutex /\ Id \in Mutex
      /\ \A d \in Colas : /\ Suscriptores(d) \in Mutex /\ Queue(d) \in Mutex
                          /\ IDsCorrelativos(d) \in Mutex
                          /\ Memoria # Suscriptores(d) /\ Memoria # Queue(d)
      /\ \A d, e \in Colas : /\ Suscriptores(d) # Queue(e)
                             /\ Queue(d) = Queue(e) => d = e
  BY MutexesDistintos
<1>p. Pedidos \subseteq Colas
  BY DEF Colas
<1>1. CASE l = "enMemoria"
  <2>1. T = {Memoria}
    BY <1>1 DEF Posibles, Suyos
  <2>2. CASE \E v \in Pedidos : ll = Lock(Queue(v), "desalojando")
    <3>1. PICK v \in Pedidos : ll = Lock(Queue(v), "desalojando")
      BY <2>2
    <3>2. ll.op = "lock" /\ ll.mutex = Queue(v) /\ ll.a = "desalojando"
      BY <3>1
    <3>3. U = {Memoria, Queue(v)}
      BY <2>1, <3>2
    <3>4. QED
      BY <1>m, <1>p, <3>2, <3>3 DEF Posibles, Lugares
  <2>3. CASE ll.op = "unlock"
    BY <1>1, <1>m, <2>1, <2>3 DEF Posibles, Suyos, Lugares
  <2>4. QED
    BY <1>1, <2>2, <2>3
<1>2. CASE l = "desalojando"
  <2>1. PICK v \in Pedidos : T = {Memoria, Queue(v)}
    BY <1>2 DEF Posibles
  <2>2. PICK w \in Pedidos : ll = Unlock(Queue(w), "enMemoria")
    BY <1>2
  <2>3. Queue(w) \in T /\ U = T \ {Queue(w)}
    BY <2>2
  <2>4. w = v
    BY <1>m, <1>p, <2>1, <2>3
  <2>5. U = {Memoria}
    BY <1>m, <1>p, <2>1, <2>3, <2>4
  <2>6. QED
    BY <1>m, <1>p, <2>2, <2>5 DEF Posibles, Suyos, Lugares
<1>3. CASE l \notin {"enMemoria", "desalojando"}
  <2>1. T = Suyos(l, c) /\ ll.a # "desalojando"
    BY <1>3 DEF Posibles, Lugares
  <2>2. ll.op \in {"lock", "unlock", "sigue"} /\ ll.mutex \in Mutex /\ ll.a \in Lugares
    BY <1>3, <1>m DEF Lugares
  <2>3. U = Suyos(ll.a, c)
    <3>1. CASE l \in {"id", "conId"}
      BY <1>m, <2>1, <3>1 DEF Suyos
    <3>2. CASE l \in {"buscar", "buscado", "agregar", "agregado"}
      BY <1>m, <2>1, <3>2 DEF Suyos
    <3>3. CASE l \in {"contar", "contado", "enviar", "leido", "suscribir", "suscripto"}
      BY <1>m, <2>1, <3>3 DEF Suyos
    <3>4. CASE l \in {"cachear", "registrar", "ultimos", "confirmar", "confirmado", "sinQueue"}
      BY <1>m, <2>1, <3>4 DEF Suyos
    <3>5. CASE l \in {"conMemoria", "anotado", "sinMemoria", "enUltimos"}
      BY <1>m, <2>1, <3>5 DEF Suyos
    <3>6. CASE l \in {"conSuscriptores", "conQueue", "sinSuscriptores"}
      BY <1>m, <2>1, <3>6 DEF Suyos
    <3>7. CASE l \in {"encolar", "encolado", "recv_message"}
      BY <1>m, <2>1, <3>7 DEF Suyos
    <3>8. QED
      BY <1>3, <3>1, <3>2, <3>3, <3>4, <3>5, <3>6, <3>7 DEF Lugares
  <2>4. QED
    BY <2>1, <2>2, <2>3 DEF Posibles
<1>4. QED
  BY <1>1, <1>2, <1>3

LEMMA Inicio == Init => IInv
<1> SUFFICES ASSUME Init PROVE IInv
  OBVIOUS
<1>1. TypeOK
  BY DEF Init, TypeOK, Lugares
<1>2. ASSUME NEW h \in Hilos
      PROVE  Tiene(h) \in Posibles(lugar[h], cola[h])
  <2>1. Tiene(h) = {}
    BY MutexesAssumption DEF Tiene, Init
  <2>2. lugar[h] = "recv_message"
    BY DEF Init
  <2>3. QED
    BY <2>1, <2>2 DEF Posibles, Suyos
<1>3. QED
  BY <1>1, <1>2 DEF IInv

LEMMA Paso == IInv /\ [Next]_vars => IInv'
<1> SUFFICES ASSUME IInv, [Next]_vars PROVE IInv'
  OBVIOUS
<1>1. ASSUME NEW h \in Hilos, RecvMessage(h)
      PROVE  IInv'
  <2>1. TypeOK'
    BY <1>1 DEF IInv, TypeOK, RecvMessage, Lugares
  <2>2. ASSUME NEW g \in Hilos
        PROVE  Tiene(g)' \in Posibles(lugar'[g], cola'[g])
    <3>1. Tiene(g)' = Tiene(g) /\ Tiene(g) \in Posibles(lugar[g], cola[g])
      BY <1>1 DEF RecvMessage, Tiene, IInv
    <3>2. CASE g = h
      <4>1. Tiene(g) = {}
        BY <1>1, <3>1, <3>2 DEF RecvMessage, Posibles, Suyos
      <4>2. lugar'[g] \in {"id", "suscribir", "confirmar"}
        BY <1>1, <3>2 DEF RecvMessage, IInv, TypeOK
      <4>3. QED
        BY <3>1, <4>1, <4>2 DEF Posibles, Suyos
    <3>3. CASE g # h
      <4>1. lugar'[g] = lugar[g] /\ cola'[g] = cola[g]
        BY <1>1, <3>3 DEF RecvMessage, IInv, TypeOK
      <4>2. QED
        BY <3>1, <4>1
    <3>4. QED
      BY <3>2, <3>3
  <2>3. QED
    BY <2>1, <2>2 DEF IInv
<1>2. ASSUME NEW h \in Hilos, NEW ll \in Llamadas(lugar[h], cola[h]), Hacer(h, ll)
      PROVE  IInv'
  <2>1. /\ lugar[h] \in Lugares /\ cola[h] \in Colas
        /\ Tiene(h) \in Posibles(lugar[h], cola[h])
    BY DEF IInv, TypeOK
  <2>2. ll.op \in {"lock", "unlock", "sigue"} /\ ll.mutex \in Mutex /\ ll.a \in Lugares
    BY <2>1, LlamadaValida
  <2>3. /\ \A g \in Hilos \ {h} : Tiene(g)' = Tiene(g)
        /\ ll.op = "lock"   => Tiene(h)' = Tiene(h) \cup {ll.mutex}
        /\ ll.op = "unlock" => Tiene(h)' = Tiene(h) \ {ll.mutex} /\ ll.mutex \in Tiene(h)
        /\ ll.op = "sigue"  => Tiene(h)' = Tiene(h)
    BY <1>2, <2>2, OtrosIgual
  <2>4. Tiene(h)' \in Posibles(ll.a, cola[h])
    BY <2>1, <2>3, TablaCorrecta
  <2>5. lugar' = [lugar EXCEPT ![h] = ll.a] /\ cola' = cola
    BY <1>2 DEF Hacer
  <2>6. TypeOK'
    <3>1. duenio' \in [Mutex -> Hilos \cup {Nadie}]
      BY <1>2, <2>2 DEF Hacer, IInv, TypeOK
    <3>2. QED
      BY <2>2, <2>5, <3>1 DEF IInv, TypeOK
  <2>7. ASSUME NEW g \in Hilos
        PROVE  Tiene(g)' \in Posibles(lugar'[g], cola'[g])
    <3>1. CASE g = h
      BY <2>4, <2>5, <3>1 DEF IInv, TypeOK
    <3>2. CASE g # h
      BY <2>3, <2>5, <3>2 DEF IInv, TypeOK
    <3>3. QED
      BY <3>1, <3>2
  <2>8. QED
    BY <2>6, <2>7 DEF IInv
<1>3. CASE UNCHANGED vars
  BY <1>3 DEF vars, IInv, TypeOK, Tiene
<1>4. QED
  BY <1>1, <1>2, <1>3 DEF Next

------------------------------------------------------------------------------
(* The order of the mutexes. *)

Avanza(h) == Ocupado(h) /\ \E ll \in Llamadas(lugar[h], cola[h]) : Puede(h, ll)

\* The places where a thread can always go on: it is to release what it holds.
LEMMA Suelta ==
  ASSUME IInv, NEW h \in Hilos,
         lugar[h] \in {"conId", "buscado", "agregado", "enMemoria", "desalojando", "contado",
                       "enviar", "leido", "anotado", "sinMemoria", "encolado", "suscripto",
                       "conQueue", "sinSuscriptores", "sinQueue", "confirmado"}
  PROVE  Avanza(h)
<1> DEFINE c == cola[h]
<1>1. Tiene(h) \in Posibles(lugar[h], c) /\ c \in Colas
  BY DEF IInv, TypeOK
<1>2. ASSUME NEW x \in Tiene(h), NEW l, Unlock(x, l) \in Llamadas(lugar[h], c),
             lugar[h] # "recv_message"
      PROVE  Avanza(h)
  <2>1. Puede(h, Unlock(x, l))
    BY DEF Tiene, Puede, Unlock, Llamada
  <2>2. QED
    BY <1>2, <2>1 DEF Avanza, Ocupado
<1>3. CASE lugar[h] = "conId"
  <2>1. Id \in Tiene(h)
    BY <1>1, <1>3 DEF Posibles, Suyos
  <2>2. Unlock(Id, IF c \in Respuestas THEN "buscar" ELSE IF c \in CuentaAntes THEN "contar" ELSE "cachear")
          \in Llamadas(lugar[h], c)
    BY <1>3 DEF Llamadas, LlamadasPublicar, LlamadasSuscripcion, LlamadasConfirmacion
  <2>3. QED
    BY <1>2, <1>3, <2>1, <2>2
<1>4. CASE lugar[h] = "buscado"
  <2>1. IDsCorrelativos(c) \in Tiene(h)
    BY <1>1, <1>4 DEF Posibles, Suyos
  <2>2. Unlock(IDsCorrelativos(c), "agregar")
          \in Llamadas(lugar[h], c)
    BY <1>4 DEF Llamadas, LlamadasPublicar, LlamadasSuscripcion, LlamadasConfirmacion
  <2>3. QED
    BY <1>2, <1>4, <2>1, <2>2
<1>5. CASE lugar[h] = "agregado"
  <2>1. IDsCorrelativos(c) \in Tiene(h)
    BY <1>1, <1>5 DEF Posibles, Suyos
  <2>2. Unlock(IDsCorrelativos(c), "cachear")
          \in Llamadas(lugar[h], c)
    BY <1>5 DEF Llamadas, LlamadasPublicar, LlamadasSuscripcion, LlamadasConfirmacion
  <2>3. QED
    BY <1>2, <1>5, <2>1, <2>2
<1>6. CASE lugar[h] = "enMemoria"
  <2>1. Memoria \in Tiene(h)
    BY <1>1, <1>6 DEF Posibles, Suyos
  <2>2. Unlock(Memoria, IF c \in CuentaAntes THEN "enviar" ELSE "contar")
          \in Llamadas(lugar[h], c)
    BY <1>6 DEF Llamadas, LlamadasPublicar, LlamadasSuscripcion, LlamadasConfirmacion
  <2>3. QED
    BY <1>2, <1>6, <2>1, <2>2
<1>7. CASE lugar[h] = "contado"
  <2>1. Suscriptores(c) \in Tiene(h)
    BY <1>1, <1>7 DEF Posibles, Suyos
  <2>2. Unlock(Suscriptores(c), IF c \in CuentaAntes THEN "cachear" ELSE "enviar")
          \in Llamadas(lugar[h], c)
    BY <1>7 DEF Llamadas, LlamadasPublicar, LlamadasSuscripcion, LlamadasConfirmacion
  <2>3. QED
    BY <1>2, <1>7, <2>1, <2>2
<1>8. CASE lugar[h] = "leido"
  <2>1. Suscriptores(c) \in Tiene(h)
    BY <1>1, <1>8 DEF Posibles, Suyos
  <2>2. Unlock(Suscriptores(c), "registrar")
          \in Llamadas(lugar[h], c)
    BY <1>8 DEF Llamadas, LlamadasPublicar, LlamadasSuscripcion, LlamadasConfirmacion
  <2>3. QED
    BY <1>2, <1>8, <2>1, <2>2
<1>9. CASE lugar[h] = "anotado"
  <2>1. Memoria \in Tiene(h)
    BY <1>1, <1>9 DEF Posibles, Suyos
  <2>2. Unlock(Memoria, "sinMemoria")
          \in Llamadas(lugar[h], c)
    BY <1>9 DEF Llamadas, LlamadasPublicar, LlamadasSuscripcion, LlamadasConfirmacion
  <2>3. QED
    BY <1>2, <1>9, <2>1, <2>2
<1>10. CASE lugar[h] = "sinMemoria"
  <2>1. Suscriptores(c) \in Tiene(h)
    BY <1>1, <1>10 DEF Posibles, Suyos
  <2>2. Unlock(Suscriptores(c), "enviar")
          \in Llamadas(lugar[h], c)
    BY <1>10 DEF Llamadas, LlamadasPublicar, LlamadasSuscripcion, LlamadasConfirmacion
  <2>3. QED
    BY <1>2, <1>10, <2>1, <2>2
<1>11. CASE lugar[h] = "encolado"
  <2>1. Queue(c) \in Tiene(h)
    BY <1>1, <1>11 DEF Posibles, Suyos
  <2>2. Unlock(Queue(c), "recv_message")
          \in Llamadas(lugar[h], c)
    BY <1>11 DEF Llamadas, LlamadasPublicar, LlamadasSuscripcion, LlamadasConfirmacion
  <2>3. QED
    BY <1>2, <1>11, <2>1, <2>2
<1>12. CASE lugar[h] = "suscripto"
  <2>1. Suscriptores(c) \in Tiene(h)
    BY <1>1, <1>12 DEF Posibles, Suyos
  <2>2. Unlock(Suscriptores(c), "ultimos")
          \in Llamadas(lugar[h], c)
    BY <1>12 DEF Llamadas, LlamadasPublicar, LlamadasSuscripcion, LlamadasConfirmacion
  <2>3. QED
    BY <1>2, <1>12, <2>1, <2>2
<1>13. CASE lugar[h] = "conQueue"
  <2>1. Suscriptores(c) \in Tiene(h)
    BY <1>1, <1>13 DEF Posibles, Suyos
  <2>2. Unlock(Suscriptores(c), "sinSuscriptores")
          \in Llamadas(lugar[h], c)
    BY <1>13 DEF Llamadas, LlamadasPublicar, LlamadasSuscripcion, LlamadasConfirmacion
  <2>3. QED
    BY <1>2, <1>13, <2>1, <2>2
<1>14. CASE lugar[h] = "sinSuscriptores"
  <2>1. Queue(c) \in Tiene(h)
    BY <1>1, <1>14 DEF Posibles, Suyos
  <2>2. Unlock(Queue(c), "sinQueue")
          \in Llamadas(lugar[h], c)
    BY <1>14 DEF Llamadas, LlamadasPublicar, LlamadasSuscripcion, LlamadasConfirmacion
  <2>3. QED
    BY <1>2, <1>14, <2>1, <2>2
<1>15. CASE lugar[h] = "sinQueue"
  <2>1. Memoria \in Tiene(h)
    BY <1>1, <1>15 DEF Posibles, Suyos
  <2>2. Unlock(Memoria, "recv_message")
          \in Llamadas(lugar[h], c)
    BY <1>15 DEF Llamadas, LlamadasPublicar, LlamadasSuscripcion, LlamadasConfirmacion
  <2>3. QED
    BY <1>2, <1>15, <2>1, <2>2
<1>16. CASE lugar[h] = "confirmado"
  <2>1. Memoria \in Tiene(h)
    BY <1>1, <1>16 DEF Posibles, Suyos
  <2>2. Unlock(Memoria, "recv_message")
          \in Llamadas(lugar[h], c)
    BY <1>16 DEF Llamadas, LlamadasPublicar, LlamadasSuscripcion, LlamadasConfirmacion
  <2>3. QED
    BY <1>2, <1>16, <2>1, <2>2
<1>17. CASE lugar[h] = "desalojando"
  <2>1. PICK v \in Pedidos : Queue(v) \in Tiene(h)
    BY <1>1, <1>17 DEF Posibles
  <2>2. Unlock(Queue(v), "enMemoria") \in Llamadas(lugar[h], c)
    BY <1>17 DEF Llamadas, LlamadasPublicar
  <2>3. QED
    BY <1>2, <1>17, <2>1, <2>2
<1>18. CASE lugar[h] = "enviar"
  <2> DEFINE ll == Sigue(IF c \in Pedidos THEN "encolar" ELSE "recv_message")
  <2>1. ll \in Llamadas(lugar[h], c)
    BY <1>18 DEF Llamadas, LlamadasPublicar
  <2>2. Puede(h, ll)
    BY DEF Puede, Sigue, Llamada
  <2>3. QED
    BY <1>18, <2>1, <2>2 DEF Avanza, Ocupado
<1>19. QED
  BY <1>3, <1>4, <1>5, <1>6, <1>7, <1>8, <1>9, <1>10, <1>11, <1>12, <1>13, <1>14, <1>15, <1>16, <1>17, <1>18

\* A thread that waits for x goes on if x is free.
LEMMA Espera ==
  ASSUME NEW h \in Hilos, NEW x, NEW l, Lock(x, l) \in Llamadas(lugar[h], cola[h]),
         Ocupado(h), duenio[x] = Nadie
  PROVE  Avanza(h)
<1>1. Puede(h, Lock(x, l))
  BY DEF Puede, Lock, Llamada
<1>2. QED
  BY <1>1 DEF Avanza

\* Nobody who holds the mutex of a queue waits.
LEMMA QueueAvanza ==
  ASSUME IInv, NEW c \in Colas, NEW h \in Hilos, duenio[Queue(c)] = h
  PROVE  Avanza(h)
<1>1. /\ Queue(c) \in Mutex /\ cola[h] \in Colas
      /\ Queue(c) \notin {Memoria, Id, Suscriptores(cola[h]), IDsCorrelativos(cola[h])}
  BY MutexesDistintos DEF IInv, TypeOK
<1>2. Queue(c) \in Tiene(h) /\ Tiene(h) \in Posibles(lugar[h], cola[h])
  BY <1>1 DEF Tiene, IInv
<1>3. lugar[h] \in {"desalojando", "encolado", "conQueue", "sinSuscriptores"}
  BY <1>1, <1>2 DEF Posibles, Suyos
<1>4. QED
  BY <1>3, Suelta

\* Who holds the mutex of a list of subscribers waits at most for that of a queue.
LEMMA SuscriptoresAvanza ==
  ASSUME IInv, NEW c \in Colas, NEW h \in Hilos, duenio[Suscriptores(c)] = h
  PROVE  \E g \in Hilos : Avanza(g)
<1>1. /\ Suscriptores(c) \in Mutex /\ cola[h] \in Colas
      /\ Suscriptores(c) \notin {Memoria, Id, IDsCorrelativos(cola[h])}
      /\ \A d \in Colas : Suscriptores(c) # Queue(d)
  BY MutexesDistintos DEF IInv, TypeOK
<1>2. Suscriptores(c) \in Tiene(h) /\ Tiene(h) \in Posibles(lugar[h], cola[h])
  BY <1>1 DEF Tiene, IInv
<1>3. lugar[h] \in {"contado", "leido", "sinMemoria", "suscripto", "anotado", "conQueue",
                    "conSuscriptores"}
  <2>1. lugar[h] # "desalojando"
    <3> SUFFICES ASSUME lugar[h] = "desalojando" PROVE FALSE
      OBVIOUS
    <3>1. PICK v \in Pedidos : Tiene(h) = {Memoria, Queue(v)}
      BY <1>2 DEF Posibles
    <3>2. QED
      BY <1>1, <1>2, <3>1 DEF Colas
  <2>2. QED
    BY <1>1, <1>2, <2>1 DEF Posibles, Suyos
<1>4. CASE lugar[h] # "conSuscriptores"
  BY <1>3, <1>4, Suelta
<1>5. CASE lugar[h] = "conSuscriptores"
  <2>1. Lock(Queue(cola[h]), "conQueue") \in Llamadas(lugar[h], cola[h]) /\ Ocupado(h)
    BY <1>5 DEF Llamadas, LlamadasSuscripcion, Ocupado
  <2>2. CASE duenio[Queue(cola[h])] = Nadie
    BY <2>1, <2>2, Espera
  <2>3. CASE duenio[Queue(cola[h])] # Nadie
    <3>1. duenio[Queue(cola[h])] \in Hilos
      BY <1>1, <2>3, MutexesDistintos DEF IInv, TypeOK
    <3>2. QED
      BY <1>1, <3>1, QueueAvanza
  <2>4. QED
    BY <2>2, <2>3
<1>6. QED
  BY <1>4, <1>5

\* A thread that wants the mutex of a list of subscribers, or a queue's, is not stuck.
LEMMA EsperaSuscriptores ==
  ASSUME IInv, NEW h \in Hilos, NEW l, Ocupado(h),
         Lock(Suscriptores(cola[h]), l) \in Llamadas(lugar[h], cola[h])
  PROVE  \E g \in Hilos : Avanza(g)
<1>1. cola[h] \in Colas /\ Suscriptores(cola[h]) \in Mutex
  BY MutexesDistintos DEF IInv, TypeOK
<1>2. CASE duenio[Suscriptores(cola[h])] = Nadie
  BY <1>2, Espera
<1>3. CASE duenio[Suscriptores(cola[h])] # Nadie
  <2>1. duenio[Suscriptores(cola[h])] \in Hilos
    BY <1>1, <1>3 DEF IInv, TypeOK
  <2>2. QED
    BY <1>1, <2>1, SuscriptoresAvanza
<1>4. QED
  BY <1>2, <1>3

\* Who holds mutexMemoria waits at most for a list of subscribers or a queue.
LEMMA MemoriaAvanza ==
  ASSUME IInv, NEW h \in Hilos, duenio[Memoria] = h
  PROVE  \E g \in Hilos : Avanza(g)
<1>1. /\ Memoria \in Mutex /\ cola[h] \in Colas
      /\ Memoria \notin {Id, Suscriptores(cola[h]), Queue(cola[h]), IDsCorrelativos(cola[h])}
  BY MutexesDistintos DEF IInv, TypeOK
<1>2. Memoria \in Tiene(h) /\ Tiene(h) \in Posibles(lugar[h], cola[h])
  BY <1>1 DEF Tiene, IInv
<1>3. lugar[h] \in {"enMemoria", "conMemoria", "enUltimos", "sinQueue", "confirmado", "anotado",
                    "conSuscriptores", "conQueue", "sinSuscriptores", "desalojando"}
  BY <1>1, <1>2 DEF Posibles, Suyos
<1>4. CASE lugar[h] \in {"conMemoria", "enUltimos"}
  <2>1. PICK l : Lock(Suscriptores(cola[h]), l) \in Llamadas(lugar[h], cola[h])
    BY <1>4 DEF Llamadas, LlamadasPublicar, LlamadasSuscripcion
  <2>2. Ocupado(h)
    BY <1>4 DEF Ocupado
  <2>3. QED
    BY <2>1, <2>2, EsperaSuscriptores
<1>5. CASE lugar[h] = "conSuscriptores"
  <2>1. duenio[Suscriptores(cola[h])] = h
    BY <1>2, <1>5 DEF Posibles, Suyos, Tiene
  <2>2. QED
    BY <1>1, <2>1, SuscriptoresAvanza
<1>6. CASE lugar[h] \notin {"conMemoria", "enUltimos", "conSuscriptores"}
  BY <1>3, <1>6, Suelta
<1>7. QED
  BY <1>4, <1>5, <1>6

LEMMA SinEsperaCircular == IInv => AlguienAvanza
<1> SUFFICES ASSUME IInv, NEW h \in Hilos, Ocupado(h)
             PROVE  \E g \in Hilos : Avanza(g)
  BY DEF AlguienAvanza, Avanza
<1>1. lugar[h] \in Lugares /\ cola[h] \in Colas /\ lugar[h] # "recv_message"
  BY DEF IInv, TypeOK, Ocupado
<1>m. Memoria \in Mutex /\ Id \in Mutex /\ IDsCorrelativos(cola[h]) \in Mutex
      /\ Queue(cola[h]) \in Mutex
  BY <1>1, MutexesDistintos
<1>d. ASSUME NEW x \in Mutex PROVE duenio[x] = Nadie \/ duenio[x] \in Hilos
  BY DEF IInv, TypeOK
<1>2. CASE lugar[h] = "id"
  <2>1. Lock(Id, "conId") \in Llamadas(lugar[h], cola[h])
    BY <1>2 DEF Llamadas, LlamadasPublicar
  <2>2. ASSUME NEW g \in Hilos, duenio[Id] = g PROVE Avanza(g)
    <3>1. Id \in Tiene(g) /\ Tiene(g) \in Posibles(lugar[g], cola[g]) /\ cola[g] \in Colas
      BY <1>m, <2>2 DEF Tiene, IInv, TypeOK
    <3>2. \A c \in Colas : Id \notin {Memoria, Suscriptores(c), Queue(c), IDsCorrelativos(c)}
      BY MutexesDistintos
    <3>3. lugar[g] = "conId"
      BY <3>1, <3>2 DEF Posibles, Suyos, Colas
    <3>4. QED
      BY <3>3, Suelta
  <2>3. QED
    BY <1>m, <1>d, <2>1, <2>2, Espera
<1>3. CASE lugar[h] \in {"buscar", "agregar"}
  <2>1. PICK l : Lock(IDsCorrelativos(cola[h]), l) \in Llamadas(lugar[h], cola[h])
    BY <1>3 DEF Llamadas, LlamadasPublicar
  <2>2. ASSUME NEW g \in Hilos, duenio[IDsCorrelativos(cola[h])] = g PROVE Avanza(g)
    <3> DEFINE x == IDsCorrelativos(cola[h])
    <3>1. x \in Tiene(g) /\ Tiene(g) \in Posibles(lugar[g], cola[g]) /\ cola[g] \in Colas
      BY <1>m, <2>2 DEF Tiene, IInv, TypeOK
    <3>2. \A c \in Colas : x \notin {Memoria, Id, Suscriptores(c), Queue(c)}
      BY <1>1, MutexesDistintos
    <3>3. lugar[g] \in {"buscado", "agregado"}
      BY <3>1, <3>2 DEF Posibles, Suyos, Colas
    <3>4. QED
      BY <3>3, Suelta
  <2>3. QED
    BY <1>m, <1>d, <2>1, <2>2, Espera
<1>4. CASE lugar[h] \in {"cachear", "registrar", "ultimos", "confirmar"}
  <2>1. PICK l : Lock(Memoria, l) \in Llamadas(lugar[h], cola[h])
    BY <1>4 DEF Llamadas, LlamadasPublicar, LlamadasSuscripcion, LlamadasConfirmacion
  <2>2. QED
    BY <1>m, <1>d, <2>1, MemoriaAvanza, Espera
<1>5. CASE lugar[h] \in {"contar", "suscribir", "conMemoria", "enUltimos"}
  <2>1. PICK l : Lock(Suscriptores(cola[h]), l) \in Llamadas(lugar[h], cola[h])
    BY <1>5 DEF Llamadas, LlamadasPublicar, LlamadasSuscripcion
  <2>2. QED
    BY <2>1, EsperaSuscriptores
<1>6. CASE lugar[h] \in {"encolar", "conSuscriptores"}
  <2>1. PICK l : Lock(Queue(cola[h]), l) \in Llamadas(lugar[h], cola[h])
    BY <1>6 DEF Llamadas, LlamadasPublicar, LlamadasSuscripcion
  <2>2. QED
    BY <1>1, <1>m, <1>d, <2>1, QueueAvanza, Espera
<1>7. CASE lugar[h] \notin {"id", "buscar", "agregar", "cachear", "registrar", "ultimos",
                            "confirmar", "contar", "suscribir", "conMemoria", "enUltimos",
                            "encolar", "conSuscriptores"}
  BY <1>1, <1>7, Suelta DEF Lugares
<1>8. QED
  BY <1>2, <1>3, <1>4, <1>5, <1>6, <1>7

------------------------------------------------------------------------------
(* The theorems. *)

\* For any number of connections a thread that waits for its next message holds no mutex
\* (broker.c:54-804).
THEOREM NadieRetiene == Spec => []NadaRetenido
<1>1. IInv => NadaRetenido
  BY DEF IInv, NadaRetenido, Posibles, Suyos
<1>2. IInv /\ [][Next]_vars => []IInv
  BY Paso, PTL
<1>3. QED
  BY Inicio, <1>1, <1>2, PTL DEF Spec

\* For any number of connections, and any queues, the handlers never wait for each other
\* in a circle (the nested sections of broker.c:133-139 and 737-739, and eliminarIdCola).
THEOREM SinAbrazoMortal == Spec => []AlguienAvanza
<1>1. IInv /\ [][Next]_vars => []IInv
  BY Paso, PTL
<1>2. QED
  BY Inicio, SinEsperaCircular, <1>1, PTL DEF Spec
==============================================================================
