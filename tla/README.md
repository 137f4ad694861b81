# Delibird in TLA+

The repository is Delibird, a distributed Pokémon hunt in C: a **Broker** with six message queues and an
in-memory message cache, **Teams** that hunt, **GameCards** that keep Pokémon in a file system of their own and a
command-line **GameBoy** that publishes single messages.  This directory holds TLA+ models of its core, checked
with TLC, and theorems about them, checked with TLAPS.  Names are those of the source, Spanish included; paths
below are relative to `src/`.

## 1. Inventory

### Broker (`Broker/src`)

One thread per connection (`handler_clients`), one more per send to a subscriber (`handler_envio_mensajes`), a
signal handler for the dump.  State, all of it global:

| state | where | operations |
|---|---|---|
| `particionesEnMemoria`, `principioMemoria`, `colaMensajesMemoria`, `CONTADORLRU` | `ParticionesDinamicas.c` | `cachearMensaje`: search (FF/BF), store, evict (FIFO/LRU), consolidate, compact |
| the same with `Buddy` | `BuddySystem.c` | `cachearMensajeBuddy`: search, halve, store, evict, merge |
| `<cola>_admin->suscriptores`, `->queue`, `IDs_correlativos_*` | `colasDeMensajes.c`, `broker.c` | six publications, SUSCRIPCION, CONFIRMACION |
| `suscriptoresMensajeEnviado`, `suscriptoresACK` of each partition | `broker.c` | noted after each send, on confirmation |
| mutexes: `mutexMemoria`, one for identifiers, one per list | `colasDeMensajes.c` | |

Hard: handlers interleave between critical sections; inside them `mutexMemoria`, `mutexSuscriptores` and
`mutexQueue` nest; the lists of the three answer queues are changed without their mutex; a message can be evicted
between being cached and being looked up; subscribers come back on another descriptor, and descriptors are reused.
What makes it correct: partitions tile the memory and cached bytes survive; victims are the right ones; no message is
taken as confirmed by someone who did not get it; subscribers get their messages; publishers are answered; nobody
waits for ever; no NULL is used.

### Team (`Team/src`)

| state | where | operations |
|---|---|---|
| trainers, `ready` and its semaphore, `desocupados`, `mapa`, `objetivos_restantes` | `team.c`, `planificador.c`, `entrenadores.c` | plan the nearest idle trainer, run one (FIFO, RR, SJF with and without preemption), a cycle of CPU, catch |
| tasks and exchanges | `deadlock.c`, `entrenadores.c` | detect, resolve in two passes, exchange |
| `idsGet`, `idsCatch`, `especies_recibidas`, one queue per kind of message | `planificador.c`, `conexiones.c` | GET, CATCH, three consumers |
| a socket per subscription, `conectado_al_broker` | `conexiones.c` | subscribe, lose the connection, retry; the GameBoy's messages |

Hard: a thread per trainer, one that plans and one per kind of message; the id of a CATCH is matched with its CAUGHT
in another thread; deadlocks are resolved in two threads and without a mutex; the Broker may be down, believed up,
or send an answer twice; with two of a species in the map one Pokémon may be given to two trainers; a subscription
may end in two ways, of which one leaves its thread on a closed socket.  Correct if: no trainer is left where nobody
looks for it, no species and (but for that) no Pokémon is lost or multiplied, every exchange makes progress, the team
finishes, and it finds the Broker again.

### GameCard (`GameCard/src`)

| state | where | operations |
|---|---|---|
| `Files/*/Metadata.bin` (blocks, OPEN), `Blocks/*.bin`, `Bitmap.bin` | the disk, `gm_filesystem.c` | NEW, CATCH, GET; take, write, give back a block |
| `config_metadata`, one for all threads; `files_open`, a mutex per file | `gm_filesystem.c` | rewrite a `Metadata.bin`: truncate it, then save |
| three subscriptions, GameBoy connections | `Gamecard.c` | a message at a time, answer, CONFIRMACION, reconnect |

Hard: OPEN and the bitmap are tested and set without a lock; all threads share `config_metadata`; space runs out in
the middle of an update; several lines share a block or a line takes several; a crash leaves OPEN=Y or an empty `Metadata.bin`; the Broker sends messages again.  Correct
if: no block belongs to two files, a file is open for one thread, what is stored is the NEWs minus the CATCHs, and
every message ends up processed.

### The rest

`shared/shared/protocol.c`, `net.c`: a frame is two `send` calls, and two threads may send to one socket.
`gameboy`: one message, then exit; no state of its own.  Everything else in the repository is build output and
Eclipse metadata.

## 2. Plan

| order | module | of | state |
|---|---|---|---|
| 1 | `Particiones`, `CacheMensajes`, `ParticionesCache`, `ParticionesProofs` | dynamic partitions, abstract cache, refinement, proofs of both | done |
| 2 | `Buddy`, `BuddyCache` | buddy system against the same abstract cache | done |
| 3 | `Broker` | publication, delivery, subscription, confirmation | done |
| 4 | `Mutexes`, `MutexesProofs` | order of the mutexes, deadlock freedom | done |
| 5 | `Entrenadores`, `Team`, `EquipoProofs`, `TeamProofs` | the team's data and what is done to it in one go; its threads, the Broker down, repeated CAUGHT; proofs about each | done |
| 6 | `GameCard`, `GameCardProofs` | OPEN, bitmap, blocks, retries, crashes; types, blocks and files of one owner, blocks of the disk, content of the files | done |
| 7 | `BuddyProofs`, `BrokerProofs`, over `Lemas` | tiling and the buddy memory as an abstract cache; confirmations, listing, single answers, no NULL used | done |

Deadlock detection has no module of its own: it works on the same data as the planner, so it is in `Entrenadores`.
Every safety property that a passing run checks has a theorem, but for the second half of `NadaSePierde`
(`UnLugarCadaUno`).  Worth doing next: that half, action properties of `GameCard` and
`Broker` (what one step may never do to a block or to a list of acks) and a sharper `NuncaCae` (below).

## 3. Modules and how they correspond to the code

Definitions whose name begins with `Mal` are plausible mistakes in the definition that follows; no specification
uses them.  They are there to show that each property notices the mistake it is about.

**`Particiones`** (`ParticionesDinamicas.c`).  Everything happens with `mutexMemoria` held, so a single message is
being cached; `pc` is where.  One action is one turn of a loop: `AlmacenarNormal` / `EliminarParticion` /
`CompactarMemoria` are the turns of `ejecutarCicloNormal` (and, with -1, `ejecutarCicloAlternativo`, whose store
*after* the compaction is `AlmacenarFinal`); `Consolidar` / `AvanzarConsolidacion` / `TerminarConsolidacion` are
`consolidarMemoria`; `MoverParticion` / `AvanzarCompactacion` / `TerminarCompactacion` are `compactarMemoria`, with
`consolidarMemoria` called after each move (`retorno`).  Memory is a function from bytes to "byte k of message id".
The list is a set, since every function that depends on its order sorts it by position first; a list index is the
position of the partition it denotes.  `AgregarIdCola` and `EnviarUltimo` are what other handlers do to this state.
A NULL dereference is a state with no successor.

**`CacheMensajes`** is what a cache promises with no partitions: a set of messages with their bytes, given up in
FIFO or LRU order and only while another waits.  **`ParticionesCache`** and **`BuddyCache`** map the concrete
memories to it: a cached message is an occupied partition and its bytes are what `memoria` holds at its position.

**`Buddy`** (`BuddySystem.c`), the same way: `Buscar`, `Partir`, `Almacenar`, `EliminarParticionBuddy`, `Unir`,
`Avanzar`, `TerminarConsolidacion`.  The skip after two equal neighbours that cannot merge (`index += 2`) and the
merge of neighbours that are not buddies are in it.

**`Broker`** (`broker.c`).  `hilo[m]` is the thread that publishes m, `conexion[s]` the one that serves the
subscriber on descriptor s, `envios` the sending threads.  An action is a thread from one critical section to the
next, nested ones included.  The six publications share their actions and differ as the code does: CATCH counts its
subscribers before it caches, answers are checked for a repeated `idCorrelativo` and listed before the subscribers
are counted, requests are listed after the sends (so a subscriber that arrives in between misses them), NEW does
not check the subscriber it finds, and only CATCH with the buddy system checks the partition (`Revienta`, `Anota`).
`SinExclusion` is the lost `list_add` of the unlocked answer queues.  The cache is at the grain of whole messages,
with any of them as victim.  `caido` is the process dead of a NULL.

**`Mutexes`**.  For each place in a handler, the lock and unlock calls that may come next (`LlamadasPublicar`,
`LlamadasSuscripcion`, `LlamadasConfirmacion`).

**`Entrenadores`** (`entrenadores.c`, `deadlock.c`, the helpers of `planificador.c` and `pokemones.c`).  Operators
from a `t_team` to the `t_team` that results: `Planificar` is `planificar_entrenador` with its sorts of the map;
`CicloCpu` one cycle; `ResolverDeadlock` both loops of `resolver_deadlock` with their skips (after a trainer without
a partner is taken out, the next one is passed over); `QuiereAlgoDe` compares only the first missing species, since
the inner index is not set back; `Intercambiar` the end of an exchange.

**`Team`** (`planificador.c`, `conexiones.c`).  `cpu` is the main thread and the trainer it waits for, a thread each
in the code but never running at once.  `Evaluar` … `Tomar` are the two loops of `planificar_team`, `Ciclo`,
`Bloquear`, `EnviarCatch`, `AnotarId`, `AtraparPorDefault`, `IntercambiarPokemones` what `handler_entrenador` does
in a turn, with the id written after the mutex of `idsCatch` is free.  `VerificarAppeared`/`AgregarAppeared`,
`ProcesarLocalized`, `RecibirCaught` and the three ends of it are the consumers, from one critical section to the
next; `ResolverEnHilo` is the second caller of `resolver_deadlock`.  The rest of the system answers: Pokémon appear, a
CATCH is answered once for each Pokémon, the Broker falls and comes back.  `incidentes` and `cayo` are history: the
mishaps for which the code has no remedy; `embolsados` the Pokémon caught so far and `mezcladas` the species of
which the map has had two at once.  `PerderConexion` has both ways in which `handler_suscripciones` may find its
connection closed: NO_CONNECTION, after which the thread subscribes again, and ERROR_RECV, after which it never does
(`"sorda"`).  A failed CATCH frees the Pokémon (l.285): if it is still in the map, another trainer's task or a pocket
(`EnUso`), the process is taken to end there (`cayo = "liberado"`), since what it reads next is undefined.

**`GameCard`** (`gm_filesystem.c`, `Gamecard.c`).  Threads `h` take one message at a time through `pc`; rewriting a
`Metadata.bin` is two steps, `Truncar` (which sets the shared `config`) and `Guardar`.  The creation of a file takes
no mutex, a block of a shrinking file is freed before it is emptied, `OPEN=N` is written twice for a NEW, all as in
the code.  A `NULL` or a freed `config_metadata` is `Morir("segfault")`; `Caer` is a kill at any moment, `Reiniciar`
finds the disk as it was, and what the Broker has no CONFIRMACION of is sent again.  `carreras` is the history of
the races that happened, each named where it happens.  Lines go in groups: in the files of `Cortos`
`LINEAS_POR_BLOQUE` of them fill a block, as in a `createNewPokemon` that finds `block_size >= length`; a line of
another file f fills `BLOQUES_POR_LINEA[f]` blocks, its second branch (`gm_filesystem.c:343`).  `LineasDe` reads a
line from the last of its blocks, the one with its `\n`, and none from a group cut short; `OperateCatch` gives back
one block, however many are left over.

**`Lemas`** holds what several proofs use: the least element of a set of naturals, the order of a FIFO queue, how many
elements of a list are in a set and what appending, removing and inserting do to that count, and `Plegar`, which
turns a fold into a function from the turn of the loop to its result, so that a proof can go through the turns one
at a time (by the least turn at which a claim fails).

**`MC…`** modules give sets of messages and configurations; everything else is in the `.cfg` files.

## 4. Runs

| run | asks | shows |
|---|---|---|
| `Particiones` | 8 bytes, minimum 2, messages of 1, 3, 4 and 8, four of them, both cycles with FF/BF and FIFO/LRU (447 000 states) | tiling, intact bytes, no two free neighbours between searches, a victim for each eviction, compaction moves only messages and leaves one free partition, cached messages stay listed |
| `Particiones_cache` | the same with messages of 9 bytes, which do not fit, and fairness | the normal cycle implements `CacheMensajes`, liveness included |
| `Buddy` | 8 bytes, minimum 1, FF+FIFO and BF+LRU | tiling, intact bytes, the right size, only what a cache may do |
| `Buddy_cuartos` | 16 bytes in quarters | **violation**: see section 7 |
| `Broker_respuestas` | three answers of one thread, one repeated, a Team that reconnects, two descriptors | no NULL used, cached and answered means listed, repeats dropped, every cached answer reaches a Team that stays |
| `Broker_dos_publicadores` | two publishers at a time on an unlocked queue | subscribers that were there still get both answers |
| `Broker_pedidos` | NEW and CATCH with room for one message in the buddy system, three subscribers for two descriptors | nothing counts as confirmed by someone who has not received it; every publisher is answered, or the Broker has died |
| `Broker_largo` | a NEW longer than the memory | **violation**: see section 7 |
| `Team` | eight teams of two or three trainers, the four algorithms, a failed CATCH, a Broker that falls, a CAUGHT repeated or of another Team (475 000 states) | no trainer stranded, no objective or species lost, no Pokémon in two places until the map has two of a species, exchanges are between two and help, a NULL only from the races that are named, the team ends, the subscriptions that saw NO_CONNECTION come back |
| `Team_sobra` | a second Pokémon of a species wanted once | **violation**: see section 7 |
| `GameCard` | eleven disks with three files, one of them of lines of two blocks, and six blocks; four threads, a lost connection, a death and a restart (242 000 states) | until a race happens: blocks and open files have one owner and, in the files of short lines, contents are right; faults come from a truncated file; blocks past the disk need two takers; messages end up answered |
| `Mutexes` | three threads, one queue of each sort | nobody keeps a mutex, no circular wait |

**Bounds.**  Eight bytes hold four minimum partitions, so a compaction has several free gaps to close and several
messages to move, and the fourth message is the first that has to evict after one.  `MaxMensajes` and `MaxEnvios`
bound the counters `ID_INICIAL` and `CONTADORLRU`; `MaxConexiones` bounds the connections made by all subscribers:
two is a reconnection, on the same descriptor or on the other.  Three messages and a cache of two is an eviction of a
listed message while another is published.  Three threads are enough for a circular wait over the three mutexes
that nest; section 5 removes that bound.  In `Team`, three trainers are the shortest cycle that is not a pair, two
of the same species are what two trainers can be sent for at once, and each case has the one failure it is about
(`fallos`, `caidas`, `duplicados`).  In `GameCard`, one line per block makes every NEW of a new position take a
block and every emptied position give one back, and two blocks per line are the least of which CATCH gives back too
few.  `mew`, with such lines, leaves four blocks to the other two files, which run out of them in the case `Llena`; in
`Largas` and `Pierde` it is shortened, emptied and written again. `cortes` and
`reinicios` bound lost connections and restarts, and `Bloques` has one block past the disk for each thread, for what the missing bound of
`obtener_conf_free_block` may give.

**Fairness.**  `Particiones!FairSpec`: the thread that holds `mutexMemoria` waits for nobody, so its loop goes on.
`Broker!FairSpec`: each publishing and serving thread, some sending thread and some confirmation in transit make
progress, being runnable pthreads that wait for leaf critical sections only (that those end is `Mutexes`).  Clients
are not fair: they publish, connect and vanish as they please.  `Team!FairSpec`: every thread of the Team runs
(its ENABLED conditions are written out so that TLC does not plan a team to evaluate them), Pokémon that exist are
announced, CATCHs are answered by a Broker that is there, and the Broker is started again; GETs need no answer.
`Termina` is about executions without mishaps; `Reconecta` about all, and says that each queue ends up subscribed but
for the ones whose thread got ERROR_RECV, which nothing brings back.
`GameCard!FairSpec`: each thread goes on, the retry of an open file being a sleep; nothing is assumed of failures.  Liveness properties exempt a Broker that has died
and a subscriber that left.

**`CHECK_DEADLOCK FALSE`** where the program may really stop: a Broker dead of a NULL, the final store of the
alternative cycle that finds no room, clients that publish nothing more, a Team that has ended, a GameCard that has
nothing left to process.

## 5. Proofs

**`ParticionesProofs`**, for every memory size, minimum, frequency (0 and -1 included), pair of algorithms and
message sizes, from `ConfigAssumption` alone: `Invariante`, `TiposCorrectos`, `MemoriaParticionada` (no overlap, no
lost byte) and `MensajesIntegros` (no stored byte is overwritten or left behind by a move).  `Particionado` and
`ContenidoIntegro` are not inductive alone.  `IInv` adds the types, that a message being cached is real and fits
(`MensajeValido`: else a store could write past its partition) and that no partition remembers a message larger
than itself (`TamanioAcotado`: a *free* partition keeps the `tamanioMensaje` of what it held, and compaction copies
that many bytes).  Lemma `Retila` carries the geometry: replacing the partitions inside an interval by others that
tile it keeps the tiling; `SiguienteContigua` says that the next partition starts where this one ends.  A store, a
merge and a move are each one use of them; the other steps move nothing.

**`MutexesProofs`**, for any number of connections and any queues, from `MutexesAssumption`: `NadieRetiene` and
`SinAbrazoMortal`.  `IInv` is a table of what a thread holds at each place (`Suyos`; an eviction holds the queue of
whichever message it evicts).  `TablaCorrecta` says that each call leads from one row to another.  Deadlock freedom
follows the order in the table: the holder of a queue's mutex waits for nothing (`QueueAvanza`), the holder of a
list of subscribers at most for a queue (`SuscriptoresAvanza`), the holder of `mutexMemoria` at most for those
(`MemoriaAvanza`).

**`ParticionesProofs`**, second part: the other properties of `Particiones`.  `Geometria` says
what the cursors leave behind: no two free neighbours but ahead of the one of `consolidarMemoria` (`SinContiguas`),
only messages behind the one of `compactarMemoria` (`Compactadas`).  `Identidad` says that ids are unique and that
the FIFO queue names, in order, every cached message and, in the normal cycle, nothing else.  `LibresSeparadas`,
`SeMuevenMensajes` and `SeCompactaTodo` follow from the first, `CacheadosAlcanzables` and `SiempreHayVictima` from
the second (with the alternative cycle the queue may hold an id twice, but is not empty while a message is cached).

**`BuddyProofs`**, for every power of two as memory and as minimum, from `BuddyAssumption`: `TiposCorrectos`,
`MemoriaParticionada`, `MensajesIntegros`, `ParticionesJustas`.  `IInv` adds that the partition being halved is free
and still holds the message (`PorPartir`).  That halving never goes below the minimum is a fact about powers of two
(`AlMenosElDoble`, by least counterexample); that a merge leaves a power of two follows from the tiling, since the
sum of two equal powers fits in the memory — also when the two are not buddies.

**The two memories are a cache.**  `ImplementaCache` of `BuddyProofs` and `ImplementaCacheSinFallas` of
`ParticionesProofs` show that each step of the buddy system and of the dynamic partitions is a step of
`CacheMensajes` or a stutter; the second assumes `ejecutarCicloNormal` (a frequency other than -1), since the
alternative cycle may store a message twice.  They are the safety half of the refinements that the runs check.  A
message is known by its id, so both rest on ids being unique among the occupied partitions (`Identidad`, `Unicas`): an
eviction frees every partition with an id, and the abstract cache loses one message.  The FIFO queue has the ids in
increasing order, so its head is the oldest message; under LRU the smallest mark is looked for.  That a stored message
fits in what the cache may hold is a count: the bytes of the other messages lie in memory outside the partition
that is given to it.  That a cached message reads back the same is `ContenidoIntegro`.

**`BrokerProofs`**, for any subscribers, descriptors and messages: `TiposCorrectos`, `ConfirmadoEsRecibido`;
`ConfirmadosListados` when no two messages of an answer queue are published at a time; `UnaSolaRespuesta` when one
client publishes the answers.  These two assumptions hold in `Broker_respuestas` and `Broker_pedidos`;
`Broker_dos_publicadores` is the case they exclude.  `IInv` says what is noted and listed, that a handler stays
within what it counted, and that a confirmation comes from whoever has received.  `PasosDePublicacion` reduces every
step of a publication to six kinds, over which listing and uniqueness are then argued.  `NuncaCae` (no NULL is used)
assumes `Resguardo`, which holds in `Broker_respuestas`: no message is too long; none is a NEW, nor a CATCH with the
buddy system, whose handlers note a NULL when the subscriber has come back on another descriptor; and none is evicted
under way, because one client publishes or because all fit.  With any one of them dropped TLC finds a Broker that
dies, on instances of one or two messages.  Under it, a message is cached from its `cachearMensaje` to the end of
its handler (`EnCache`, over the six kinds) and no partition has noted a NULL (`SinNulos`), which is what the searches
by id trip over.

**`GameCardProofs`**, for any threads, files, blocks, deaths and restarts, from `GameCardAssumption` and
`CasosAssumption` (a disk in order at the start): `TiposCorrectos`, `BloquesDeUnSolo`, `AbiertosConDueno`,
`SegfaultsExplicados`, `BloquesDelDisco`, `ContenidosFieles` — every safety property of the run `GameCard`.  Lines
may have any length; `ContenidosFieles` is about the files whose lines fit in a block, also while others have longer
ones, and says nothing of those others: there it would be false (section 7).
`IInv` is the types and, until a race happens, `Orden`: each thread's memory fits its place (`EnSuLugar`), each open
or truncated `Metadata.bin` has its owner (`MetadataConDueno`), each block is of one file or of the one thread that
is moving it (`BloquesConDueno`), and a file that is missing values has a reason (`FaltaExplicada`).  Three more
invariants are proved over it:

* `Resto`, the types it does not need: a CATCH always finds the block it drops, no count of a line reaches zero,
  and the blocks counted as free do not go below zero.
* `EnElDisco`, for `BloquesDelDisco`: blocks past the end are the bound that `obtener_conf_free_block` lacks, and
  only `freeBlocks`, counted long before, keeps a thread from them.  What the one thread that takes has counted, less
  what it took, is still free (`Contando`) and covers what it has left to take (`Alcanza`).
* `HayContenido`, for `ContenidosFieles`: there is a content K of the files such that each one that nobody is
  rewriting has it on its blocks, line by line, and each thread that is rewriting one has in its lists, or has written up to its
  loop's turn, what gives that file K (`EnCurso`).  K changes at one step of each NEW and CATCH, the one from which `hizo`
  says that it is done; `Saldo` says that K is what the answers left plus what is done and not answered.  K is needed because while
  blocks are rewritten one by one what the disk holds means nothing.  The lemmas it rests on are about one thread
  at a time: adding or taking away one Pokémon keeps one line for each position (`UnoMas`, `UnoMenos`), cutting the lines into
  blocks and joining them is the identity (`Trozos`), and one line more takes one block more at most
  (`OcupaSiguiente`).  A step on a file of longer lines touches no block of the others and leaves K as it is
  (`PasoLargo`).

**`TeamProofs`**, for any configurations, algorithms, quantum, failed CATCHs, falls of the Broker and repeated or
foreign CAUGHTs, from `EntrenadoresAssumption` and `TeamAssumption`: `TiposCorrectos`, `NadieQuedaVarado`,
`ObjetivosSeConservan`, `EspeciesSeConservan`, `ParejasEnteras`, `CaidasExplicadas` and the action property
`IntercambiosSirven` — every safety property of the run `Team` but `UnLugarCadaUno`.  `EspeciesSeConservan` is the
first half of `NadaSePierde`: it counts the Pokémon of a species and does not say which of them is where, so that one
given to two trainers while the map forgets another does not disturb it.  None is inductive alone, and each needs the
others: that no species loses one needs that a trainer with a task to catch is not asked to catch another, which is where
it stands among the lists; where it stands needs that an answer of the Broker finds the trainer that asked; and that
needs the ids.  `IInv` is the types and, until the Team dies of a NULL, `Bien`: `Todo` of `EquipoProofs` and
`Conocidos`.

* `Puestos`: a trainer that may still catch is in exactly one of `desocupados`, `ready`, the cpu, the wait for a
  CAUGHT or the hand of `procesar_caught` ("at most one" once a trainer got no cycles, `"sin rafagas"`); a full one
  is scheduled exactly while it has a task.
* `Fases`: in the first loop of `planificar_team` there are no exchanges, in the second everybody is full.
* `Pares`: an exchange has a trainer that goes and another that waits for it, each with what it promised left
  over; `ParejaEntera` is its visible part.
* `Cuentas`: for each species, map, tasks and pockets hold what was accepted, and what is missing is in `objetivos`,
  in a task or in the hand of `procesar_caught`.
* `Conocidos`: a CATCH without answer has an id that a trainer waits for, or that the main thread is about to note
  (the window of `planificador.c:326-327`), and no two answers that are not copies are for one trainer.

**`EquipoProofs`** has a lemma `...Todo` for each operator of `Entrenadores`, saying that it keeps `Todo`; it
does not mention the variables, so the actions of the planner, of the consumers and of the thread of the deadlock that
apply the same operator use the same lemma.  Below them, what the folds compute: a sort keeps the elements
(`OrdenarReady`, `OrdenarMapa`), a difference of lists takes counts apart (`MenosCuenta`), `planificar_entrenador`
moves Pokémon from the map into tasks of idle trainers (`PlanificarHace`), the loops of `resolver_deadlock` pair
blocked trainers that have no pair (`ResolverHace`), and an exchange leaves the one that asked nearer and the other no
farther (`Trueque`, `IntercambiarHace`).  In `TeamProofs` each action of `Next` is then one use of the lemma for its kind of
step (`PasoDelEquipo`, `PasoDelHilo`, `PasoDelAviso`, `PasoAjeno`, `PasoDeLlegada`).

Only model-checked: `UnLugarCadaUno` of `Team`, and liveness (`SeConfirma`, `RespuestaLlega` and `LlegaASuscriptos` of `Broker`, `Terminan` of
`GameCard`, those of `Team`, and the rest of `ImplementaCache` of `Particiones_cache`), which TLAPS cannot prove.

## 6. Assumptions and what is left out

* Sizes of the buddy system are powers of two (64 and 4 in `broker.config`): the code halves with integer division.
* `agregarBuddy` leaves fields uninitialised.  `cambiarALibre` (`BuddySystem.c:392`) compares the `idMensaje` of free
  partitions with that of the victim; should it happen to be equal, it frees what is free and takes an id that is
  being taken away out of a queue.  Nobody else reads them while the partition is free.
* A subscriber does not come back before its previous SUSCRIPCION is processed: clients sleep
  `TIEMPO_RECONEXION` first.  Each handler thread of a GameCard publishes on a connection of its own and waits there
  for the confirmation (`Gamecard.c:243-252`), so a `Publicador` is a thread: the answers to the Broker's messages of
  one queue come from one of them, and those to GameBoys from others (`Broker_dos_publicadores`).
* Critical sections are atomic in `Broker`; who waits for whom is `Mutexes`.
* Left out of the models: the layout of messages, logging, the SIGUSR1 dump (which sorts the list of partitions in
  a signal handler), `send` blocking on a full buffer, what else the unlocked lists may do besides losing an element.
* `Team`: a critical section of `mutex_planificar_entrenador` is one step, and so is `resolver_deadlock`, which
  takes no mutex: an exchange lasts five cycles of `RETARDO_CICLO_CPU` seconds and the search microseconds.  Two
  calls to it may still be pending at once.  The counters of the final report are left out.  A
  thread left on a closed descriptor (ERROR_RECV) may come to read another connection that is given its number, which
  is not modelled; nor is the thread of a GameBoy's connection, which loops the same way (`conexiones.c:237`) with
  nothing left to deliver.  What the process does after it frees a Pokémon in use is not modelled.  Every trainer of a
  configuration has room for a Pokémon at the start (`TeamAssumption`): `main.c:18` lists them all as idle without asking.
* `GameCard`: setting a bit of the bitmap is atomic (two threads in one byte are not modelled), and the bytes of a
  line are its position and amount.  The lines of a file have one length and fill whole blocks, several to a block or
  several blocks to a line: a short line that straddles two blocks is in the model in one of them, an amount that gets
  a digit more keeps its length, and a line joined from the blocks of two others after a race is not modelled.  SIZE is written and never read, so it is left out, as are nested directories
  and the creation of an empty disk.
* Not modelled: the frames of `protocol.c` and the layout of the messages (pure I/O and serialisation, whose
  outcomes are actions of the other modules), and gameboy, which sends one message and ends.

## 7. Where code and comments differ

* `Buddy_cuartos`: `BuddySystem.c:42` gives length as the only reason not to cache a message.  With three free
  partitions of 8, 4 and 4, the pass of `consolidarMemoriaBuddy` merges the last two and does not look back, so the
  memory of 16 is left as 8 and 8; a message of 16 is then not stored, nothing is left to evict, and the eviction
  uses the NULL of `queue_pop` (l.386-387).
* `Broker_largo`: `ParticionesDinamicas.c:539` (a line of log, commented out) says that a message that is too long is not
  cached, as if that were all; with one subscriber, the handler of NEW goes on to use the partition it does not have (`broker.c:137`).
* `Team_sobra`: `pokemones.c:160` says that the team cannot catch more of a species than is wanted globally;
  `verificar_nuevo_appeared` (`planificador.c:179`) compares what is wanted with what has been captured and not with
  what is in the map or assigned, so a second Pokémon that appears in between is caught too.
* Met while modelling, in the models but with no run of their own: with `FRECUENCIA_COMPACTACION` -1 the message is
  stored, the memory compacted and the message stored *again* (`ParticionesDinamicas.c:588-589`), although l.15 says
  that it compacts only once every partition has been evicted; with 0 nothing is ever evicted and the cycle
  compacts for ever (l.557).  When the memory is full a message may be evicted before its own handler looks its
  partition up (`broker.c:134`), which ends the Broker (`caido` in `Broker_pedidos`).
  In `Team`, `planificar_entrenador` takes from the map the first Pokémon of a species, which need not be the one it
  assigned (`planificador.c:46-48`), so that the same one may be given to two trainers; if the CATCH of the second
  fails, `borrar_t_pokemon` (l.285) frees the one that the first has in its pocket (`"liberado"`).
  `handler_suscripciones` has no case for ERROR_RECV (`conexiones.c:338`): the thread reads its closed socket for ever,
  the queue is not subscribed again and `conectado_al_broker` says otherwise (`"sorda"`); a trainer that already is at its Pokémon gets no cycle and never catches it
  (l.435-442, `"sin rafagas"`); `procesar_caught` may overwrite a task given by `resolver_deadlock` (l.254-268,
  `"pisado"`); `quiere_algo_de` compares one missing species only (`deadlock.c:123`).  In `GameCard`, a CATCH of a
  file that does not exist answers an uninitialised `int` (`gm_filesystem.c:388`), APPEARED is sent also when a NEW
  found no room, and a message sent again after a lost connection is applied twice.  A CATCH gives back one block
  (l.621-623, l.640), where a line longer than a block leaves several: of a file that is emptied the others stay marked
  in the bitmap and in no file; of one that is shortened they stay in its list, and the lines in them, caught already,
  are read again by the next message.

## 8. Running

    tlc -config Particiones.cfg MCParticiones      # PROJECT.json lists module and cfg of every run
    for m in Particiones Buddy Broker GameCard Mutexes Equipo Team; do tlapm ${m}Proofs.tla; done
    tlapm Lemas.tla
