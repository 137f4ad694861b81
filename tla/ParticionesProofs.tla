-------------------------- MODULE ParticionesProofs --------------------------
(****************************************************************************)
(* Proofs about Particiones for every memory size, minimum partition,       *)
(* compaction frequency (0 and -1 included) and pair of algorithms: the     *)
(* types, the tiling of the memory and the integrity of the cached bytes.   *)
(****************************************************************************)
EXTENDS ParticionesCache, Lemas, TLAPS

\* While a message is being cached it is a real one that fits.
MensajeValido ==
  pc # "libre" => mensaje.id \in Nat /\ mensaje.tam \in 1..TAMANO_MEMORIA

\* What a partition remembers of its last message never exceeds the partition.
TamanioAcotado == \A p \in particiones : p.tamMsg <= p.tam

\* The inductive invariant.
IInv == /\ TypeOK
        /\ MensajeValido
        /\ TamanioAcotado
        /\ Particionado
        /\ ContenidoIntegro

------------------------------------------------------------------------------
\* A set of partitions that tiles the memory still does when those inside [x, y) are
\* replaced by others that tile [x, y).
LEMMA Retila ==
  ASSUME NEW P, NEW O, NEW N, NEW x \in Nat, NEW y \in Nat,
         P \subseteq Particion, N \subseteq Particion, O \subseteq P, y <= TAMANO_MEMORIA,
         Tila(P),
         \A o \in O : x <= o.pos /\ o.pos + o.tam <= y,
         \A r \in P \ O : r.pos + r.tam <= x \/ y <= r.pos,
         \A n \in N : x <= n.pos /\ n.pos + n.tam <= y,
         \A n, m \in N : n # m => n.pos + n.tam <= m.pos \/ m.pos + m.tam <= n.pos,
         \A b \in Bytes : x <= b /\ b < y => \E n \in N : n.pos <= b /\ b < n.pos + n.tam
  PROVE  Tila((P \ O) \cup N)
<1> USE ConfigAssumption DEF Bytes, Particion, NoId
<1> DEFINE Q == (P \ O) \cup N
<1>0. \A p \in Q : p \in Particion
  OBVIOUS
<1>1. \A p \in Q : p.pos + p.tam <= TAMANO_MEMORIA
  BY DEF Tila
<1>2. \A p, q \in Q : p # q => p.pos + p.tam <= q.pos \/ q.pos + q.tam <= p.pos
  <2> SUFFICES ASSUME NEW p \in Q, NEW q \in Q, p # q
               PROVE  p.pos + p.tam <= q.pos \/ q.pos + q.tam <= p.pos
    OBVIOUS
  <2>0. /\ p.pos \in Nat /\ p.tam \in Nat
        /\ q.pos \in Nat /\ q.tam \in Nat
    BY <1>0
  <2>1. CASE p \in P \ O /\ q \in P \ O
    BY <2>1 DEF Tila
  <2>2. CASE p \in P \ O /\ q \in N
    <3>1. p.pos + p.tam <= x \/ y <= p.pos
      BY <2>2
    <3>2. x <= q.pos /\ q.pos + q.tam <= y
      BY <2>2
    <3>3. QED
      BY <2>0, <3>1, <3>2
  <2>3. CASE p \in N /\ q \in P \ O
    <3>1. q.pos + q.tam <= x \/ y <= q.pos
      BY <2>3
    <3>2. x <= p.pos /\ p.pos + p.tam <= y
      BY <2>3
    <3>3. QED
      BY <2>0, <3>1, <3>2
  <2>4. CASE p \in N /\ q \in N
    BY <2>4
  <2>5. QED
    BY <2>1, <2>2, <2>3, <2>4
<1>3. \A b \in Bytes : \E p \in Q : p.pos <= b /\ b < p.pos + p.tam
  <2> SUFFICES ASSUME NEW b \in Bytes
               PROVE  \E p \in Q : p.pos <= b /\ b < p.pos + p.tam
    OBVIOUS
  <2>1. CASE x <= b /\ b < y
    BY <2>1
  <2>2. CASE ~(x <= b /\ b < y)
    <3>1. PICK p \in P : p.pos <= b /\ b < p.pos + p.tam
      BY DEF Tila
    <3>2. p \notin O
      BY <2>2, <3>1
    <3>3. QED
      BY <3>1, <3>2
  <2>3. QED
    BY <2>1, <2>2
<1>4. QED
  BY <1>1, <1>2, <1>3 DEF Tila

\* In a tiled memory the next partition of the list starts where this one ends.
LEMMA SiguienteContigua ==
  ASSUME particiones \subseteq Particion, Particionado,
         NEW p \in particiones, NEW q \in Siguiente(p.pos)
  PROVE  q \in particiones /\ q # p /\ q.pos = p.pos + p.tam
<1> USE ConfigAssumption DEF Bytes, Particion, Siguiente
<1>1. q \in particiones /\ q.pos > p.pos /\ q # p
  OBVIOUS
<1>2. p.pos + p.tam <= q.pos
  BY <1>1 DEF Particionado, Tila
<1>3. p.pos + p.tam \in Bytes
  BY <1>1, <1>2
<1>4. PICK r \in particiones : r.pos <= p.pos + p.tam /\ p.pos + p.tam < r.pos + r.tam
  BY <1>3 DEF Particionado, Tila
<1>5. r # p
  BY <1>4
<1>6. p.pos + p.tam <= r.pos \/ r.pos + r.tam <= p.pos
  BY <1>5 DEF Particionado, Tila
<1>7. r.pos = p.pos + p.tam
  BY <1>4, <1>6
<1>8. q.pos <= r.pos
  BY <1>7
<1>9. QED
  BY <1>1, <1>2, <1>7, <1>8

------------------------------------------------------------------------------
(* What each operation on the partitions preserves. *)

\* The variables that only a typing is known of after a step on the partitions.
TipoMemoria ==
  /\ particiones \subseteq Particion
  /\ memoria \in [Bytes -> (Nat \cup {NoId}) \X Nat]
  /\ colaMensajesMemoria \in Seq(Nat)
  /\ CONTADORLRU \in Nat

MemoriaInv == TipoMemoria /\ TamanioAcotado /\ Particionado /\ ContenidoIntegro

\* Storing a message splits one free partition and writes inside its part of it.
LEMMA AlmacenarPreserva ==
  ASSUME IInv, pc # "libre", NEW p \in Elegibles(mensaje.tam), Almacenar(p)
  PROVE  MemoriaInv'
<1> USE ConfigAssumption DEF Bytes, Particion, NoId
<1> DEFINE t == mensaje.tam
           n == Reserva(t)
           N == {Cargada(p)} \cup Contigua(p)
<1>a. p \in particiones /\ p.libre /\ n <= p.tam
  BY DEF Elegibles, PrimeraLibre, MejorLibre, Candidatas
<1>b. t \in 1..TAMANO_MEMORIA /\ mensaje.id \in Nat /\ CONTADORLRU \in Nat
  BY DEF IInv, TypeOK, MensajeValido
<1>c. t <= n /\ n \in Nat \ {0}
  BY <1>b DEF Reserva
<1>d. p \in Particion /\ p.pos + p.tam <= TAMANO_MEMORIA
  BY <1>a DEF IInv, TypeOK, Particionado, Tila
<1>0. /\ p \in particiones /\ p \in Particion /\ p.libre
      /\ t \in 1..TAMANO_MEMORIA /\ mensaje.id \in Nat
      /\ t <= n /\ n <= p.tam /\ n \in Nat \ {0}
      /\ p.pos + p.tam <= TAMANO_MEMORIA
      /\ CONTADORLRU \in Nat
  BY <1>a, <1>b, <1>c, <1>d
<1>c1. /\ Cargada(p) \in Particion /\ ~Cargada(p).libre
       /\ Cargada(p).pos = p.pos /\ Cargada(p).tam = n /\ Cargada(p).tamMsg = t
       /\ Cargada(p).id = mensaje.id
  BY <1>0 DEF Cargada
<1>c2. ASSUME NEW m \in Contigua(p)
       PROVE  /\ m \in Particion /\ m.libre /\ m.tamMsg = 0
              /\ m.pos = p.pos + n /\ m.tam = p.tam - n /\ m = Resto(p)
  <2>1. m = Resto(p) /\ n < p.tam
    BY DEF Contigua
  <2>2. QED
    BY <1>0, <2>1 DEF Resto
<1>c3. n < p.tam => Resto(p) \in Contigua(p)
  BY DEF Contigua
<1>1. N \subseteq Particion
  BY <1>c1, <1>c2
<1>2. particiones' = (particiones \ {p}) \cup N
  BY DEF Almacenar
<1>3. particiones' \subseteq Particion
  BY <1>1, <1>2 DEF IInv, TypeOK
<1>4. Tila((particiones \ {p}) \cup N)
  <2> DEFINE x == p.pos
             y == p.pos + p.tam
  <2>1. \A r \in particiones \ {p} : r.pos + r.tam <= x \/ y <= r.pos
    BY <1>0 DEF IInv, Particionado, Tila
  <2>2. \A m \in N : x <= m.pos /\ m.pos + m.tam <= y
    BY <1>0, <1>c1, <1>c2
  <2>3. \A m, l \in N : m # l => m.pos + m.tam <= l.pos \/ l.pos + l.tam <= m.pos
    BY <1>0, <1>c1, <1>c2
  <2>4. \A b \in Bytes : x <= b /\ b < y => \E m \in N : m.pos <= b /\ b < m.pos + m.tam
    <3> SUFFICES ASSUME NEW b \in Bytes, x <= b, b < y
                 PROVE  \E m \in N : m.pos <= b /\ b < m.pos + m.tam
      OBVIOUS
    <3>1. CASE b < x + n
      BY <1>0, <1>c1, <3>1
    <3>2. CASE x + n <= b
      BY <1>0, <1>c2, <1>c3, <3>2
    <3>3. QED
      BY <1>0, <3>1, <3>2
  <2>5. x \in Nat /\ y \in Nat /\ y <= TAMANO_MEMORIA
    BY <1>0
  <2>6. \A o \in {p} : x <= o.pos /\ o.pos + o.tam <= y
    BY <1>0
  <2>7. particiones \subseteq Particion /\ {p} \subseteq particiones /\ Tila(particiones)
    BY <1>0 DEF IInv, TypeOK, Particionado
  <2> HIDE DEF N, x, y
  <2>8. QED
    BY <1>1, <2>1, <2>2, <2>3, <2>4, <2>5, <2>6, <2>7, Retila
<1>5. Particionado'
  BY <1>2, <1>4 DEF Particionado, Tila
<1>6. TamanioAcotado'
  BY <1>0, <1>2, <1>c1, <1>c2 DEF TamanioAcotado, IInv
<1>7. /\ memoria' \in [Bytes -> (Nat \cup {NoId}) \X Nat]
      /\ colaMensajesMemoria' \in Seq(Nat)
      /\ CONTADORLRU' \in Nat
  <2>1. ASSUME NEW b \in Bytes, p.pos <= b, b < p.pos + t
        PROVE  b - p.pos \in Nat /\ <<mensaje.id, b - p.pos>> \in (Nat \cup {NoId}) \X Nat
    BY <1>0, <2>1
  <2>2. ASSUME NEW b \in Bytes
        PROVE  memoria[b] \in (Nat \cup {NoId}) \X Nat
    BY DEF IInv, TypeOK
  <2>3. memoria' = Copiar(p.pos)
    BY DEF Almacenar
  <2>4. memoria' \in [Bytes -> (Nat \cup {NoId}) \X Nat]
    BY <2>1, <2>2, <2>3 DEF Copiar
  <2>5. colaMensajesMemoria' \in Seq(Nat) /\ CONTADORLRU' \in Nat
    BY <1>0 DEF Almacenar, IInv, TypeOK
  <2>6. QED
    BY <2>4, <2>5
<1>8. ContenidoIntegro'
  <2> SUFFICES ASSUME NEW r \in particiones', ~r.libre
               PROVE  /\ r.tamMsg \in 1..r.tam
                      /\ \A k \in 0 .. r.tamMsg - 1 : memoria'[r.pos + k] = <<r.id, k>>
    BY DEF ContenidoIntegro, Ocupadas
  <2>1. CASE r = Cargada(p)
    <3>1. \A k \in 0 .. t - 1 : p.pos + k \in Bytes /\ p.pos + k - p.pos = k
      BY <1>0
    <3>2. ASSUME NEW k \in 0 .. t - 1
          PROVE  memoria'[p.pos + k] = <<mensaje.id, k>>
      <4>1. PICK b \in Bytes : b = p.pos + k
        BY <3>1
      <4>2. p.pos <= b /\ b < p.pos + t /\ b - p.pos = k
        BY <1>0, <4>1
      <4>3. memoria' = Copiar(p.pos)
        BY DEF Almacenar
      <4>4. memoria'[b] = <<mensaje.id, b - p.pos>>
        BY <4>2, <4>3 DEF Copiar
      <4>5. QED
        BY <4>1, <4>2, <4>4
    <3>3. QED
      BY <1>0, <1>c1, <2>1, <3>2
  <2>2. CASE r # Cargada(p)
    <3>1. r \in particiones /\ r # p /\ r \in Ocupadas
      BY <1>2, <1>c2, <2>2 DEF Ocupadas
    <3>2. /\ r.tamMsg \in 1..r.tam
          /\ \A k \in 0 .. r.tamMsg - 1 : memoria[r.pos + k] = <<r.id, k>>
      BY <3>1 DEF IInv, ContenidoIntegro
    <3>3. r.pos + r.tam <= p.pos \/ p.pos + p.tam <= r.pos
      BY <1>0, <3>1 DEF IInv, Particionado, Tila
    <3>4. r \in Particion /\ r.pos + r.tam <= TAMANO_MEMORIA
      BY <3>1 DEF IInv, TypeOK, Particionado, Tila
    <3>5. ASSUME NEW k \in 0 .. r.tamMsg - 1
          PROVE  memoria'[r.pos + k] = memoria[r.pos + k]
      <4>1. r.pos + k \in Bytes
        BY <3>2, <3>4
      <4>2. ~(p.pos <= r.pos + k /\ r.pos + k < p.pos + t)
        BY <1>0, <3>2, <3>3, <3>4
      <4>3. QED
        BY <4>1, <4>2 DEF Almacenar, Copiar
    <3>6. QED
      BY <3>2, <3>5
  <2>3. QED
    BY <2>1, <2>2
<1>9. QED
  BY <1>3, <1>5, <1>6, <1>7, <1>8 DEF MemoriaInv, TipoMemoria

\* Evicting changes no position, size or byte.
LEMMA EliminarPreserva ==
  ASSUME IInv, NEW id \in Nat, Eliminar(id), UNCHANGED <<memoria, CONTADORLRU>>
  PROVE  MemoriaInv'
<1> USE ConfigAssumption DEF Bytes, Particion, NoId
<1> DEFINE f(p) == CambiarALibre(p, id)
<1>1. particiones' = {f(p) : p \in particiones}
  BY DEF Eliminar
<1>2. ASSUME NEW p \in particiones
      PROVE  /\ p \in Particion /\ f(p) \in Particion
             /\ f(p).pos = p.pos /\ f(p).tam = p.tam /\ f(p).tamMsg = p.tamMsg
             /\ f(p).id = p.id
             /\ ~f(p).libre => ~p.libre
  BY DEF IInv, TypeOK, CambiarALibre
<1>3. ASSUME NEW r \in particiones'
      PROVE  \E p \in particiones : r = f(p)
  BY <1>1
<1>4. colaMensajesMemoria' \in Seq(Nat)
  <2>1. colaMensajesMemoria \in Seq(Nat)
    BY DEF IInv, TypeOK
  <2>2. \/ colaMensajesMemoria # <<>> /\ colaMensajesMemoria' = Tail(colaMensajesMemoria)
        \/ colaMensajesMemoria' = colaMensajesMemoria
    BY DEF Eliminar, Victima
  <2>3. QED
    BY <2>1, <2>2
<1>5. TipoMemoria'
  BY <1>2, <1>3, <1>4 DEF TipoMemoria, IInv, TypeOK
<1> HIDE DEF f
<1>6. TamanioAcotado'
  BY <1>2, <1>3 DEF TamanioAcotado, IInv
<1>7. Particionado'
  <2>1. \A r \in particiones' : r.pos + r.tam <= TAMANO_MEMORIA
    BY <1>2, <1>3 DEF IInv, Particionado, Tila
  <2>2. \A r, s \in particiones' : r # s => r.pos + r.tam <= s.pos \/ s.pos + s.tam <= r.pos
    <3> SUFFICES ASSUME NEW r \in particiones', NEW s \in particiones', r # s
                 PROVE  r.pos + r.tam <= s.pos \/ s.pos + s.tam <= r.pos
      OBVIOUS
    <3>1. PICK p \in particiones : r = f(p)
      BY <1>3
    <3>2. PICK q \in particiones : s = f(q)
      BY <1>3
    <3>3. p # q
      BY <3>1, <3>2
    <3>4. QED
      BY <1>2, <3>1, <3>2, <3>3 DEF IInv, Particionado, Tila
  <2>3. \A b \in Bytes : \E r \in particiones' : r.pos <= b /\ b < r.pos + r.tam
    <3> SUFFICES ASSUME NEW b \in Bytes
                 PROVE  \E r \in particiones' : r.pos <= b /\ b < r.pos + r.tam
      OBVIOUS
    <3>1. PICK p \in particiones : p.pos <= b /\ b < p.pos + p.tam
      BY DEF IInv, Particionado, Tila
    <3>2. f(p) \in particiones'
      BY <1>1
    <3>3. QED
      BY <1>2, <3>1, <3>2
  <2>4. QED
    BY <2>1, <2>2, <2>3 DEF Particionado, Tila
<1>8. ContenidoIntegro'
  <2> SUFFICES ASSUME NEW r \in particiones', ~r.libre
               PROVE  /\ r.tamMsg \in 1..r.tam
                      /\ \A k \in 0 .. r.tamMsg - 1 : memoria'[r.pos + k] = <<r.id, k>>
    BY DEF ContenidoIntegro, Ocupadas
  <2>1. PICK p \in particiones : r = f(p)
    BY <1>3
  <2>2. p \in Ocupadas
    BY <1>2, <2>1 DEF Ocupadas
  <2>3. /\ p.tamMsg \in 1..p.tam
        /\ \A k \in 0 .. p.tamMsg - 1 : memoria[p.pos + k] = <<p.id, k>>
    BY <2>2 DEF ContenidoIntegro, IInv
  <2>4. QED
    BY <1>2, <2>1, <2>3
<1>9. QED
  BY <1>5, <1>6, <1>7, <1>8 DEF MemoriaInv

\* Merging two neighbours covers the same bytes.
LEMMA ConsolidarPreserva ==
  ASSUME IInv, NEW p \in particiones, NEW q \in Siguiente(p.pos),
         particiones' = (particiones \ {p, q}) \cup {Unida(p, q)},
         UNCHANGED <<memoria, colaMensajesMemoria, CONTADORLRU>>
  PROVE  MemoriaInv'
<1> USE ConfigAssumption DEF Bytes, Particion, NoId
<1> DEFINE u == Unida(p, q)
           x == p.pos
           y == p.pos + p.tam + q.tam
<1>1. particiones \subseteq Particion /\ Tila(particiones)
  BY DEF IInv, TypeOK, Particionado
<1>2. q \in particiones /\ q # p /\ q.pos = p.pos + p.tam
  BY <1>1, SiguienteContigua DEF Particionado
<1>3. p \in Particion /\ q \in Particion /\ y <= TAMANO_MEMORIA
  BY <1>1, <1>2 DEF Tila
<1>4. /\ u \in Particion /\ u.libre /\ u.tamMsg = -1
      /\ u.pos = x /\ u.pos + u.tam = y
  BY <1>2, <1>3 DEF Unida
<1>5. Tila((particiones \ {p, q}) \cup {u})
  <2>1. \A r \in particiones \ {p, q} : r.pos + r.tam <= x \/ y <= r.pos
    <3> SUFFICES ASSUME NEW r \in particiones \ {p, q}
                 PROVE  r.pos + r.tam <= x \/ y <= r.pos
      OBVIOUS
    <3>1. r.pos + r.tam <= p.pos \/ p.pos + p.tam <= r.pos
      BY <1>1 DEF Tila
    <3>2. r.pos + r.tam <= q.pos \/ q.pos + q.tam <= r.pos
      BY <1>1, <1>2 DEF Tila
    <3>3. r \in Particion
      BY <1>1
    <3>4. QED
      BY <1>2, <1>3, <3>1, <3>2, <3>3
  <2>2. \A o \in {p, q} : x <= o.pos /\ o.pos + o.tam <= y
    BY <1>2, <1>3
  <2>3. \A n \in {u} : x <= n.pos /\ n.pos + n.tam <= y
    BY <1>3, <1>4
  <2>4. \A b \in Bytes : x <= b /\ b < y => \E n \in {u} : n.pos <= b /\ b < n.pos + n.tam
    BY <1>4
  <2>5. x \in Nat /\ y \in Nat /\ {u} \subseteq Particion /\ {p, q} \subseteq particiones
    BY <1>2, <1>3, <1>4
  <2>6. \A n, m \in {u} : n # m => n.pos + n.tam <= m.pos \/ m.pos + m.tam <= n.pos
    OBVIOUS
  <2> HIDE DEF u, x, y
  <2>7. QED
    BY <1>1, <1>3, <2>1, <2>2, <2>3, <2>4, <2>5, <2>6, Retila
<1>6. TipoMemoria' /\ Particionado' /\ TamanioAcotado'
  <2>1. TipoMemoria'
    BY <1>1, <1>4 DEF TipoMemoria, IInv, TypeOK
  <2>2. Particionado'
    BY <1>5 DEF Particionado, Tila
  <2>3. TamanioAcotado'
    BY <1>1, <1>4 DEF TamanioAcotado, IInv
  <2>4. QED
    BY <2>1, <2>2, <2>3
<1>7. Ocupadas' \subseteq Ocupadas
  BY <1>4 DEF Ocupadas
<1>8. ContenidoIntegro'
  BY <1>7 DEF ContenidoIntegro, IInv
<1>9. QED
  BY <1>6, <1>8 DEF MemoriaInv

\* Moving a partition down over the free one before it carries its bytes along and
\* touches nobody else's.
LEMMA MoverPreserva ==
  ASSUME IInv, NEW p \in particiones, NEW q \in Siguiente(p.pos), p.libre,
         particiones' = (particiones \ {p, q})
                          \cup {[q EXCEPT !.pos = p.pos], [p EXCEPT !.pos = p.pos + q.tam]},
         memoria' = Mover(p.pos, q.pos, q.tamMsg),
         UNCHANGED <<colaMensajesMemoria, CONTADORLRU>>
  PROVE  MemoriaInv'
<1> USE ConfigAssumption DEF Bytes, Particion, NoId
<1> DEFINE a == [q EXCEPT !.pos = p.pos]
           l == [p EXCEPT !.pos = p.pos + q.tam]
           x == p.pos
           y == p.pos + p.tam + q.tam
<1>1. particiones \subseteq Particion /\ Tila(particiones)
  BY DEF IInv, TypeOK, Particionado
<1>2. q \in particiones /\ q # p /\ q.pos = p.pos + p.tam
  BY <1>1, SiguienteContigua DEF Particionado
<1>3. p \in Particion /\ q \in Particion /\ y <= TAMANO_MEMORIA /\ q.tamMsg <= q.tam
  BY <1>1, <1>2 DEF Tila, IInv, TamanioAcotado
<1>4. /\ a \in Particion /\ a.pos = x /\ a.tam = q.tam /\ a.tamMsg = q.tamMsg
      /\ a.libre = q.libre /\ a.id = q.id
  BY <1>2, <1>3
<1>5. /\ l \in Particion /\ l.pos = x + q.tam /\ l.tam = p.tam /\ l.tamMsg = p.tamMsg
      /\ l.libre
  BY <1>2, <1>3
<1>6. \A r \in particiones \ {p, q} : r.pos + r.tam <= x \/ y <= r.pos
  <2> SUFFICES ASSUME NEW r \in particiones \ {p, q}
               PROVE  r.pos + r.tam <= x \/ y <= r.pos
    OBVIOUS
  <2>1. r.pos + r.tam <= p.pos \/ p.pos + p.tam <= r.pos
    BY <1>1 DEF Tila
  <2>2. r.pos + r.tam <= q.pos \/ q.pos + q.tam <= r.pos
    BY <1>1, <1>2 DEF Tila
  <2>3. r \in Particion
    BY <1>1
  <2>4. QED
    BY <1>2, <1>3, <2>1, <2>2, <2>3
<1>x. x \in Nat /\ y \in Nat /\ y = x + q.tam + p.tam
  BY <1>3
<1>7. Tila((particiones \ {p, q}) \cup {a, l})
  <2>1. \A o \in {p, q} : x <= o.pos /\ o.pos + o.tam <= y
    BY <1>2, <1>3
  <2>2. \A n \in {a, l} : x <= n.pos /\ n.pos + n.tam <= y
    BY <1>3, <1>4, <1>5
  <2>3. \A n, m \in {a, l} : n # m => n.pos + n.tam <= m.pos \/ m.pos + m.tam <= n.pos
    BY <1>3, <1>4, <1>5
  <2>4. ASSUME NEW b \in Bytes, x <= b, b < y
        PROVE  \E n \in {a, l} : n.pos <= b /\ b < n.pos + n.tam
    <3>1. CASE b < x + q.tam
      BY <1>4, <2>4, <3>1
    <3>2. CASE x + q.tam <= b
      BY <1>3, <1>5, <1>x, <2>4, <3>2
    <3>3. QED
      BY <1>3, <1>x, <3>1, <3>2
  <2>5. {a, l} \subseteq Particion /\ {p, q} \subseteq particiones
    BY <1>2, <1>4, <1>5
  <2> HIDE DEF a, l, x, y
  <2>6. QED
    BY <1>1, <1>3, <1>6, <1>x, <2>1, <2>2, <2>3, <2>4, <2>5, Retila
<1>8. particiones' = (particiones \ {p, q}) \cup {a, l}
  OBVIOUS
<1> HIDE DEF a, l
<1>9. Particionado'
  BY <1>7, <1>8 DEF Particionado, Tila
<1>10. TamanioAcotado'
  BY <1>1, <1>2, <1>4, <1>5, <1>8 DEF TamanioAcotado, IInv
<1>11. \A k \in 0 .. q.tamMsg - 1 : x + k \in Bytes /\ q.pos + k \in Bytes
  BY <1>2, <1>3
<1>12. TipoMemoria'
  <2>1. \A b \in Bytes : memoria[b] \in (Nat \cup {NoId}) \X Nat
    BY DEF IInv, TypeOK
  <2>2. ASSUME NEW b \in Bytes, x <= b, b < x + q.tamMsg
        PROVE  memoria[q.pos + (b - x)] \in (Nat \cup {NoId}) \X Nat
    <3>1. q.pos + (b - x) \in Bytes
      BY <1>2, <1>3, <2>2
    <3>2. QED
      BY <2>1, <3>1
  <2>3. memoria' \in [Bytes -> (Nat \cup {NoId}) \X Nat]
    BY <2>1, <2>2 DEF Mover
  <2>4. particiones' \subseteq Particion
    BY <1>1, <1>4, <1>5, <1>8
  <2>5. QED
    BY <2>3, <2>4 DEF TipoMemoria, IInv, TypeOK
<1>13. ContenidoIntegro'
  <2> SUFFICES ASSUME NEW r \in particiones', ~r.libre
               PROVE  /\ r.tamMsg \in 1..r.tam
                      /\ \A k \in 0 .. r.tamMsg - 1 : memoria'[r.pos + k] = <<r.id, k>>
    BY DEF ContenidoIntegro, Ocupadas
  <2>1. CASE r = a
    <3>1. /\ q.tamMsg \in 1..q.tam
          /\ \A k \in 0 .. q.tamMsg - 1 : memoria[q.pos + k] = <<q.id, k>>
      BY <1>2, <1>4, <2>1 DEF IInv, ContenidoIntegro, Ocupadas
    <3>2. ASSUME NEW k \in 0 .. q.tamMsg - 1
          PROVE  memoria'[x + k] = memoria[q.pos + k]
      <4>1. PICK b \in Bytes : b = x + k
        BY <1>11
      <4>2. x <= b /\ b < x + q.tamMsg /\ q.pos + (b - x) = q.pos + k
        BY <1>2, <1>3, <3>1, <4>1
      <4>3. memoria'[b] = memoria[q.pos + (b - x)]
        BY <4>2 DEF Mover
      <4>4. QED
        BY <4>1, <4>2, <4>3
    <3>3. QED
      BY <1>4, <2>1, <3>1, <3>2
  <2>2. CASE r # a
    <3>1. r \in particiones \ {p, q} /\ r \in Ocupadas
      BY <1>5, <1>8, <2>2 DEF Ocupadas
    <3>2. /\ r.tamMsg \in 1..r.tam
          /\ \A k \in 0 .. r.tamMsg - 1 : memoria[r.pos + k] = <<r.id, k>>
      BY <3>1 DEF IInv, ContenidoIntegro
    <3>3. r \in Particion /\ r.pos + r.tam <= TAMANO_MEMORIA
      BY <1>1, <3>1 DEF Tila
    <3>4. ASSUME NEW k \in 0 .. r.tamMsg - 1
          PROVE  memoria'[r.pos + k] = memoria[r.pos + k]
      <4>1. PICK b \in Bytes : b = r.pos + k
        BY <3>2, <3>3
      <4>2. b < x \/ y <= b
        BY <1>6, <3>1, <3>2, <3>3, <4>1, <1>x
      <4>3. ~(x <= b /\ b < x + q.tamMsg)
        BY <1>3, <1>x, <4>2
      <4>4. memoria'[b] = memoria[b]
        BY <4>3 DEF Mover
      <4>5. QED
        BY <4>1, <4>4
    <3>5. QED
      BY <3>2, <3>4
  <2>3. QED
    BY <2>1, <2>2
<1>14. QED
  BY <1>9, <1>10, <1>12, <1>13 DEF MemoriaInv

\* Refreshing an LRU mark moves nothing.
LEMMA EnviarPreserva ==
  ASSUME IInv, EnviarUltimo
  PROVE  MemoriaInv'
<1> USE ConfigAssumption DEF Bytes, Particion, NoId
<1>1. PICK p \in Ocupadas :
        particiones' = (particiones \ {p}) \cup {[p EXCEPT !.lru = CONTADORLRU + 1]}
  BY DEF EnviarUltimo
<1> DEFINE m == [p EXCEPT !.lru = CONTADORLRU + 1]
<1>2. p \in particiones /\ p \in Particion /\ CONTADORLRU \in Nat
  BY DEF Ocupadas, IInv, TypeOK
<1>3. /\ m \in Particion /\ m.pos = p.pos /\ m.tam = p.tam /\ m.tamMsg = p.tamMsg
      /\ m.id = p.id /\ m.libre = p.libre
  BY <1>2
<1>4. particiones' = (particiones \ {p}) \cup {m}
  BY <1>1
<1> HIDE DEF m
<1>5. TipoMemoria'
  <2>1. CONTADORLRU' \in Nat /\ memoria' = memoria /\ colaMensajesMemoria' = colaMensajesMemoria
    BY <1>2 DEF EnviarUltimo
  <2>2. particiones' \subseteq Particion
    BY <1>3, <1>4 DEF IInv, TypeOK
  <2>3. QED
    BY <2>1, <2>2 DEF TipoMemoria, IInv, TypeOK
<1>6. TamanioAcotado'
  BY <1>2, <1>3, <1>4 DEF TamanioAcotado, IInv
<1>7. Particionado'
  <2>1. Tila(particiones)
    BY DEF IInv, Particionado
  <2>2. \A r \in particiones' : r.pos + r.tam <= TAMANO_MEMORIA
    BY <1>2, <1>3, <1>4, <2>1 DEF Tila
  <2>3. \A r, s \in particiones' : r # s => r.pos + r.tam <= s.pos \/ s.pos + s.tam <= r.pos
    BY <1>2, <1>3, <1>4, <2>1 DEF Tila
  <2>4. \A b \in Bytes : \E r \in particiones' : r.pos <= b /\ b < r.pos + r.tam
    BY <1>2, <1>3, <1>4, <2>1 DEF Tila
  <2>5. QED
    BY <2>2, <2>3, <2>4 DEF Particionado, Tila
<1>8. ContenidoIntegro'
  BY <1>2, <1>3, <1>4 DEF ContenidoIntegro, Ocupadas, IInv, EnviarUltimo
<1>9. QED
  BY <1>5, <1>6, <1>7, <1>8 DEF MemoriaInv

\* Steps that leave the partitions, the bytes, the FIFO queue and the LRU counter alone.
LEMMA SinCambioPreserva ==
  ASSUME IInv, UNCHANGED <<particiones, memoria, colaMensajesMemoria, CONTADORLRU>>
  PROVE  MemoriaInv'
BY DEF IInv, TypeOK, MemoriaInv, TipoMemoria, TamanioAcotado, Particionado, Tila,
       ContenidoIntegro, Ocupadas

------------------------------------------------------------------------------
(* The control variables. *)

Control ==
  /\ config \in Configuraciones
  /\ queue \subseteq Nat
  /\ porEncolar \subseteq Nat
  /\ ID_INICIAL \in 0..MaxMensajes
  /\ mensaje \in [id : Nat \cup {NoId}, tam : 0..TAMANO_MEMORIA]
  /\ busquedasFallidas \in Nat
  /\ index \in Bytes
  /\ indexCompactar \in Bytes
  /\ retorno \in {"ciclo", "compactar"}
  /\ pc \in {"libre", "buscar", "consolidar", "compactar", "almacenar"}
  /\ MensajeValido

\* The inductive invariant, taken apart before a step and put together after it.
LEMMA PartesDeIInv == /\ IInv => Control
                      /\ MemoriaInv' /\ Control' => IInv'
BY DEF IInv, TypeOK, MemoriaInv, TipoMemoria, Control

LEMMA InicioIInv == Init => IInv
<1> SUFFICES ASSUME Init PROVE IInv
  OBVIOUS
<1> USE ConfigAssumption DEF Init, Bytes, NoId
<1>1. TypeOK /\ MensajeValido
  BY DEF TypeOK, MensajeValido, Particion, NoMensaje, Basura
<1>2. TamanioAcotado /\ ContenidoIntegro
  BY DEF TamanioAcotado, ContenidoIntegro, Ocupadas
<1>3. Particionado
  BY DEF Particionado, Tila
<1>4. QED
  BY <1>1, <1>2, <1>3 DEF IInv

\* Where the cursors go there is a partition, so they stay inside the memory.
LEMMA CursorEnMemoria ==
  ASSUME IInv, NEW x, NEW q \in Siguiente(x)
  PROVE  q.pos \in Bytes
BY DEF Siguiente, IInv, TypeOK, Particion

\* Every step of the Broker preserves the inductive invariant.
LEMMA PasoIInv == IInv /\ [Next]_vars => IInv'
<1> SUFFICES ASSUME IInv, [Next]_vars
             PROVE  IInv'
  OBVIOUS
<1> USE ConfigAssumption
<1>0. Control
  BY PartesDeIInv
<1>b. 0 \in Bytes
  BY DEF Bytes
<1>1. ASSUME NEW t \in TamanosMensaje, CachearMensaje(t)
      PROVE  IInv'
  <2>1. MemoriaInv'
    BY <1>1, SinCambioPreserva DEF CachearMensaje
  <2>2. ID_INICIAL \in Nat /\ ID_INICIAL' \in 0..MaxMensajes
    BY <1>0, <1>1 DEF Control, CachearMensaje
  <2>3. t \in 1..TAMANO_MEMORIA
    BY <1>1 DEF CachearMensaje
  <2>4. mensaje' = [id |-> ID_INICIAL, tam |-> t] /\ pc' = "buscar"
    BY <1>1 DEF CachearMensaje
  <2>5. Control'
    BY <1>0, <1>1, <2>2, <2>3, <2>4 DEF CachearMensaje, Control, MensajeValido
  <2>6. QED
    BY <2>1, <2>5, PartesDeIInv
<1>2. ASSUME NEW t \in TamanosMensaje, NoCachear(t)
      PROVE  IInv'
  <2>1. MemoriaInv'
    BY <1>2, SinCambioPreserva DEF NoCachear
  <2>2. Control'
    BY <1>0, <1>2 DEF NoCachear, Control, MensajeValido
  <2>3. QED
    BY <2>1, <2>2, PartesDeIInv
<1>3. ASSUME AlmacenarNormal
      PROVE  IInv'
  <2>1. pc # "libre" /\ \E p \in Elegibles(mensaje.tam) : Almacenar(p)
    BY <1>3 DEF AlmacenarNormal, EnCiclo
  <2>2. MemoriaInv'
    BY <2>1, AlmacenarPreserva
  <2>a. porEncolar' \subseteq Nat /\ pc' = "libre"
    BY <1>0, <1>3, <2>1 DEF AlmacenarNormal, Soltar, Control, MensajeValido
  <2>b. mensaje' \in [id : Nat \cup {NoId}, tam : 0..TAMANO_MEMORIA]
    BY <1>3 DEF AlmacenarNormal, Soltar, NoMensaje
  <2>3. Control'
    BY <1>0, <1>3, <2>a, <2>b DEF AlmacenarNormal, Control, MensajeValido
  <2>4. QED
    BY <2>2, <2>3, PartesDeIInv
<1>4. ASSUME AlmacenarAlternativo
      PROVE  IInv'
  <2>1. pc # "libre" /\ \E p \in Elegibles(mensaje.tam) : Almacenar(p)
    BY <1>4 DEF AlmacenarAlternativo, EnCiclo
  <2>2. MemoriaInv'
    BY <2>1, AlmacenarPreserva
  <2>3. Control'
    BY <1>0, <1>4, <1>b, <2>1 DEF AlmacenarAlternativo, Control, MensajeValido
  <2>4. QED
    BY <2>2, <2>3, PartesDeIInv
<1>5. ASSUME AlmacenarFinal
      PROVE  IInv'
  <2>1. pc # "libre" /\ \E p \in Elegibles(mensaje.tam) : Almacenar(p)
    BY <1>5 DEF AlmacenarFinal
  <2>2. MemoriaInv'
    BY <2>1, AlmacenarPreserva
  <2>a. porEncolar' \subseteq Nat /\ pc' = "libre"
    BY <1>0, <1>5, <2>1 DEF AlmacenarFinal, Soltar, Control, MensajeValido
  <2>b. mensaje' \in [id : Nat \cup {NoId}, tam : 0..TAMANO_MEMORIA]
    BY <1>5 DEF AlmacenarFinal, Soltar, NoMensaje
  <2>3. Control'
    BY <1>0, <1>5, <2>a, <2>b DEF AlmacenarFinal, Control, MensajeValido
  <2>4. QED
    BY <2>2, <2>3, PartesDeIInv
<1>6. ASSUME EliminarParticion
      PROVE  IInv'
  <2>1. PICK id \in 0 .. MaxMensajes - 1 : Eliminar(id)
    BY <1>6 DEF EliminarParticion
  <2>2. MemoriaInv'
    BY <1>6, <2>1, EliminarPreserva DEF EliminarParticion
  <2>3. queue' \subseteq Nat
    BY <1>0, <2>1 DEF Eliminar, Control
  <2>4. busquedasFallidas' \in Nat /\ pc # "libre" /\ mensaje' = mensaje
    BY <1>0, <1>6 DEF EliminarParticion, Control, EnCiclo
  <2>5. Control'
    BY <1>0, <1>6, <1>b, <2>3, <2>4 DEF EliminarParticion, Control, MensajeValido
  <2>6. QED
    BY <2>2, <2>5, PartesDeIInv
<1>7. ASSUME Consolidar
      PROVE  IInv'
  <2>1. PICK p \in particiones, q \in Siguiente(index) :
           p.pos = index /\ particiones' = (particiones \ {p, q}) \cup {Unida(p, q)}
    BY <1>7 DEF Consolidar, SeUnen
  <2>2. MemoriaInv'
    BY <1>7, <2>1, ConsolidarPreserva DEF Consolidar, SeUnen
  <2>3. Control'
    BY <1>0, <1>7 DEF Consolidar, SeUnen, Control, MensajeValido
  <2>4. QED
    BY <2>2, <2>3, PartesDeIInv
<1>8. ASSUME AvanzarConsolidacion
      PROVE  IInv'
  <2>1. MemoriaInv'
    BY <1>8, SinCambioPreserva DEF AvanzarConsolidacion
  <2>2. index' \in Bytes
    BY <1>8, CursorEnMemoria DEF AvanzarConsolidacion
  <2>3. Control'
    BY <1>0, <1>8, <2>2 DEF AvanzarConsolidacion, Control, MensajeValido
  <2>4. QED
    BY <2>1, <2>3, PartesDeIInv
<1>9. ASSUME TerminarConsolidacion
      PROVE  IInv'
  <2>1. MemoriaInv'
    BY <1>9, SinCambioPreserva DEF TerminarConsolidacion
  <2>2. indexCompactar' \in Bytes
    BY <1>0, <1>9, CursorEnMemoria DEF TerminarConsolidacion, Control
  <2>3. Control'
    BY <1>0, <1>9, <2>2 DEF TerminarConsolidacion, Control, MensajeValido
  <2>4. QED
    BY <2>1, <2>3, PartesDeIInv
<1>10. ASSUME CompactarMemoria
       PROVE  IInv'
  <2>1. MemoriaInv'
    BY <1>10, SinCambioPreserva DEF CompactarMemoria
  <2>2. busquedasFallidas' \in Nat
    BY <1>0, <1>10 DEF CompactarMemoria, Control
  <2>3. Control'
    BY <1>0, <1>10, <1>b, <2>2 DEF CompactarMemoria, Control, MensajeValido
  <2>4. QED
    BY <2>1, <2>3, PartesDeIInv
<1>11. ASSUME MoverParticion
       PROVE  IInv'
  <2>1. PICK p \in particiones, q \in Siguiente(indexCompactar) :
          /\ p.pos = indexCompactar /\ p.libre
          /\ particiones' = (particiones \ {p, q})
                              \cup {[q EXCEPT !.pos = p.pos], [p EXCEPT !.pos = p.pos + q.tam]}
          /\ memoria' = Mover(p.pos, q.pos, q.tamMsg)
    BY <1>11 DEF MoverParticion
  <2>2. MemoriaInv'
    BY <1>11, <2>1, MoverPreserva DEF MoverParticion
  <2>3. Control'
    BY <1>0, <1>11, <1>b DEF MoverParticion, Control, MensajeValido
  <2>4. QED
    BY <2>2, <2>3, PartesDeIInv
<1>12. ASSUME AvanzarCompactacion
       PROVE  IInv'
  <2>1. MemoriaInv'
    BY <1>12, SinCambioPreserva DEF AvanzarCompactacion
  <2>2. indexCompactar' \in Bytes
    BY <1>12, CursorEnMemoria DEF AvanzarCompactacion
  <2>3. Control'
    BY <1>0, <1>12, <2>2 DEF AvanzarCompactacion, Control, MensajeValido
  <2>4. QED
    BY <2>1, <2>3, PartesDeIInv
<1>13. ASSUME TerminarCompactacion
       PROVE  IInv'
  <2>1. MemoriaInv'
    BY <1>13, SinCambioPreserva DEF TerminarCompactacion
  <2>2. Control'
    BY <1>0, <1>13 DEF TerminarCompactacion, Control, MensajeValido
  <2>3. QED
    BY <2>1, <2>2, PartesDeIInv
<1>14. ASSUME EnviarUltimo
       PROVE  IInv'
  <2>1. Control'
    BY <1>0, <1>14 DEF EnviarUltimo, Control, MensajeValido
  <2>2. QED
    BY <1>14, <2>1, EnviarPreserva, PartesDeIInv
<1>15. ASSUME NEW id \in porEncolar, AgregarIdCola(id)
       PROVE  IInv'
  <2>1. MemoriaInv'
    BY <1>15, SinCambioPreserva DEF AgregarIdCola
  <2>2. Control'
    BY <1>0, <1>15 DEF AgregarIdCola, Control, MensajeValido
  <2>3. QED
    BY <2>1, <2>2, PartesDeIInv
<1>16. CASE UNCHANGED vars
  <2>1. MemoriaInv'
    BY <1>16, SinCambioPreserva DEF vars
  <2>2. Control'
    BY <1>0, <1>16 DEF vars, Control, MensajeValido
  <2>3. QED
    BY <2>1, <2>2, PartesDeIInv
<1>17. QED
  BY <1>1, <1>2, <1>3, <1>4, <1>5, <1>6, <1>7, <1>8, <1>9, <1>10, <1>11, <1>12, <1>13,
     <1>14, <1>15, <1>16 DEF Next, Ciclo, SinMasMensajes

------------------------------------------------------------------------------
(* The theorems. *)

\* The inductive invariant holds in every reachable state of the partition memory.
THEOREM Invariante == Spec => []IInv
<1>1. IInv /\ [][Next]_vars => []IInv
  BY PasoIInv, PTL
<1>2. QED
  BY InicioIInv, <1>1, PTL DEF Spec

\* Every variable of the partition memory keeps its type, the cursors of the two loops
\* included (ParticionesDinamicas.c:775-870).
THEOREM TiposCorrectos == Spec => []TypeOK
<1>1. IInv => TypeOK
  BY DEF IInv
<1>2. QED
  BY Invariante, <1>1, PTL

\* For every configuration the partitions tile the memory: no overlap, no leak
\* (ParticionesDinamicas.c:673-957).
THEOREM MemoriaParticionada == Spec => []Particionado
<1>1. IInv => Particionado
  BY DEF IInv
<1>2. QED
  BY Invariante, <1>1, PTL

\* For every configuration a cached message keeps its bytes through stores, evictions,
\* merges and compactions (ParticionesDinamicas.c:700, 789-796).
THEOREM MensajesIntegros == Spec => []ContenidoIntegro
<1>1. IInv => ContenidoIntegro
  BY DEF IInv
<1>2. QED
  BY Invariante, <1>1, PTL

------------------------------------------------------------------------------
(****************************************************************************)
(* Proofs about how the loops of Particiones work together: what eviction,  *)
(* consolidation and compaction leave for the next search.                  *)
(*                                                                          *)
(* Geometry.  A pass of consolidarMemoria leaves no two free neighbours     *)
(* behind its cursor, so there are none once it ends (SinContiguas); and    *)
(* compactarMemoria leaves only messages behind its own (Compactadas).      *)
(*                                                                          *)
(* Identifiers.  The FIFO queue names every cached message, and with        *)
(* ejecutarCicloNormal nothing else, each once and in the order of their    *)
(* ids (Encoladas): hence its head is always a victim.  That a failed       *)
(* search leaves somebody to evict follows from the geometry: a memory of   *)
(* free partitions with no two together is one partition, which has room.   *)
(*                                                                          *)
(* Refinement.  In the normal cycle each cached message has an id of its    *)
(* own (Unicas), so a partition is what the abstract cache calls a message: *)
(* a store, an eviction and a publication are its steps, and merges and     *)
(* moves, which change positions alone, are stutters.                       *)
(****************************************************************************)


\* Two free partitions never touch, but ahead of the cursor of consolidarMemoria.
SinContiguas ==
  \A p, q \in particiones :
    p.libre /\ q.libre /\ (pc = "consolidar" => p.pos < index) => q.pos # p.pos + p.tam

\* Behind the cursor of compactarMemoria there are only messages.
Compactadas ==
  /\ pc = "compactar" =>
       \A p \in particiones : p.pos < indexCompactar => ~p.libre
  /\ pc = "consolidar" /\ retorno = "compactar" =>
       \A p \in particiones : p.pos <= indexCompactar => ~p.libre

Geometria == SinContiguas /\ Compactadas

IdsOcupados == {p.id : p \in Ocupadas}

\* Ids below this one have been given before the message being cached.
Limite == IF pc = "libre" THEN ID_INICIAL ELSE mensaje.id

\* What the FIFO queue names.
Encoladas ==
  ALGORITMO_REEMPLAZO = "FIFO" =>
    /\ IdsOcupados \subseteq Elementos(colaMensajesMemoria)
    /\ FRECUENCIA_COMPACTACION # -1 =>
         /\ Elementos(colaMensajesMemoria) \subseteq IdsOcupados
         /\ Creciente(colaMensajesMemoria)
         /\ \A x \in Elementos(colaMensajesMemoria) : x < Limite

Identidad ==
  /\ IdsOcupados \subseteq Nat
  /\ IdsOcupados \subseteq queue \cup porEncolar \cup {mensaje.id}
  /\ pc = "libre" => mensaje = NoMensaje
  /\ pc # "libre" => mensaje.id < ID_INICIAL
  /\ pc = "almacenar" => FRECUENCIA_COMPACTACION = -1
  /\ Encoladas

------------------------------------------------------------------------------
(* The list of partitions. *)

LEMMA CamposParticion ==
  ASSUME NEW p \in Particion
  PROVE  /\ p.pos \in Nat /\ p.tam \in Nat /\ p.tam >= 1 /\ p.pos \in Bytes
         /\ p.libre \in BOOLEAN /\ p.lru \in Int /\ p.lru >= -1
BY ConfigAssumption DEF Particion, Bytes

\* One partition for each position.
LEMMA LugarUnico ==
  ASSUME IInv, NEW p \in particiones, NEW q \in particiones, p.pos = q.pos
  PROVE  p = q
<1>1. p \in Particion /\ q \in Particion
  BY DEF IInv, TypeOK
<1>2. p # q => p.pos + p.tam <= q.pos \/ q.pos + q.tam <= p.pos
  BY DEF IInv, Particionado, Tila
<1>3. QED
  BY <1>1, <1>2, CamposParticion

\* After the last position there is nothing.
LEMMA Ultima ==
  ASSUME IInv, NEW x \in Nat, Siguiente(x) = {}
  PROVE  \A p \in particiones : p.pos <= x
<1> SUFFICES ASSUME NEW p \in particiones, ~(p.pos <= x)
             PROVE  FALSE
  OBVIOUS
<1> DEFINE S == {r.pos : r \in {s \in particiones : s.pos > x}}
<1>1. \A r \in particiones : r.pos \in Nat
  BY CamposParticion DEF IInv, TypeOK
<1>2. S \subseteq Nat
  BY <1>1
<1>3. p.pos \in S
  BY <1>1
<1>4. PICK n \in S : \A m \in S : n <= m
  <2> HIDE DEF S
  <2>1. QED
    BY <1>2, <1>3, Minimo
<1>5. PICK q \in particiones : q.pos = n /\ q.pos > x
  OBVIOUS
<1>6. q \in Siguiente(x)
  BY <1>4, <1>5 DEF Siguiente
<1>7. QED
  BY <1>6

\* Before the next position there is nothing but what is up to this one.
LEMMA HastaLaSiguiente ==
  ASSUME IInv, NEW x \in Nat, NEW q \in Siguiente(x)
  PROVE  /\ q \in particiones /\ q.pos > x
         /\ \A p \in particiones : p.pos < q.pos => p.pos <= x
<1>1. \A r \in particiones : r.pos \in Nat
  BY CamposParticion DEF IInv, TypeOK
<1>2. QED
  BY <1>1 DEF Siguiente

\* Memory whose partitions are all free, no two of them together, is one partition.
LEMMA TodaLibre ==
  ASSUME IInv, SinContiguas, pc # "consolidar", Ocupadas = {}
  PROVE  \E p \in particiones : p.libre /\ p.tam = TAMANO_MEMORIA
<1>1. TAMANO_MEMORIA \in Nat \ {0} /\ 0 \in Bytes
  BY ConfigAssumption DEF Bytes
<1>2. PICK p \in particiones : p.pos <= 0 /\ 0 < p.pos + p.tam
  BY <1>1 DEF IInv, Particionado, Tila
<1>3. /\ p \in Particion /\ p.pos \in Nat /\ p.tam \in Nat /\ p.pos = 0
      /\ p.tam <= TAMANO_MEMORIA
  BY <1>2, CamposParticion DEF IInv, TypeOK, Particionado, Tila
<1>4. \A r \in particiones : r.libre
  BY DEF Ocupadas
<1>5. CASE p.tam < TAMANO_MEMORIA
  <2>1. p.tam \in Bytes
    BY <1>1, <1>3, <1>5 DEF Bytes
  <2>2. PICK q \in particiones : q.pos <= p.tam /\ p.tam < q.pos + q.tam
    BY <2>1 DEF IInv, Particionado, Tila
  <2>3. q # p /\ q \in Particion
    BY <1>3, <2>2 DEF IInv, TypeOK
  <2>4. p.pos + p.tam <= q.pos \/ q.pos + q.tam <= p.pos
    BY <2>3 DEF IInv, Particionado, Tila
  <2>5. q.pos = p.pos + p.tam
    BY <1>3, <2>2, <2>3, <2>4, CamposParticion
  <2>6. QED
    BY <1>4, <2>5 DEF SinContiguas
<1>6. CASE p.tam = TAMANO_MEMORIA
  BY <1>4, <1>6
<1>7. QED
  BY <1>1, <1>3, <1>5, <1>6

------------------------------------------------------------------------------
(* The geometry is inductive. *)

LEMMA InicioGeometria == Init => Geometria
<1> SUFFICES ASSUME Init PROVE Geometria
  OBVIOUS
<1>1. SinContiguas
  BY ConfigAssumption DEF Init, SinContiguas
<1>2. Compactadas
  BY DEF Init, Compactadas
<1>3. QED
  BY <1>1, <1>2 DEF Geometria

\* A store fills the beginning of a free partition, which had no free neighbour.
LEMMA AlmacenarSinContiguas ==
  ASSUME IInv, SinContiguas, pc \notin {"libre", "consolidar"},
         NEW p \in Elegibles(mensaje.tam), Almacenar(p)
  PROVE  \A r, s \in particiones' : r.libre /\ s.libre => s.pos # r.pos + r.tam
<1> DEFINE n == Reserva(mensaje.tam)
<1>1. p \in particiones /\ p.libre /\ n <= p.tam
  BY DEF Elegibles, PrimeraLibre, MejorLibre, Candidatas
<1>2. n \in Nat /\ n >= 1
  BY ConfigAssumption DEF Reserva, IInv, TypeOK, MensajeValido
<1>3. /\ particiones' = ((particiones \ {p}) \cup {Cargada(p)}) \cup Contigua(p)
      /\ ~Cargada(p).libre
      /\ \A c \in Contigua(p) : n < p.tam /\ c.pos = p.pos + n /\ c.tam = p.tam - n
  BY DEF Almacenar, Cargada, Contigua, Resto
<1>4. \A r \in particiones : r \in Particion
  BY DEF IInv, TypeOK
<1>5. p.pos \in Nat /\ p.tam \in Nat
  BY <1>1, <1>4, CamposParticion
<1> HIDE DEF n
<1> SUFFICES ASSUME NEW r \in particiones', NEW s \in particiones', r.libre, s.libre,
                    s.pos = r.pos + r.tam
             PROVE  FALSE
  OBVIOUS
<1>6. CASE r \in particiones \ {p} /\ s \in particiones \ {p}
  BY <1>6 DEF SinContiguas
<1>7. CASE r \in particiones \ {p} /\ s \in Contigua(p)
  <2>1. r.pos + r.tam <= p.pos \/ p.pos + p.tam <= r.pos
    BY <1>1, <1>7 DEF IInv, Particionado, Tila
  <2>2. s.pos = p.pos + n /\ n < p.tam
    BY <1>3, <1>7
  <2>3. r.pos \in Nat /\ r.tam \in Nat
    BY <1>4, <1>7, CamposParticion
  <2>4. QED
    BY <1>2, <1>5, <2>1, <2>2, <2>3
<1>8. CASE r \in Contigua(p) /\ s \in particiones \ {p}
  <2>1. s.pos = p.pos + p.tam
    BY <1>2, <1>3, <1>5, <1>8
  <2>2. QED
    BY <1>1, <1>8, <2>1 DEF SinContiguas
<1>9. CASE r \in Contigua(p) /\ s \in Contigua(p)
  BY <1>2, <1>3, <1>5, <1>9
<1>10. QED
  BY <1>3, <1>6, <1>7, <1>8, <1>9

\* A merge puts nothing free behind the cursors.
LEMMA ConsolidarGeometria ==
  ASSUME IInv, Geometria, Consolidar
  PROVE  Geometria'
<1>1. PICK p \in particiones, q \in Siguiente(index) :
        /\ p.pos = index /\ p.libre /\ q.libre
        /\ particiones' = (particiones \ {p, q}) \cup {Unida(p, q)}
  BY DEF Consolidar, SeUnen
<1>2. /\ pc = "consolidar" /\ pc' = "consolidar"
      /\ UNCHANGED <<index, indexCompactar, retorno>>
  BY DEF Consolidar
<1>3. Unida(p, q).pos = p.pos /\ Unida(p, q).libre
  BY DEF Unida
<1>4. index \in Nat
  BY <1>1, CamposParticion DEF IInv, TypeOK
<1>5. SinContiguas'
  BY <1>1, <1>2, <1>3, <1>4 DEF Geometria, SinContiguas
<1>6. Compactadas'
  BY <1>1, <1>2, <1>3 DEF Geometria, Compactadas
<1>7. QED
  BY <1>5, <1>6 DEF Geometria

LEMMA AvanzarConsolidacionGeometria ==
  ASSUME IInv, Geometria, AvanzarConsolidacion
  PROVE  Geometria'
<1>1. PICK p \in particiones, q \in Siguiente(index) :
        p.pos = index /\ ~(p.libre /\ q.libre) /\ index' = q.pos
  BY DEF AvanzarConsolidacion, SeUnen
<1>2. /\ pc = "consolidar" /\ pc' = "consolidar"
      /\ UNCHANGED <<particiones, indexCompactar, retorno>>
  BY DEF AvanzarConsolidacion
<1>3. index \in Nat
  BY <1>1, CamposParticion DEF IInv, TypeOK
<1>4. /\ q \in particiones /\ q.pos = p.pos + p.tam
      /\ \A r \in particiones : r.pos < q.pos => r.pos <= index
  BY <1>1, <1>3, HastaLaSiguiente, SiguienteContigua DEF IInv, TypeOK
<1>5. SinContiguas'
  <2> SUFFICES ASSUME NEW r \in particiones, NEW s \in particiones, r.libre, s.libre,
                      r.pos < q.pos, s.pos = r.pos + r.tam
               PROVE  FALSE
    BY <1>1, <1>2 DEF SinContiguas
  <2>1. r.pos \in Nat /\ r.pos <= index
    BY <1>4, CamposParticion DEF IInv, TypeOK
  <2>2. CASE r.pos = index
    <3>1. r = p
      BY <1>1, <2>2, LugarUnico
    <3>2. s = q
      BY <1>4, <3>1, LugarUnico
    <3>3. QED
      BY <1>1, <3>1, <3>2
  <2>3. CASE r.pos < index
    BY <2>3 DEF Geometria, SinContiguas
  <2>4. QED
    BY <1>3, <2>1, <2>2, <2>3
<1>6. Compactadas'
  BY <1>2 DEF Geometria, Compactadas
<1>7. QED
  BY <1>5, <1>6 DEF Geometria

\* At the end of the pass there is nothing ahead of the cursor.
LEMMA TerminarConsolidacionGeometria ==
  ASSUME IInv, Geometria, TerminarConsolidacion
  PROVE  Geometria'
<1>1. /\ pc = "consolidar" /\ pc' \in {"buscar", "compactar"} /\ Siguiente(index) = {}
      /\ UNCHANGED <<particiones, index, retorno>>
  BY DEF TerminarConsolidacion
<1>2. index \in Nat /\ indexCompactar \in Nat
  BY ConfigAssumption DEF IInv, TypeOK, Bytes
<1>3. \A r \in particiones : r.pos <= index /\ r.pos \in Nat /\ r.tam \in Nat /\ r.tam >= 1
  BY <1>1, <1>2, Ultima, CamposParticion DEF IInv, TypeOK
<1>4. SinContiguas'
  <2> SUFFICES ASSUME NEW r \in particiones, NEW s \in particiones, r.libre, s.libre,
                      s.pos = r.pos + r.tam
               PROVE  FALSE
    BY <1>1 DEF SinContiguas
  <2>1. r.pos < index
    BY <1>2, <1>3
  <2>2. QED
    BY <2>1 DEF Geometria, SinContiguas
<1>5. Compactadas'
  <2>1. CASE pc' = "buscar"
    BY <2>1 DEF Compactadas
  <2>2. CASE pc' = "compactar"
    <3>1. retorno = "compactar" /\ \E q \in Siguiente(indexCompactar) : indexCompactar' = q.pos
      BY <2>2 DEF TerminarConsolidacion
    <3>2. \A r \in particiones : r.pos < indexCompactar' => r.pos <= indexCompactar
      BY <1>2, <3>1, HastaLaSiguiente
    <3>3. QED
      BY <1>1, <2>2, <3>1, <3>2 DEF Geometria, Compactadas
  <2>3. QED
    BY <1>1, <2>1, <2>2
<1>6. QED
  BY <1>4, <1>5 DEF Geometria

\* A move puts a message where compactarMemoria is: the next partition is not free too.
LEMMA MoverGeometria ==
  ASSUME IInv, Geometria, MoverParticion
  PROVE  Geometria'
<1>1. PICK p \in particiones, q \in Siguiente(indexCompactar) :
        /\ p.pos = indexCompactar /\ p.libre
        /\ particiones' = (particiones \ {p, q})
                            \cup {[q EXCEPT !.pos = p.pos], [p EXCEPT !.pos = p.pos + q.tam]}
  BY DEF MoverParticion
<1>2. /\ pc = "compactar" /\ pc' = "consolidar" /\ index' = 0 /\ retorno' = "compactar"
      /\ UNCHANGED indexCompactar
  BY DEF MoverParticion
<1>3. indexCompactar \in Nat
  BY <1>1, CamposParticion DEF IInv, TypeOK
<1>4. /\ q \in particiones /\ q.pos = p.pos + p.tam /\ ~q.libre
      /\ \A r \in particiones : r.pos < q.pos => r.pos <= indexCompactar
  <2>1. q \in particiones /\ q.pos = p.pos + p.tam
    BY <1>1, SiguienteContigua DEF IInv, TypeOK
  <2>2. ~q.libre
    BY <1>1, <1>2, <2>1 DEF Geometria, SinContiguas
  <2>3. QED
    BY <1>1, <1>3, <2>1, <2>2, HastaLaSiguiente
<1>5. p \in Particion /\ q \in Particion
  BY <1>4 DEF IInv, TypeOK
<1> DEFINE a == [q EXCEPT !.pos = p.pos]
           l == [p EXCEPT !.pos = p.pos + q.tam]
<1>6. a \in Particion /\ l \in Particion /\ ~a.libre /\ l.pos = p.pos + q.tam /\ l.libre
  <2>1. a.pos = p.pos /\ a.libre = q.libre /\ a \in Particion
    BY <1>5 DEF Particion
  <2>2. l.pos = p.pos + q.tam /\ l.libre = p.libre
    BY <1>5 DEF Particion
  <2>3. p.pos \in Nat /\ q.tam \in Nat /\ p.tam \in Nat /\ p.tam >= 1
    BY <1>5, CamposParticion
  <2>4. q.pos + q.tam <= TAMANO_MEMORIA
    BY <1>4 DEF IInv, Particionado, Tila
  <2>5. p.pos + q.tam \in Bytes
    BY <1>4, <2>3, <2>4, ConfigAssumption DEF Bytes
  <2>6. l \in Particion
    BY <1>5, <2>5 DEF Particion
  <2>7. QED
    BY <1>1, <1>4, <2>1, <2>2, <2>6
<1>7. particiones' = (particiones \ {p, q}) \cup {a, l}
  BY <1>1
<1> HIDE DEF a, l
<1>8. SinContiguas'
  <2>1. \A r \in particiones' : r \in Particion
    BY <1>6, <1>7 DEF IInv, TypeOK
  <2>2. \A r \in particiones' : r.pos \in Nat
    BY <2>1, CamposParticion
  <2>3. QED
    BY <1>2, <2>2 DEF SinContiguas
<1>9. Compactadas'
  <2> SUFFICES ASSUME NEW r \in particiones', r.pos <= indexCompactar
               PROVE  ~r.libre
    BY <1>2 DEF Compactadas
  <2>1. CASE r = a
    BY <1>6, <2>1
  <2>2. CASE r = l
    <3>1. q.tam \in Nat /\ q.tam >= 1
      BY <1>5, CamposParticion
    <3>2. QED
      BY <1>1, <1>3, <1>6, <2>2, <3>1
  <2>3. CASE r \in particiones \ {p, q}
    <3>1. r.pos \in Nat /\ r.pos # indexCompactar
      BY <1>1, <2>3, LugarUnico, CamposParticion DEF IInv, TypeOK
    <3>2. r.pos < indexCompactar
      BY <1>3, <3>1
    <3>3. QED
      BY <1>2, <2>3, <3>2 DEF Geometria, Compactadas
  <2>4. QED
    BY <1>7, <2>1, <2>2, <2>3
<1>10. QED
  BY <1>8, <1>9 DEF Geometria

LEMMA AvanzarCompactacionGeometria ==
  ASSUME IInv, Geometria, AvanzarCompactacion
  PROVE  Geometria'
<1>1. PICK p \in particiones, q \in Siguiente(indexCompactar) :
        p.pos = indexCompactar /\ ~p.libre /\ indexCompactar' = q.pos
  BY DEF AvanzarCompactacion
<1>2. /\ pc = "compactar" /\ pc' = "compactar" /\ UNCHANGED <<particiones, index, retorno>>
  BY DEF AvanzarCompactacion
<1>3. indexCompactar \in Nat
  BY <1>1, CamposParticion DEF IInv, TypeOK
<1>4. ASSUME NEW r \in particiones, r.pos < q.pos
      PROVE  ~r.libre
  <2>1. r.pos <= indexCompactar /\ r.pos \in Nat
    BY <1>3, <1>4, HastaLaSiguiente, CamposParticion DEF IInv, TypeOK
  <2>2. CASE r.pos = indexCompactar
    BY <1>1, <2>2, LugarUnico
  <2>3. CASE r.pos < indexCompactar
    BY <1>2, <2>3 DEF Geometria, Compactadas
  <2>4. QED
    BY <1>3, <2>1, <2>2, <2>3
<1>5. Compactadas'
  BY <1>1, <1>2, <1>4 DEF Compactadas
<1>6. SinContiguas'
  BY <1>2 DEF Geometria, SinContiguas
<1>7. QED
  BY <1>5, <1>6 DEF Geometria

\* A step that stores, sorts nothing out or starts a loop: no two free partitions touch
\* after it unless consolidarMemoria starts, and no cursor has moved past anything.
LEMMA OtrosGeometria ==
  ASSUME IInv', pc' = "consolidar" => index' = 0 /\ retorno' = "ciclo",
         pc' = "compactar" => indexCompactar' = 0,
         pc' # "consolidar" => \A r, s \in particiones' : r.libre /\ s.libre => s.pos # r.pos + r.tam
  PROVE  Geometria'
<1>1. \A r \in particiones' : r.pos \in Nat
  BY CamposParticion DEF IInv, TypeOK
<1>2. SinContiguas'
  BY <1>1 DEF SinContiguas
<1>3. Compactadas'
  BY <1>1 DEF Compactadas
<1>4. QED
  BY <1>2, <1>3 DEF Geometria

LEMMA EnviarSinContiguas ==
  ASSUME IInv, SinContiguas, EnviarUltimo
  PROVE  \A r, s \in particiones' : r.libre /\ s.libre => s.pos # r.pos + r.tam
<1>1. PICK p \in Ocupadas :
        particiones' = (particiones \ {p}) \cup {[p EXCEPT !.lru = CONTADORLRU + 1]}
  BY DEF EnviarUltimo
<1>2. p \in Particion /\ ~p.libre /\ pc = "libre"
  BY DEF Ocupadas, IInv, TypeOK, EnviarUltimo
<1>3. ~[p EXCEPT !.lru = CONTADORLRU + 1].libre
  BY <1>2 DEF Particion
<1>4. QED
  BY <1>1, <1>2, <1>3 DEF SinContiguas

LEMMA PasoGeometria == IInv /\ Geometria /\ [Next]_vars => Geometria'
<1> SUFFICES ASSUME IInv, Geometria, [Next]_vars
             PROVE  Geometria'
  OBVIOUS
<1>0. IInv'
  BY PasoIInv
<1>a. ASSUME UNCHANGED particiones, pc \notin {"consolidar", "compactar"},
             pc' = "consolidar" => index' = 0 /\ retorno' = "ciclo",
             pc' = "compactar" => indexCompactar' = 0
      PROVE  Geometria'
  <2>1. \A r, s \in particiones' : r.libre /\ s.libre => s.pos # r.pos + r.tam
    BY <1>a DEF Geometria, SinContiguas
  <2>2. QED
    BY <1>0, <1>a, <2>1, OtrosGeometria
<1>b. ASSUME NEW p \in Elegibles(mensaje.tam), Almacenar(p), pc \in {"buscar", "almacenar"},
             pc' # "consolidar", pc' = "compactar" => indexCompactar' = 0
      PROVE  Geometria'
  <2>1. \A r, s \in particiones' : r.libre /\ s.libre => s.pos # r.pos + r.tam
    BY <1>b, AlmacenarSinContiguas DEF Geometria
  <2>2. QED
    BY <1>0, <1>b, <2>1, OtrosGeometria
<1>1. ASSUME NEW t \in TamanosMensaje, CachearMensaje(t) \/ NoCachear(t)
      PROVE  Geometria'
  BY <1>1, <1>a DEF CachearMensaje, NoCachear
<1>2. ASSUME AlmacenarNormal \/ AlmacenarAlternativo \/ AlmacenarFinal
      PROVE  Geometria'
  <2>1. PICK p \in Elegibles(mensaje.tam) : Almacenar(p)
    BY <1>2 DEF AlmacenarNormal, AlmacenarAlternativo, AlmacenarFinal
  <2>2. /\ pc \in {"buscar", "almacenar"} /\ pc' # "consolidar"
        /\ pc' = "compactar" => indexCompactar' = 0
    BY <1>2 DEF AlmacenarNormal, AlmacenarAlternativo, AlmacenarFinal, EnCiclo, Soltar
  <2>3. QED
    BY <1>b, <2>1, <2>2
<1>3. ASSUME EliminarParticion
      PROVE  Geometria'
  <2>1. pc' = "consolidar" /\ index' = 0 /\ retorno' = "ciclo"
    BY <1>3 DEF EliminarParticion
  <2>2. QED
    BY <1>0, <2>1, OtrosGeometria
<1>4. ASSUME CompactarMemoria
      PROVE  Geometria'
  BY <1>4, <1>a DEF CompactarMemoria
<1>5. ASSUME TerminarCompactacion
      PROVE  Geometria'
  <2>1. pc = "compactar" /\ pc' \in {"almacenar", "buscar"} /\ UNCHANGED particiones
    BY <1>5 DEF TerminarCompactacion
  <2>2. \A r, s \in particiones' : r.libre /\ s.libre => s.pos # r.pos + r.tam
    BY <2>1 DEF Geometria, SinContiguas
  <2>3. QED
    BY <1>0, <2>1, <2>2, OtrosGeometria
<1>6. ASSUME EnviarUltimo
      PROVE  Geometria'
  <2>1. pc' = "libre"
    BY <1>6 DEF EnviarUltimo
  <2>2. QED
    BY <1>0, <1>6, <2>1, EnviarSinContiguas, OtrosGeometria DEF Geometria
<1>7. ASSUME NEW id \in porEncolar, AgregarIdCola(id)
      PROVE  Geometria'
  BY <1>7 DEF AgregarIdCola, Geometria, SinContiguas, Compactadas
<1>8. CASE UNCHANGED vars
  BY <1>8 DEF vars, Geometria, SinContiguas, Compactadas
<1>9. ASSUME Ciclo
      PROVE  Geometria'
  BY <1>2, <1>3, <1>4, <1>5, <1>9, ConsolidarGeometria, AvanzarConsolidacionGeometria,
     TerminarConsolidacionGeometria, MoverGeometria, AvanzarCompactacionGeometria DEF Ciclo
<1>10. QED
  BY <1>1, <1>6, <1>7, <1>8, <1>9 DEF Next, SinMasMensajes

------------------------------------------------------------------------------
(* The identifiers are inductive. *)

\* What each operation does to the ids that occupy memory.
LEMMA AlmacenarIds ==
  ASSUME IInv, pc # "libre", NEW p \in Elegibles(mensaje.tam), Almacenar(p)
  PROVE  IdsOcupados' = IdsOcupados \cup {mensaje.id}
<1>1. p \in particiones /\ p.libre
  BY DEF Elegibles, PrimeraLibre, MejorLibre, Candidatas
<1>2. /\ ~Cargada(p).libre /\ Cargada(p).id = mensaje.id
      /\ \A c \in Contigua(p) : c.libre
  BY DEF Cargada, Contigua, Resto
<1>3. Ocupadas' = Ocupadas \cup {Cargada(p)}
  BY <1>1, <1>2 DEF Almacenar, Ocupadas
<1>4. IdsOcupados' = {r.id : r \in Ocupadas \cup {Cargada(p)}}
  BY <1>3 DEF IdsOcupados
<1>5. QED
  BY <1>2, <1>4 DEF IdsOcupados

LEMMA EliminarIds ==
  ASSUME IInv, NEW id \in Nat, Eliminar(id)
  PROVE  IdsOcupados' = IdsOcupados \ {id}
<1>1. \A p \in particiones : p \in Particion
  BY DEF IInv, TypeOK
<1>2. ASSUME NEW p \in particiones
      PROVE  /\ CambiarALibre(p, id).id = p.id
             /\ ~CambiarALibre(p, id).libre <=> ~p.libre /\ p.id # id
  BY <1>1 DEF CambiarALibre, Particion
<1>3. particiones' = {CambiarALibre(p, id) : p \in particiones}
  BY DEF Eliminar
<1>4. ASSUME NEW x
      PROVE  x \in IdsOcupados' <=> x \in IdsOcupados \ {id}
  <2>1. x \in IdsOcupados' <=> \E r \in particiones' : ~r.libre /\ x = r.id
    BY DEF IdsOcupados, Ocupadas
  <2>2. x \in IdsOcupados <=> \E r \in particiones : ~r.libre /\ x = r.id
    BY DEF IdsOcupados, Ocupadas
  <2>3. QED
    BY <1>2, <1>3, <2>1, <2>2
<1>5. QED
  BY <1>4

LEMMA ConsolidarIds ==
  ASSUME Consolidar
  PROVE  IdsOcupados' = IdsOcupados
<1>1. PICK p \in particiones, q \in Siguiente(index) :
        p.libre /\ q.libre /\ particiones' = (particiones \ {p, q}) \cup {Unida(p, q)}
  BY DEF Consolidar, SeUnen
<1>2. Ocupadas' = Ocupadas
  BY <1>1 DEF Ocupadas, Unida
<1>3. QED
  BY <1>2 DEF IdsOcupados

LEMMA MoverIds ==
  ASSUME IInv, MoverParticion
  PROVE  IdsOcupados' = IdsOcupados
<1>1. PICK p \in particiones, q \in Siguiente(indexCompactar) :
        /\ p.libre
        /\ particiones' = (particiones \ {p, q})
                            \cup {[q EXCEPT !.pos = p.pos], [p EXCEPT !.pos = p.pos + q.tam]}
  BY DEF MoverParticion
<1> DEFINE a == [q EXCEPT !.pos = p.pos]
           l == [p EXCEPT !.pos = p.pos + q.tam]
<1>2. p \in Particion /\ q \in particiones /\ q \in Particion
  BY DEF IInv, TypeOK, Siguiente
<1>3. a.id = q.id /\ a.libre = q.libre /\ l.libre
  BY <1>1, <1>2 DEF Particion
<1>4. particiones' = (particiones \ {p, q}) \cup {a, l}
  BY <1>1
<1> HIDE DEF a, l
<1>5. ASSUME NEW x
      PROVE  x \in IdsOcupados' <=> x \in IdsOcupados
  <2>1. x \in IdsOcupados' <=> \E r \in particiones' : ~r.libre /\ x = r.id
    BY DEF IdsOcupados, Ocupadas
  <2>2. x \in IdsOcupados <=> \E r \in particiones : ~r.libre /\ x = r.id
    BY DEF IdsOcupados, Ocupadas
  <2>3. QED
    BY <1>1, <1>2, <1>3, <1>4, <2>1, <2>2
<1>6. QED
  BY <1>5

LEMMA EnviarIds ==
  ASSUME IInv, EnviarUltimo
  PROVE  IdsOcupados' = IdsOcupados
<1>1. PICK p \in Ocupadas :
        particiones' = (particiones \ {p}) \cup {[p EXCEPT !.lru = CONTADORLRU + 1]}
  BY DEF EnviarUltimo
<1> DEFINE a == [p EXCEPT !.lru = CONTADORLRU + 1]
<1>2. p \in Particion /\ p \in particiones /\ ~p.libre
  BY DEF IInv, TypeOK, Ocupadas
<1>3. a.id = p.id /\ ~a.libre
  BY <1>2 DEF Particion
<1>4. particiones' = (particiones \ {p}) \cup {a}
  BY <1>1
<1> HIDE DEF a
<1>5. ASSUME NEW x
      PROVE  x \in IdsOcupados' <=> x \in IdsOcupados
  <2>1. x \in IdsOcupados' <=> \E r \in particiones' : ~r.libre /\ x = r.id
    BY DEF IdsOcupados, Ocupadas
  <2>2. x \in IdsOcupados <=> \E r \in particiones : ~r.libre /\ x = r.id
    BY DEF IdsOcupados, Ocupadas
  <2>3. QED
    BY <1>2, <1>3, <1>4, <2>1, <2>2
<1>6. QED
  BY <1>5

LEMMA InicioIdentidad == Init => Identidad
<1> SUFFICES ASSUME Init PROVE Identidad
  OBVIOUS
<1>1. Ocupadas = {}
  BY DEF Init, Ocupadas
<1>2. IdsOcupados = {}
  BY <1>1 DEF IdsOcupados
<1>3. Elementos(colaMensajesMemoria) = {} /\ Creciente(colaMensajesMemoria)
  <2>1. Len(colaMensajesMemoria) = 0
    BY DEF Init
  <2>2. 1..Len(colaMensajesMemoria) = {}
    BY <2>1
  <2>3. QED
    BY <2>2 DEF Elementos, Creciente
<1>4. QED
  BY <1>2, <1>3 DEF Init, Identidad, Encoladas

\* A step that changes neither the ids nor the FIFO queue, nor goes back in the numbering.
LEMMA OtrosIdentidad ==
  ASSUME IInv, Identidad, IdsOcupados' = IdsOcupados,
         UNCHANGED <<config, colaMensajesMemoria>>,
         queue \cup porEncolar \subseteq queue' \cup porEncolar',
         mensaje.id \in Nat => mensaje'.id = mensaje.id,
         pc' = "libre" => mensaje' = NoMensaje,
         pc' # "libre" => mensaje'.id < ID_INICIAL',
         pc' = "almacenar" => FRECUENCIA_COMPACTACION = -1,
         Limite \in Nat /\ Limite' \in Nat /\ Limite <= Limite'
  PROVE  Identidad'
<1>1. Elementos(colaMensajesMemoria)' = Elementos(colaMensajesMemoria)
  BY DEF Elementos
<1>2. \A x \in Elementos(colaMensajesMemoria) : x \in Nat
  BY DEF Elementos, IInv, TypeOK
<1>3. Encoladas'
  BY <1>1, <1>2 DEF Identidad, Encoladas, ALGORITMO_REEMPLAZO, FRECUENCIA_COMPACTACION
<1>4. IdsOcupados' \subseteq queue' \cup porEncolar' \cup {mensaje'.id}
  BY DEF Identidad
<1>5. QED
  BY <1>3, <1>4 DEF Identidad, FRECUENCIA_COMPACTACION

\* A store adds the message to both, and its id is above those that were there.
LEMMA AlmacenarIdentidad ==
  ASSUME IInv, Identidad, pc # "libre", NEW p \in Elegibles(mensaje.tam), Almacenar(p),
         UNCHANGED <<config, queue, ID_INICIAL>>,
         \/ pc' = "libre" /\ mensaje' = NoMensaje /\ porEncolar' = porEncolar \cup {mensaje.id}
         \/ pc' = "compactar" /\ UNCHANGED <<mensaje, porEncolar>>,
         FRECUENCIA_COMPACTACION # -1 => pc' = "libre"
  PROVE  Identidad'
<1>1. mensaje.id \in Nat /\ mensaje.id < ID_INICIAL /\ ID_INICIAL \in Nat
  BY DEF IInv, TypeOK, MensajeValido, Identidad
<1>2. IdsOcupados' = IdsOcupados \cup {mensaje.id}
  BY AlmacenarIds
<1>3. /\ ALGORITMO_REEMPLAZO' = ALGORITMO_REEMPLAZO
      /\ FRECUENCIA_COMPACTACION' = FRECUENCIA_COMPACTACION
  BY DEF ALGORITMO_REEMPLAZO, FRECUENCIA_COMPACTACION
<1>4. Encoladas'
  <2> SUFFICES ASSUME ALGORITMO_REEMPLAZO = "FIFO"
               PROVE  /\ IdsOcupados' \subseteq Elementos(colaMensajesMemoria')
                      /\ FRECUENCIA_COMPACTACION # -1 =>
                           /\ Elementos(colaMensajesMemoria') \subseteq IdsOcupados'
                           /\ Creciente(colaMensajesMemoria')
                           /\ \A x \in Elementos(colaMensajesMemoria') : x < Limite'
    BY <1>3 DEF Encoladas
  <2>1. colaMensajesMemoria' = Append(colaMensajesMemoria, mensaje.id)
    BY DEF Almacenar
  <2>2. colaMensajesMemoria \in Seq(Nat)
    BY DEF IInv, TypeOK
  <2>3. Elementos(colaMensajesMemoria') = Elementos(colaMensajesMemoria) \cup {mensaje.id}
    BY <1>1, <2>1, <2>2, AgregarElemento
  <2>4. IdsOcupados \subseteq Elementos(colaMensajesMemoria)
    BY DEF Identidad, Encoladas
  <2>5. ASSUME FRECUENCIA_COMPACTACION # -1
        PROVE  /\ Elementos(colaMensajesMemoria') \subseteq IdsOcupados'
               /\ Creciente(colaMensajesMemoria')
               /\ \A x \in Elementos(colaMensajesMemoria') : x < Limite'
    <3>1. /\ Elementos(colaMensajesMemoria) \subseteq IdsOcupados
          /\ Creciente(colaMensajesMemoria)
          /\ \A x \in Elementos(colaMensajesMemoria) : x < mensaje.id
      BY <2>5 DEF Identidad, Encoladas, Limite
    <3>2. Limite' = ID_INICIAL
      BY <2>5 DEF Limite
    <3>3. IdsOcupados \subseteq Nat
      BY DEF Identidad
    <3>4. Creciente(colaMensajesMemoria')
      BY <1>1, <2>1, <2>2, <3>1, AgregarElemento
    <3>5. ASSUME NEW x \in Elementos(colaMensajesMemoria')
          PROVE  x < Limite'
      <4>1. x = mensaje.id \/ (x \in Nat /\ x < mensaje.id)
        BY <2>3, <3>1, <3>3
      <4>2. x < ID_INICIAL
        BY <1>1, <4>1
      <4>3. QED
        BY <3>2, <4>2
    <3>6. QED
      BY <1>2, <2>3, <3>1, <3>4, <3>5
  <2>6. QED
    BY <1>2, <2>3, <2>4, <2>5
<1>5. IdsOcupados' \subseteq queue' \cup porEncolar' \cup {mensaje'.id}
  BY <1>2 DEF Identidad, NoMensaje
<1>6. IdsOcupados' \subseteq Nat
  BY <1>1, <1>2 DEF Identidad
<1>7. QED
  BY <1>1, <1>4, <1>5, <1>6 DEF Identidad

\* An eviction takes the head of the FIFO queue, and with it every partition of that id.
LEMMA EliminarIdentidad ==
  ASSUME IInv, Identidad, EliminarParticion
  PROVE  Identidad'
<1>1. PICK id \in 0 .. MaxMensajes - 1 : Eliminar(id)
  BY DEF EliminarParticion
<1>2. /\ pc = "buscar" /\ pc' = "consolidar"
      /\ UNCHANGED <<config, mensaje, porEncolar, ID_INICIAL>>
  BY DEF EliminarParticion, EnCiclo
<1>3. id \in Nat /\ IdsOcupados' = IdsOcupados \ {id}
  BY <1>1, EliminarIds
<1>4. queue \ {id} \subseteq queue'
  BY <1>1 DEF Eliminar
<1>5. /\ ALGORITMO_REEMPLAZO' = ALGORITMO_REEMPLAZO
      /\ FRECUENCIA_COMPACTACION' = FRECUENCIA_COMPACTACION
  BY <1>2 DEF ALGORITMO_REEMPLAZO, FRECUENCIA_COMPACTACION
<1>6. Encoladas'
  <2> SUFFICES ASSUME ALGORITMO_REEMPLAZO = "FIFO"
               PROVE  /\ IdsOcupados' \subseteq Elementos(colaMensajesMemoria')
                      /\ FRECUENCIA_COMPACTACION # -1 =>
                           /\ Elementos(colaMensajesMemoria') \subseteq IdsOcupados'
                           /\ Creciente(colaMensajesMemoria')
                           /\ \A x \in Elementos(colaMensajesMemoria') : x < Limite'
    BY <1>5 DEF Encoladas
  <2>1. /\ colaMensajesMemoria # <<>> /\ id = Head(colaMensajesMemoria)
        /\ colaMensajesMemoria' = Tail(colaMensajesMemoria)
    BY <1>1 DEF Eliminar, Victima
  <2>2. colaMensajesMemoria \in Seq(Nat)
    BY DEF IInv, TypeOK
  <2>3. /\ Elementos(colaMensajesMemoria) \ {id} \subseteq Elementos(colaMensajesMemoria')
        /\ Elementos(colaMensajesMemoria') \subseteq Elementos(colaMensajesMemoria)
        /\ Creciente(colaMensajesMemoria) =>
             Creciente(colaMensajesMemoria') /\ id \notin Elementos(colaMensajesMemoria')
    BY <2>1, <2>2, QuitarPrimero
  <2>4. IdsOcupados \subseteq Elementos(colaMensajesMemoria)
    BY DEF Identidad, Encoladas
  <2>5. Limite' = Limite
    BY <1>2 DEF Limite
  <2>6. FRECUENCIA_COMPACTACION # -1 =>
          /\ Elementos(colaMensajesMemoria) \subseteq IdsOcupados
          /\ Creciente(colaMensajesMemoria)
          /\ \A x \in Elementos(colaMensajesMemoria) : x < Limite
    BY DEF Identidad, Encoladas
  <2>7. QED
    BY <1>3, <2>3, <2>4, <2>5, <2>6
<1>7. QED
  BY <1>2, <1>3, <1>4, <1>6 DEF Identidad

LEMMA PasoIdentidad == IInv /\ Identidad /\ [Next]_vars => Identidad'
<1> SUFFICES ASSUME IInv, Identidad, [Next]_vars
             PROVE  Identidad'
  OBVIOUS
<1>0. IInv'
  BY PasoIInv
<1>a. /\ ID_INICIAL \in Nat /\ (pc # "libre" => mensaje.id \in Nat)
      /\ ID_INICIAL' \in Nat /\ (pc' # "libre" => mensaje'.id \in Nat)
  BY <1>0, ConfigAssumption DEF IInv, TypeOK, MensajeValido
<1>b. Limite \in Nat /\ Limite' \in Nat
  BY <1>a DEF Limite
\* Steps of the loops that leave the message, its number and the FIFO queue alone.
<1>c. ASSUME IdsOcupados' = IdsOcupados, pc # "libre", pc' # "libre",
             UNCHANGED <<config, colaMensajesMemoria, queue, porEncolar, mensaje, ID_INICIAL>>,
             pc' = "almacenar" => FRECUENCIA_COMPACTACION = -1
      PROVE  Identidad'
  <2>1. Limite' = Limite /\ mensaje.id < ID_INICIAL
    BY <1>c DEF Limite, Identidad
  <2>2. QED
    BY <1>b, <1>c, <2>1, OtrosIdentidad
<1>d. ASSUME UNCHANGED particiones
      PROVE  IdsOcupados' = IdsOcupados
  BY <1>d DEF IdsOcupados, Ocupadas
<1>1. ASSUME NEW t \in TamanosMensaje, CachearMensaje(t)
      PROVE  Identidad'
  <2>1. /\ pc = "libre" /\ pc' = "buscar" /\ mensaje' = [id |-> ID_INICIAL, tam |-> t]
        /\ ID_INICIAL' = ID_INICIAL + 1
        /\ UNCHANGED <<config, particiones, colaMensajesMemoria, queue, porEncolar>>
    BY <1>1 DEF CachearMensaje
  <2>2. IdsOcupados' = IdsOcupados
    BY <1>d, <2>1
  <2>3. mensaje'.id = ID_INICIAL /\ mensaje.id \notin Nat
    BY <2>1 DEF Identidad, NoMensaje, NoId
  <2>4. Limite' = Limite /\ mensaje'.id < ID_INICIAL'
    BY <1>a, <2>1, <2>3 DEF Limite
  <2>5. QED
    BY <1>b, <2>1, <2>2, <2>3, <2>4, OtrosIdentidad
<1>2. ASSUME NEW t \in TamanosMensaje, NoCachear(t)
      PROVE  Identidad'
  <2>1. /\ pc = "libre" /\ pc' = "libre" /\ ID_INICIAL' = ID_INICIAL + 1
        /\ porEncolar' = porEncolar \cup {ID_INICIAL}
        /\ UNCHANGED <<config, particiones, colaMensajesMemoria, queue, mensaje>>
    BY <1>2 DEF NoCachear
  <2>2. IdsOcupados' = IdsOcupados
    BY <1>d, <2>1
  <2>3. Limite <= Limite' /\ mensaje' = NoMensaje
    BY <1>a, <2>1 DEF Limite, Identidad
  <2>4. QED
    BY <1>b, <2>1, <2>2, <2>3, OtrosIdentidad
<1>3. ASSUME AlmacenarNormal \/ AlmacenarFinal
      PROVE  Identidad'
  <2>1. PICK p \in Elegibles(mensaje.tam) : Almacenar(p)
    BY <1>3 DEF AlmacenarNormal, AlmacenarFinal
  <2>2. /\ pc # "libre" /\ UNCHANGED <<config, queue, ID_INICIAL>>
        /\ pc' = "libre" /\ mensaje' = NoMensaje /\ porEncolar' = porEncolar \cup {mensaje.id}
    BY <1>3 DEF AlmacenarNormal, AlmacenarFinal, EnCiclo, Soltar
  <2>3. QED
    BY <2>1, <2>2, AlmacenarIdentidad
<1>4. ASSUME AlmacenarAlternativo
      PROVE  Identidad'
  <2>1. PICK p \in Elegibles(mensaje.tam) : Almacenar(p)
    BY <1>4 DEF AlmacenarAlternativo
  <2>2. /\ pc # "libre" /\ pc' = "compactar" /\ FRECUENCIA_COMPACTACION = -1
        /\ UNCHANGED <<config, queue, ID_INICIAL, mensaje, porEncolar>>
    BY <1>4 DEF AlmacenarAlternativo, EnCiclo
  <2>3. QED
    BY <2>1, <2>2, AlmacenarIdentidad
<1>5. ASSUME Consolidar
      PROVE  Identidad'
  <2>1. /\ pc = "consolidar" /\ pc' = "consolidar"
        /\ UNCHANGED <<config, colaMensajesMemoria, queue, porEncolar, mensaje, ID_INICIAL>>
    BY <1>5 DEF Consolidar
  <2>2. QED
    BY <1>5, <1>c, <2>1, ConsolidarIds
<1>6. ASSUME MoverParticion
      PROVE  Identidad'
  <2>1. /\ pc = "compactar" /\ pc' = "consolidar"
        /\ UNCHANGED <<config, colaMensajesMemoria, queue, porEncolar, mensaje, ID_INICIAL>>
    BY <1>6 DEF MoverParticion
  <2>2. QED
    BY <1>6, <1>c, <2>1, MoverIds
<1>7. ASSUME \/ AvanzarConsolidacion \/ TerminarConsolidacion \/ CompactarMemoria
             \/ AvanzarCompactacion \/ TerminarCompactacion
      PROVE  Identidad'
  <2>1. /\ pc # "libre" /\ pc' # "libre"
        /\ pc' = "almacenar" => FRECUENCIA_COMPACTACION = -1
        /\ UNCHANGED <<particiones, config, colaMensajesMemoria, queue, porEncolar, mensaje,
                       ID_INICIAL>>
    BY <1>7 DEF AvanzarConsolidacion, TerminarConsolidacion, CompactarMemoria,
                AvanzarCompactacion, TerminarCompactacion
  <2>2. QED
    BY <1>c, <1>d, <2>1
<1>8. ASSUME EnviarUltimo
      PROVE  Identidad'
  <2>1. /\ pc = "libre" /\ pc' = "libre"
        /\ UNCHANGED <<config, colaMensajesMemoria, queue, porEncolar, mensaje, ID_INICIAL>>
    BY <1>8 DEF EnviarUltimo
  <2>2. Limite' = Limite /\ mensaje' = NoMensaje
    BY <2>1 DEF Limite, Identidad
  <2>3. QED
    BY <1>8, <1>b, <2>1, <2>2, EnviarIds, OtrosIdentidad
<1>9. ASSUME NEW id \in porEncolar, AgregarIdCola(id)
      PROVE  Identidad'
  <2>1. /\ porEncolar' = porEncolar \ {id} /\ queue' = queue \cup {id}
        /\ UNCHANGED <<particiones, config, colaMensajesMemoria, mensaje, ID_INICIAL, pc>>
    BY <1>9 DEF AgregarIdCola
  <2>2. /\ Limite' = Limite /\ IdsOcupados' = IdsOcupados
        /\ queue \cup porEncolar \subseteq queue' \cup porEncolar'
    BY <1>d, <2>1 DEF Limite
  <2>3. /\ pc' = "libre" => mensaje' = NoMensaje
        /\ pc' # "libre" => mensaje'.id < ID_INICIAL'
        /\ pc' = "almacenar" => FRECUENCIA_COMPACTACION = -1
    BY <2>1 DEF Identidad
  <2>4. QED
    BY <1>b, <2>1, <2>2, <2>3, OtrosIdentidad
<1>10. CASE UNCHANGED vars
  <2>1. UNCHANGED <<particiones, config, colaMensajesMemoria, queue, porEncolar, mensaje,
                    ID_INICIAL, pc>>
    BY <1>10 DEF vars
  <2>2. Limite' = Limite /\ IdsOcupados' = IdsOcupados
    BY <1>d, <2>1 DEF Limite
  <2>3. /\ pc' = "libre" => mensaje' = NoMensaje
        /\ pc' # "libre" => mensaje'.id < ID_INICIAL'
        /\ pc' = "almacenar" => FRECUENCIA_COMPACTACION = -1
    BY <2>1 DEF Identidad
  <2>4. QED
    BY <1>b, <2>1, <2>2, <2>3, OtrosIdentidad
<1>11. ASSUME Ciclo
       PROVE  Identidad'
  BY <1>3, <1>4, <1>5, <1>6, <1>7, <1>11, EliminarIdentidad DEF Ciclo
<1>12. QED
  BY <1>1, <1>2, <1>8, <1>9, <1>10, <1>11 DEF Next, SinMasMensajes

------------------------------------------------------------------------------
(* The refinement, with ejecutarCicloNormal. *)

\* Each cached message has an id of its own, below that of the one being cached.
Unicas ==
  FRECUENCIA_COMPACTACION # -1 =>
    /\ \A p \in Ocupadas : p.id \in Nat /\ p.id < Limite
    /\ \A p, q \in Ocupadas : p.id = q.id => p = q

\* What becomes of the occupied partitions.
LEMMA AlmacenarOcupadas ==
  ASSUME NEW p \in Elegibles(mensaje.tam), Almacenar(p)
  PROVE  Ocupadas' = Ocupadas \cup {Cargada(p)}
<1>1. p \in particiones /\ p.libre
  BY DEF Elegibles, PrimeraLibre, MejorLibre, Candidatas
<1>2. ~Cargada(p).libre /\ \A c \in Contigua(p) : c.libre
  BY DEF Cargada, Contigua, Resto
<1>3. QED
  BY <1>1, <1>2 DEF Almacenar, Ocupadas

LEMMA EliminarOcupadas ==
  ASSUME IInv, NEW id, Eliminar(id)
  PROVE  Ocupadas' = {p \in Ocupadas : p.id # id}
<1>1. particiones \subseteq Particion
  BY DEF IInv, TypeOK
<1>2. \A p \in particiones :
        /\ p.id # id => CambiarALibre(p, id) = p
        /\ p.id = id => CambiarALibre(p, id).libre
  BY <1>1 DEF CambiarALibre, Particion
<1>3. QED
  BY <1>2 DEF Ocupadas, Eliminar

LEMMA EnviarOcupadas ==
  ASSUME IInv, NEW p \in Ocupadas, NEW x,
         particiones' = (particiones \ {p}) \cup {[p EXCEPT !.lru = x]}
  PROVE  Ocupadas' = (Ocupadas \ {p}) \cup {[p EXCEPT !.lru = x]}
<1>1. p \in Particion /\ ~p.libre
  BY DEF IInv, TypeOK, Ocupadas
<1>2. ~[p EXCEPT !.lru = x].libre
  BY <1>1 DEF Particion
<1>3. QED
  BY <1>1, <1>2 DEF Ocupadas

LEMMA ConsolidarOcupadas ==
  ASSUME Consolidar
  PROVE  Ocupadas' = Ocupadas
<1>1. PICK p \in particiones, q \in Siguiente(index) :
        p.libre /\ q.libre /\ particiones' = (particiones \ {p, q}) \cup {Unida(p, q)}
  BY DEF Consolidar, SeUnen
<1>2. QED
  BY <1>1 DEF Ocupadas, Unida

\* A move changes the place of one message and nothing else of it.
LEMMA MoverOcupadas ==
  ASSUME IInv, MoverParticion
  PROVE  \/ Ocupadas' = Ocupadas
         \/ \E q \in Ocupadas, x \in Bytes :
              Ocupadas' = (Ocupadas \ {q}) \cup {[q EXCEPT !.pos = x]}
<1>1. PICK p \in particiones, q \in Siguiente(indexCompactar) :
        /\ p.libre
        /\ particiones' = (particiones \ {p, q})
                            \cup {[q EXCEPT !.pos = p.pos], [p EXCEPT !.pos = p.pos + q.tam]}
  BY DEF MoverParticion
<1> DEFINE a == [q EXCEPT !.pos = p.pos]
           l == [p EXCEPT !.pos = p.pos + q.tam]
<1>2. p \in Particion /\ q \in particiones /\ q \in Particion
  BY DEF IInv, TypeOK, Siguiente
<1>3. a.libre = q.libre /\ l.libre /\ p.pos \in Bytes
  BY <1>1, <1>2 DEF Particion
<1>4. CASE q.libre
  BY <1>1, <1>2, <1>3, <1>4 DEF Ocupadas
<1>5. CASE ~q.libre
  <2>1. q \in Ocupadas
    BY <1>2, <1>5 DEF Ocupadas
  <2>2. Ocupadas' = (Ocupadas \ {q}) \cup {a}
    BY <1>1, <1>2, <1>3, <1>5 DEF Ocupadas
  <2>3. QED
    BY <1>3, <2>1, <2>2
<1>6. QED
  BY <1>4, <1>5

\* Replacing an occupied partition by another one with its id.
LEMMA CambiarUnica ==
  ASSUME IInv, Unicas, NEW p \in Ocupadas, NEW n, n.id = p.id,
         Ocupadas' = (Ocupadas \ {p}) \cup {n}, config' = config, Limite' = Limite
  PROVE  Unicas'
BY DEF Unicas, FRECUENCIA_COMPACTACION

\* The occupied partitions stay, or some of them.
LEMMA MenosUnicas ==
  ASSUME Unicas, Ocupadas' \subseteq Ocupadas, config' = config,
         Limite \in Nat, Limite' \in Nat, Limite <= Limite'
  PROVE  Unicas'
<1>1. ASSUME FRECUENCIA_COMPACTACION # -1, NEW p \in Ocupadas
      PROVE  p.id \in Nat /\ p.id < Limite'
  BY <1>1 DEF Unicas
<1>2. QED
  BY <1>1 DEF Unicas, FRECUENCIA_COMPACTACION

LEMMA AlmacenarUnicas ==
  ASSUME IInv, Identidad, Unicas, AlmacenarNormal
  PROVE  Unicas'
<1>1. PICK p \in Elegibles(mensaje.tam) : Almacenar(p)
  BY DEF AlmacenarNormal
<1>2. Ocupadas' = Ocupadas \cup {Cargada(p)} /\ Cargada(p).id = mensaje.id
  BY <1>1, AlmacenarOcupadas DEF Cargada
<1>3. /\ pc = "buscar" /\ pc' = "libre" /\ config' = config /\ ID_INICIAL' = ID_INICIAL
  BY DEF AlmacenarNormal, EnCiclo, Soltar
<1>4. mensaje.id \in Nat /\ mensaje.id < ID_INICIAL /\ ID_INICIAL \in Nat
  BY <1>3, ConfigAssumption DEF IInv, TypeOK, MensajeValido, Identidad
<1>5. Limite = mensaje.id /\ Limite' = ID_INICIAL
  BY <1>3 DEF Limite
<1>6. FRECUENCIA_COMPACTACION # -1 =>
        /\ \A q \in Ocupadas' : q.id \in Nat /\ q.id < Limite'
        /\ \A q, r \in Ocupadas' : q.id = r.id => q = r
  <2> SUFFICES ASSUME FRECUENCIA_COMPACTACION # -1
               PROVE  /\ \A q \in Ocupadas' : q.id \in Nat /\ q.id < Limite'
                      /\ \A q, r \in Ocupadas' : q.id = r.id => q = r
    OBVIOUS
  <2>1. \A q \in Ocupadas : q.id \in Nat /\ q.id < mensaje.id
    BY <1>5 DEF Unicas
  <2>2. \A q \in Ocupadas : q.id < ID_INICIAL /\ q.id # mensaje.id
    BY <1>4, <2>1
  <2>3. QED
    BY <1>2, <1>4, <1>5, <2>1, <2>2 DEF Unicas
<1>7. QED
  BY <1>3, <1>6 DEF Unicas, FRECUENCIA_COMPACTACION

LEMMA PasoUnicas == IInv /\ Identidad /\ Unicas /\ [Next]_vars => Unicas'
<1> SUFFICES ASSUME IInv, Identidad, Unicas, [Next]_vars
             PROVE  Unicas'
  OBVIOUS
<1>0. IInv'
  BY PasoIInv
<1>a. /\ ID_INICIAL \in Nat /\ (pc # "libre" => mensaje.id \in Nat)
      /\ ID_INICIAL' \in Nat /\ (pc' # "libre" => mensaje'.id \in Nat)
  BY <1>0, ConfigAssumption DEF IInv, TypeOK, MensajeValido
<1>b. Limite \in Nat /\ Limite' \in Nat
  BY <1>a DEF Limite
<1>1. ASSUME NEW t \in TamanosMensaje, CachearMensaje(t) \/ NoCachear(t)
      PROVE  Unicas'
  <2>1. /\ Ocupadas' = Ocupadas /\ config' = config /\ pc = "libre"
        /\ ID_INICIAL' = ID_INICIAL + 1
        /\ pc' = "libre" \/ mensaje'.id = ID_INICIAL
    BY <1>1 DEF CachearMensaje, NoCachear, Ocupadas
  <2>2. Limite <= Limite'
    BY <1>a, <2>1 DEF Limite
  <2>3. QED
    BY <1>b, <2>1, <2>2, MenosUnicas
<1>2. ASSUME EliminarParticion
      PROVE  Unicas'
  <2>1. PICK id \in 0 .. MaxMensajes - 1 : Eliminar(id)
    BY <1>2 DEF EliminarParticion
  <2>2. Ocupadas' \subseteq Ocupadas
    BY <2>1, EliminarOcupadas
  <2>3. config' = config /\ Limite' = Limite
    BY <1>2 DEF EliminarParticion, EnCiclo, Limite
  <2>4. QED
    BY <1>b, <2>2, <2>3, MenosUnicas
<1>3. ASSUME EnviarUltimo
      PROVE  Unicas'
  <2>1. PICK p \in Ocupadas :
          particiones' = (particiones \ {p}) \cup {[p EXCEPT !.lru = CONTADORLRU + 1]}
    BY <1>3 DEF EnviarUltimo
  <2>2. Ocupadas' = (Ocupadas \ {p}) \cup {[p EXCEPT !.lru = CONTADORLRU + 1]}
    BY <2>1, EnviarOcupadas
  <2>3. [p EXCEPT !.lru = CONTADORLRU + 1].id = p.id
    BY DEF IInv, TypeOK, Ocupadas, Particion
  <2>4. config' = config /\ Limite' = Limite
    BY <1>3 DEF EnviarUltimo, Limite
  <2>5. QED
    BY <2>2, <2>3, <2>4, CambiarUnica
<1>4. ASSUME MoverParticion
      PROVE  Unicas'
  <2>1. config' = config /\ Limite' = Limite
    BY <1>4 DEF MoverParticion, Limite
  <2>2. CASE Ocupadas' = Ocupadas
    BY <1>b, <2>1, <2>2, MenosUnicas
  <2>3. ASSUME NEW q \in Ocupadas, NEW x \in Bytes,
               Ocupadas' = (Ocupadas \ {q}) \cup {[q EXCEPT !.pos = x]}
        PROVE  Unicas'
    <3>1. [q EXCEPT !.pos = x].id = q.id
      BY DEF IInv, TypeOK, Ocupadas, Particion
    <3>2. QED
      BY <2>1, <2>3, <3>1, CambiarUnica
  <2>4. QED
    BY <1>4, <2>2, <2>3, MoverOcupadas
<1>5. ASSUME Consolidar
      PROVE  Unicas'
  <2>1. config' = config /\ Limite' = Limite
    BY <1>5 DEF Consolidar, Limite
  <2>2. QED
    BY <1>5, <1>b, <2>1, ConsolidarOcupadas, MenosUnicas
<1>6. ASSUME \/ AvanzarConsolidacion \/ TerminarConsolidacion \/ CompactarMemoria
             \/ AvanzarCompactacion \/ TerminarCompactacion
             \/ \E id \in porEncolar : AgregarIdCola(id)
             \/ UNCHANGED vars
      PROVE  Unicas'
  <2>1. Ocupadas' = Ocupadas /\ config' = config /\ Limite' = Limite
    BY <1>6 DEF AvanzarConsolidacion, TerminarConsolidacion, CompactarMemoria,
                AvanzarCompactacion, TerminarCompactacion, AgregarIdCola, vars, Ocupadas, Limite
  <2>2. QED
    BY <1>b, <2>1, MenosUnicas
<1>7. ASSUME AlmacenarAlternativo \/ AlmacenarFinal
      PROVE  Unicas'
  <2>1. config' = config /\ FRECUENCIA_COMPACTACION = -1
    BY <1>7 DEF AlmacenarAlternativo, AlmacenarFinal, Identidad
  <2>2. QED
    BY <2>1 DEF Unicas, FRECUENCIA_COMPACTACION
<1>8. QED
  BY <1>1, <1>2, <1>3, <1>4, <1>5, <1>6, <1>7, AlmacenarUnicas DEF Next, Ciclo, SinMasMensajes

\* What is read in memory for an occupied partition is what was published.
Registro(p) == [id |-> p.id, tam |-> p.tamMsg, marca |-> p.lru,
                bytes |-> Abs!Contenido(p.id, p.tamMsg)]

LEMMA Registros == IInv => MensajesEnMemoria = {Registro(p) : p \in Ocupadas}
<1> SUFFICES ASSUME IInv
             PROVE  MensajesEnMemoria = {Registro(p) : p \in Ocupadas}
  OBVIOUS
<1>1. ASSUME NEW p \in Ocupadas
      PROVE  [k \in 0 .. p.tamMsg - 1 |-> memoria[p.pos + k]] = Abs!Contenido(p.id, p.tamMsg)
  BY DEF IInv, ContenidoIntegro, Abs!Contenido
<1>2. QED
  BY <1>1 DEF MensajesEnMemoria, Registro

LEMMA RegistrosDespues == IInv' => MensajesEnMemoria' = {Registro(p) : p \in Ocupadas'}
<1>1. (IInv => MensajesEnMemoria = {Registro(p) : p \in Ocupadas})'
  BY Registros, PTL
<1>2. QED
  BY <1>1 DEF Registro

\* A free partition that can hold the message is room for it: the bytes cached are values
\* that memory holds outside that partition.
LEMMA CabeEnMemoria ==
  ASSUME IInv, pc # "libre", NEW p \in particiones, p.libre, mensaje.tam <= p.tam
  PROVE  Abs!Ocupado + mensaje.tam <= TAMANO_MEMORIA
<1> DEFINE F == p.pos .. p.pos + mensaje.tam - 1
           T == Bytes \ F
           f == [b \in T |-> memoria[b]]
           R == {memoria[b] : b \in T}
           U == UNION {Abs!Range(m.bytes) : m \in MensajesEnMemoria}
<1>1. /\ particiones \subseteq Particion /\ Particionado /\ TAMANO_MEMORIA \in Nat
      /\ mensaje.tam \in 1..TAMANO_MEMORIA
  BY ConfigAssumption DEF IInv, TypeOK, MensajeValido
<1>2. p.pos \in Nat /\ p.tam \in Nat /\ p.pos + p.tam <= TAMANO_MEMORIA
  BY <1>1, CamposParticion DEF Particionado, Tila
<1>3. F \subseteq Bytes
  BY <1>1, <1>2 DEF Bytes
<1>4. IsFiniteSet(Bytes) /\ Cardinality(Bytes) = TAMANO_MEMORIA
  BY <1>1, FS_Interval DEF Bytes
<1>5. IsFiniteSet(F) /\ Cardinality(F) = mensaje.tam
  <2>1. /\ p.pos \in Int /\ p.pos + mensaje.tam - 1 \in Int
        /\ ~(p.pos > p.pos + mensaje.tam - 1)
        /\ (p.pos + mensaje.tam - 1) - p.pos + 1 = mensaje.tam
    BY <1>1, <1>2
  <2>2. QED
    BY <2>1, FS_Interval
<1>6. IsFiniteSet(T) /\ Cardinality(T) = TAMANO_MEMORIA - mensaje.tam
  <2>1. Bytes \cap F = F
    BY <1>3
  <2> HIDE DEF F
  <2>2. IsFiniteSet(T) /\ Cardinality(T) = Cardinality(Bytes) - Cardinality(Bytes \cap F)
    BY <1>4, FS_Difference
  <2>3. QED
    BY <1>4, <1>5, <2>1, <2>2
<1>7. f \in Surjection(T, R)
  BY DEF Surjection
<1>8. IsFiniteSet(R) /\ Cardinality(R) <= TAMANO_MEMORIA - mensaje.tam
  <2> HIDE DEF f, T, R
  <2>1. QED
    BY <1>6, <1>7, FS_Surjection
<1>9. U \subseteq R
  <2> SUFFICES ASSUME NEW m \in MensajesEnMemoria, NEW v \in Abs!Range(m.bytes)
               PROVE  v \in R
    OBVIOUS
  <2>1. PICK q \in Ocupadas : m.bytes = [k \in 0 .. q.tamMsg - 1 |-> memoria[q.pos + k]]
    <3>1. PICK q \in Ocupadas :
            m = [id |-> q.id, tam |-> q.tamMsg, marca |-> q.lru,
                 bytes |-> [k \in 0 .. q.tamMsg - 1 |-> memoria[q.pos + k]]]
      BY DEF MensajesEnMemoria
    <3>2. QED
      BY <3>1
  <2>2. PICK k \in 0 .. q.tamMsg - 1 : v = memoria[q.pos + k]
    BY <2>1 DEF Abs!Range
  <2>3. q \in particiones /\ q # p /\ q.tamMsg \in 1..q.tam
    BY DEF Ocupadas, IInv, ContenidoIntegro
  <2>4. /\ q.pos \in Nat /\ q.tam \in Nat /\ q.pos + q.tam <= TAMANO_MEMORIA
        /\ q.pos + q.tam <= p.pos \/ p.pos + p.tam <= q.pos
    BY <1>1, <2>3, CamposParticion DEF Particionado, Tila
  <2>5. q.pos + k \in Bytes
    BY <1>1, <2>3, <2>4 DEF Bytes
  <2>6. q.pos + k \notin F
    BY <1>1, <1>2, <2>3, <2>4
  <2>7. QED
    BY <2>2, <2>5, <2>6
<1>10. Abs!Ocupado <= Cardinality(R) /\ Abs!Ocupado \in Nat
  <2>1. IsFiniteSet(U) /\ Cardinality(U) <= Cardinality(R)
    BY <1>8, <1>9, FS_Subset
  <2>2. Cardinality(U) \in Nat
    BY <2>1, FS_CardinalityType
  <2> HIDE DEF R
  <2>3. Abs!Ocupado = Cardinality(U)
    BY DEF Abs!Ocupado, Abs!Cardinality, Cardinality
  <2>4. QED
    BY <2>1, <2>2, <2>3
<1>11. Cardinality(R) \in Nat
  BY <1>8, FS_CardinalityType
<1>12. QED
  <2> HIDE DEF R
  <2>1. QED
    BY <1>1, <1>8, <1>10, <1>11

LEMMA AlmacenarGuarda ==
  ASSUME IInv, IInv', AlmacenarNormal
  PROVE  Abs!Guardar /\ UNCHANGED ALGORITMO_REEMPLAZO
<1>1. PICK p \in Elegibles(mensaje.tam) : Almacenar(p)
  BY DEF AlmacenarNormal
<1>2. /\ pc = "buscar" /\ mensaje' = NoMensaje /\ ID_INICIAL' = ID_INICIAL
      /\ config' = config /\ CONTADORLRU' = CONTADORLRU + 1
  BY <1>1 DEF AlmacenarNormal, EnCiclo, Soltar, Almacenar
<1>3. mensaje.id \in Nat /\ mensaje.tam \in 1..TAMANO_MEMORIA
  BY <1>2 DEF IInv, MensajeValido
<1>4. p \in particiones /\ p.libre /\ mensaje.tam <= p.tam
  <2>1. p \in particiones /\ p.libre /\ Reserva(mensaje.tam) <= p.tam
    BY DEF Elegibles, PrimeraLibre, MejorLibre, Candidatas
  <2>2. p.tam \in Nat
    BY <2>1, CamposParticion DEF IInv, TypeOK
  <2>3. QED
    BY <1>3, <2>1, <2>2, ConfigAssumption DEF Reserva
<1>5. MensajesEnMemoria' = MensajesEnMemoria \cup {Registro(Cargada(p))}
  <2>1. Ocupadas' = Ocupadas \cup {Cargada(p)}
    BY <1>1, AlmacenarOcupadas
  <2>2. QED
    BY <2>1, Registros, RegistrosDespues
<1>6. Registro(Cargada(p)) = [id |-> mensaje.id, tam |-> mensaje.tam, marca |-> CONTADORLRU',
                              bytes |-> Abs!Contenido(mensaje.id, mensaje.tam)]
  BY <1>2 DEF Registro, Cargada
<1>7. mensaje # Abs!Ninguno
  BY <1>3 DEF Abs!Ninguno
<1>8. Abs!Ocupado + mensaje.tam <= TAMANO_MEMORIA
  BY <1>2, <1>4, CabeEnMemoria
<1>9. QED
  BY <1>2, <1>5, <1>6, <1>7, <1>8
  DEF Abs!Guardar, Abs!Ninguno, NoMensaje, NoId, ALGORITMO_REEMPLAZO

\* The message that an eviction gives up: the only one with its id, and the right one.
LEMMA VictimaUnica ==
  ASSUME IInv, Identidad, Unicas, FRECUENCIA_COMPACTACION # -1, NEW id, Victima(id)
  PROVE  \E p \in Ocupadas : /\ p.id = id
                             /\ {q \in Ocupadas : q.id # id} = Ocupadas \ {p}
                             /\ \A q \in Ocupadas : IF ALGORITMO_REEMPLAZO = "FIFO"
                                                    THEN p.id <= q.id ELSE p.lru <= q.lru
<1>1. ASSUME NEW p \in Ocupadas, p.id = id
      PROVE  {q \in Ocupadas : q.id # id} = Ocupadas \ {p}
  BY <1>1 DEF Unicas
<1>2. CASE ALGORITMO_REEMPLAZO = "FIFO"
  <2>1. /\ colaMensajesMemoria \in Seq(Nat) /\ colaMensajesMemoria # <<>>
        /\ id = Head(colaMensajesMemoria)
    BY <1>2 DEF Victima, IInv, TypeOK
  <2>2. /\ Elementos(colaMensajesMemoria) = {q.id : q \in Ocupadas}
        /\ Creciente(colaMensajesMemoria)
    BY <1>2 DEF Identidad, Encoladas, IdsOcupados
  <2>3. id \in Elementos(colaMensajesMemoria)
    BY <2>1, QuitarPrimero
  <2>4. PICK p \in Ocupadas : p.id = id
    BY <2>2, <2>3
  <2>5. \A y \in Elementos(colaMensajesMemoria) : id <= y
    <3> SUFFICES ASSUME NEW i \in 1..Len(colaMensajesMemoria)
                 PROVE  id <= colaMensajesMemoria[i]
      BY DEF Elementos
    <3>1. /\ Len(colaMensajesMemoria) \in Nat /\ id = colaMensajesMemoria[1]
          /\ colaMensajesMemoria[i] \in Nat /\ 1 \in 1..Len(colaMensajesMemoria) /\ id \in Nat
      BY <2>1
    <3>2. i = 1 \/ 1 < i
      BY <3>1
    <3>3. QED
      BY <2>2, <3>1, <3>2 DEF Creciente
  <2>6. QED
    BY <1>1, <1>2, <2>2, <2>4, <2>5
<1>3. CASE ALGORITMO_REEMPLAZO # "FIFO"
  <2>1. PICK p \in MenosUsadas : id = p.id
    BY <1>3 DEF Victima
  <2>2. p \in Ocupadas /\ \A q \in Ocupadas : p.lru <= q.lru
    BY DEF MenosUsadas
  <2>3. QED
    BY <1>1, <1>3, <2>1, <2>2
<1>4. QED
  BY <1>2, <1>3

LEMMA EliminarDesaloja ==
  ASSUME IInv, Identidad, Unicas, FRECUENCIA_COMPACTACION # -1, IInv', EliminarParticion
  PROVE  Abs!Desalojar /\ UNCHANGED ALGORITMO_REEMPLAZO
<1>1. PICK id \in 0 .. MaxMensajes - 1 : Eliminar(id)
  BY DEF EliminarParticion
<1>2. /\ pc = "buscar" /\ mensaje' = mensaje /\ ID_INICIAL' = ID_INICIAL
      /\ config' = config /\ CONTADORLRU' = CONTADORLRU
  BY DEF EliminarParticion, EnCiclo
<1>3. PICK p \in Ocupadas : /\ p.id = id
                            /\ {q \in Ocupadas : q.id # id} = Ocupadas \ {p}
                            /\ \A q \in Ocupadas : IF ALGORITMO_REEMPLAZO = "FIFO"
                                                   THEN p.id <= q.id ELSE p.lru <= q.lru
  BY <1>1, VictimaUnica DEF Eliminar
<1>4. Ocupadas' = Ocupadas \ {p}
  BY <1>1, <1>3, EliminarOcupadas
<1>5. \A q \in Ocupadas : /\ Registro(q).id = q.id /\ Registro(q).marca = q.lru
                          /\ Registro(q) = Registro(p) => q = p
  BY DEF Registro, Unicas
<1>6. MensajesEnMemoria = {Registro(q) : q \in Ocupadas}
  BY Registros
<1>7. MensajesEnMemoria' = MensajesEnMemoria \ {Registro(p)}
  BY <1>4, <1>5, <1>6, RegistrosDespues
<1>8. Registro(p) \in MensajesEnMemoria /\ Abs!EsVictima(Registro(p))
  BY <1>3, <1>5, <1>6 DEF Abs!EsVictima
<1>9. mensaje # Abs!Ninguno
  BY <1>2 DEF IInv, MensajeValido, Abs!Ninguno
<1>10. QED
  BY <1>2, <1>7, <1>8, <1>9 DEF Abs!Desalojar, ALGORITMO_REEMPLAZO

LEMMA EnviarUsa ==
  ASSUME IInv, Identidad, Unicas, FRECUENCIA_COMPACTACION # -1, IInv', EnviarUltimo
  PROVE  Abs!Usar /\ UNCHANGED ALGORITMO_REEMPLAZO
<1>1. PICK p \in Ocupadas :
        particiones' = (particiones \ {p}) \cup {[p EXCEPT !.lru = CONTADORLRU + 1]}
  BY DEF EnviarUltimo
<1>2. /\ pc = "libre" /\ mensaje' = mensaje /\ ID_INICIAL' = ID_INICIAL
      /\ config' = config /\ CONTADORLRU' = CONTADORLRU + 1
  BY DEF EnviarUltimo
<1> DEFINE n == [p EXCEPT !.lru = CONTADORLRU + 1]
<1>3. Ocupadas' = (Ocupadas \ {p}) \cup {n}
  BY <1>1, EnviarOcupadas
<1>4. Registro(n) = [Registro(p) EXCEPT !.marca = CONTADORLRU']
  <2>1. p \in Particion
    BY DEF IInv, TypeOK, Ocupadas
  <2>2. n.id = p.id /\ n.tamMsg = p.tamMsg /\ n.lru = CONTADORLRU'
    BY <1>2, <2>1 DEF Particion
  <2>3. QED
    BY <2>2 DEF Registro
<1> HIDE DEF n
<1>5. \A q \in Ocupadas : Registro(q) = Registro(p) => q = p
  BY DEF Registro, Unicas
<1>6. MensajesEnMemoria = {Registro(q) : q \in Ocupadas}
  BY Registros
<1>7. MensajesEnMemoria' = (MensajesEnMemoria \ {Registro(p)}) \cup {Registro(n)}
  BY <1>3, <1>5, <1>6, RegistrosDespues
<1>8. mensaje = Abs!Ninguno
  BY <1>2 DEF Identidad, Abs!Ninguno, NoMensaje, NoId
<1>9. QED
  BY <1>2, <1>4, <1>6, <1>7, <1>8 DEF Abs!Usar, ALGORITMO_REEMPLAZO

\* Merging, moving and the cursors cannot be seen in the cache.
LEMMA InvisiblesNada ==
  ASSUME IInv, IInv',
         \/ Consolidar \/ AvanzarConsolidacion \/ TerminarConsolidacion
         \/ CompactarMemoria \/ MoverParticion \/ AvanzarCompactacion \/ TerminarCompactacion
         \/ \E id \in porEncolar : AgregarIdCola(id)
         \/ UNCHANGED vars
  PROVE  UNCHANGED Abs!varsCache
<1>1. /\ mensaje' = mensaje /\ ID_INICIAL' = ID_INICIAL
      /\ config' = config /\ CONTADORLRU' = CONTADORLRU
  BY DEF Consolidar, AvanzarConsolidacion, TerminarConsolidacion, CompactarMemoria,
         MoverParticion, AvanzarCompactacion, TerminarCompactacion, AgregarIdCola, vars
<1>2. MensajesEnMemoria' = MensajesEnMemoria
  <2>1. CASE Ocupadas' = Ocupadas
    BY <2>1, Registros, RegistrosDespues
  <2>2. ASSUME NEW q \in Ocupadas, NEW x \in Bytes,
               Ocupadas' = (Ocupadas \ {q}) \cup {[q EXCEPT !.pos = x]}
        PROVE  MensajesEnMemoria' = MensajesEnMemoria
    <3>1. Registro([q EXCEPT !.pos = x]) = Registro(q)
      BY DEF Registro, IInv, TypeOK, Ocupadas, Particion
    <3>2. MensajesEnMemoria = {Registro(p) : p \in Ocupadas}
      BY Registros
    <3>3. MensajesEnMemoria' = {Registro(p) : p \in Ocupadas'}
      BY RegistrosDespues
    <3>4. QED
      BY <2>2, <3>1, <3>2, <3>3
  <2>3. CASE Consolidar \/ MoverParticion
    BY <2>1, <2>2, <2>3, ConsolidarOcupadas, MoverOcupadas
  <2>4. CASE ~(Consolidar \/ MoverParticion)
    <3>1. Ocupadas' = Ocupadas
      BY <2>4 DEF AvanzarConsolidacion, TerminarConsolidacion, CompactarMemoria,
                  AvanzarCompactacion, TerminarCompactacion, AgregarIdCola, vars, Ocupadas
    <3>2. QED
      BY <2>1, <3>1
  <2>5. QED
    BY <2>3, <2>4
<1>3. QED
  BY <1>1, <1>2 DEF Abs!varsCache, ALGORITMO_REEMPLAZO

\* Every step of ejecutarCicloNormal is a step of the abstract cache, or none.
LEMMA PasoCache ==
  ASSUME IInv, Identidad, Unicas, FRECUENCIA_COMPACTACION # -1, IInv', [Next]_vars
  PROVE  [Abs!NextCache]_(Abs!varsCache)
<1>1. ASSUME NEW t \in TamanosMensaje, CachearMensaje(t)
      PROVE  Abs!Pedir(t) /\ UNCHANGED ALGORITMO_REEMPLAZO
  <2>1. mensaje = Abs!Ninguno
    BY <1>1 DEF CachearMensaje, Identidad, Abs!Ninguno, NoMensaje, NoId
  <2>2. QED
    BY <1>1, <2>1
    DEF CachearMensaje, MensajesEnMemoria, Ocupadas, Abs!Pedir, ALGORITMO_REEMPLAZO
<1>2. ASSUME NEW t \in TamanosMensaje, NoCachear(t)
      PROVE  Abs!Rechazar(t) /\ UNCHANGED ALGORITMO_REEMPLAZO
  BY <1>2 DEF NoCachear, MensajesEnMemoria, Ocupadas, Abs!Rechazar, ALGORITMO_REEMPLAZO
<1>3. ~AlmacenarAlternativo /\ ~AlmacenarFinal
  BY DEF AlmacenarAlternativo, AlmacenarFinal, Identidad
<1>4. QED
  BY <1>1, <1>2, <1>3, AlmacenarGuarda, EliminarDesaloja, EnviarUsa, InvisiblesNada
  DEF Next, Ciclo, SinMasMensajes, Abs!NextCache

LEMMA InicioCache == Init => Abs!InitCache /\ Unicas
<1> SUFFICES ASSUME Init
             PROVE  Abs!InitCache /\ Unicas
  OBVIOUS
<1>1. Ocupadas = {}
  BY DEF Init, Ocupadas
<1>2. MensajesEnMemoria = {} /\ Unicas
  BY <1>1 DEF MensajesEnMemoria, Unicas
<1>3. ALGORITMO_REEMPLAZO \in {"FIFO", "LRU"}
  BY ConfigAssumption DEF Init, ALGORITMO_REEMPLAZO
<1>4. QED
  BY <1>2, <1>3 DEF Init, Abs!InitCache, Abs!Ninguno, NoMensaje, NoId
------------------------------------------------------------------------------
(* The theorems. *)

\* The three invariants together.
THEOREM InvarianteDelCiclo == Spec => [](IInv /\ Geometria /\ Identidad)
<1>1. Init => IInv /\ Geometria /\ Identidad
  BY InicioIInv, InicioGeometria, InicioIdentidad
<1>2. IInv /\ Geometria /\ Identidad /\ [Next]_vars => (IInv /\ Geometria /\ Identidad)'
  BY PasoIInv, PasoGeometria, PasoIdentidad
<1>3. QED
  BY <1>1, <1>2, PTL DEF Spec

\* A single pass of consolidarMemoria is enough, after an eviction as after each move of a
\* compaction: no two free partitions touch when the next search begins (l.827-870).
THEOREM LibresSeparadas == Spec => []SinLibresContiguas
<1>1. IInv /\ Geometria => SinLibresContiguas
  <2> SUFFICES ASSUME IInv, Geometria, pc \in {"libre", "buscar"},
                      NEW p \in particiones, p.libre, NEW q \in Siguiente(p.pos)
               PROVE  ~q.libre
    BY DEF SinLibresContiguas
  <2>1. q \in particiones /\ q.pos = p.pos + p.tam
    BY SiguienteContigua DEF IInv, TypeOK
  <2>2. QED
    BY <2>1 DEF Geometria, SinContiguas
<1>2. QED
  BY InvarianteDelCiclo, <1>1, PTL

\* compactarMemoria never copies tamanioMensaje bytes of a free partition (l.796).
THEOREM SeMuevenMensajes == Spec => []MueveOcupadas
<1>1. IInv /\ Geometria => MueveOcupadas
  <2> SUFFICES ASSUME IInv, Geometria, pc = "compactar",
                      NEW p \in particiones, p.libre, NEW q \in Siguiente(p.pos)
               PROVE  ~q.libre
    BY DEF MueveOcupadas
  <2>1. q \in particiones /\ q.pos = p.pos + p.tam
    BY SiguienteContigua DEF IInv, TypeOK
  <2>2. QED
    BY <2>1 DEF Geometria, SinContiguas
<1>2. QED
  BY InvarianteDelCiclo, <1>1, PTL

\* A message in memory is listed, or is about to be, for those that subscribe later: an
\* eviction never takes the id of one that stays.
THEOREM CacheadosAlcanzables == Spec => []AlcanzablePorSuscriptores
<1>1. Identidad => AlcanzablePorSuscriptores
  BY DEF Identidad, AlcanzablePorSuscriptores, IdsOcupados
<1>2. QED
  BY InvarianteDelCiclo, <1>1, PTL

\* eliminarParticion finds a victim whenever it is called, with both cycles and both
\* algorithms: the unchecked queue_pop and list_get of l.727 and l.757 return something.
THEOREM SiempreHayVictima == Spec => []HayVictima
<1>1. IInv /\ Geometria /\ Identidad => HayVictima
  <2> SUFFICES ASSUME IInv, Geometria, Identidad, EnCiclo, Candidatas(mensaje.tam) = {}
               PROVE  /\ MenosUsadas # {}
                      /\ ALGORITMO_REEMPLAZO = "FIFO" =>
                           /\ colaMensajesMemoria # <<>>
                           /\ FRECUENCIA_COMPACTACION # -1 =>
                                \E p \in Ocupadas : p.id = Head(colaMensajesMemoria)
    BY DEF HayVictima
  <2>1. pc = "buscar"
    BY DEF EnCiclo
  <2>2. Reserva(mensaje.tam) <= TAMANO_MEMORIA
    BY <2>1, ConfigAssumption DEF Reserva, IInv, MensajeValido
  <2>3. Ocupadas # {}
    <3> SUFFICES ASSUME Ocupadas = {} PROVE FALSE
      OBVIOUS
    <3>1. PICK p \in particiones : p.libre /\ p.tam = TAMANO_MEMORIA
      BY <2>1, TodaLibre DEF Geometria
    <3>2. p \in Candidatas(mensaje.tam)
      BY <2>2, <3>1 DEF Candidatas
    <3>3. QED
      BY <3>2
  <2>4. MenosUsadas # {}
    <3> DEFINE S == {p.lru + 1 : p \in Ocupadas}
    <3>1. \A p \in Ocupadas : p.lru \in Int /\ p.lru + 1 \in Nat
      BY CamposParticion DEF IInv, TypeOK, Ocupadas
    <3>2. S \subseteq Nat /\ S # {}
      BY <2>3, <3>1
    <3>3. PICK n \in S : \A m \in S : n <= m
      <4> HIDE DEF S
      <4>1. QED
        BY <3>2, Minimo
    <3>4. PICK p \in Ocupadas : n = p.lru + 1
      OBVIOUS
    <3>5. ASSUME NEW q \in Ocupadas
          PROVE  p.lru <= q.lru
      <4>1. n <= q.lru + 1
        BY <3>3
      <4>2. QED
        BY <3>1, <3>4, <4>1
    <3>6. QED
      BY <3>5 DEF MenosUsadas
  <2>5. ASSUME ALGORITMO_REEMPLAZO = "FIFO"
        PROVE  /\ colaMensajesMemoria # <<>>
               /\ FRECUENCIA_COMPACTACION # -1 =>
                    \E p \in Ocupadas : p.id = Head(colaMensajesMemoria)
    <3>1. IdsOcupados # {} /\ IdsOcupados \subseteq Elementos(colaMensajesMemoria)
      BY <2>3, <2>5 DEF IdsOcupados, Identidad, Encoladas
    <3>2. PICK i \in 1..Len(colaMensajesMemoria) : TRUE
      BY <3>1 DEF Elementos
    <3>3. colaMensajesMemoria \in Seq(Nat)
      BY DEF IInv, TypeOK
    <3>4. colaMensajesMemoria # <<>>
      BY <3>2, <3>3
    <3>5. Head(colaMensajesMemoria) \in Elementos(colaMensajesMemoria)
      BY <3>3, <3>4, QuitarPrimero
    <3>6. FRECUENCIA_COMPACTACION # -1 => Head(colaMensajesMemoria) \in IdsOcupados
      BY <2>5, <3>5 DEF Identidad, Encoladas
    <3>7. QED
      BY <3>4, <3>6 DEF IdsOcupados
  <2>6. QED
    BY <2>4, <2>5
<1>2. QED
  BY InvarianteDelCiclo, <1>1, PTL

\* When compactarMemoria ends, every message lies before the only free partition, if there
\* is one (what l.26-28 say it is for).
THEOREM SeCompactaTodo == Spec => CompactacionCompleta
<1> DEFINE Compacta == pc = "compactar" /\ pc' \in {"buscar", "almacenar"} =>
                         /\ \A p, q \in particiones : ~p.libre /\ q.libre => p.pos < q.pos
                         /\ \A p, q \in particiones : p.libre /\ q.libre => p = q
<1>1. IInv /\ Geometria /\ [Next]_vars => [Compacta]_vars
  <2> SUFFICES ASSUME IInv, Geometria, Next, pc = "compactar", pc' \in {"buscar", "almacenar"}
               PROVE  /\ \A p, q \in particiones : ~p.libre /\ q.libre => p.pos < q.pos
                      /\ \A p, q \in particiones : p.libre /\ q.libre => p = q
    OBVIOUS
  <2>1. Siguiente(indexCompactar) = {}
    <3>1. TerminarCompactacion
      BY DEF Next, Ciclo, CachearMensaje, NoCachear, AlmacenarNormal, AlmacenarAlternativo,
             AlmacenarFinal, EnCiclo, EliminarParticion, Consolidar, AvanzarConsolidacion,
             TerminarConsolidacion, CompactarMemoria, MoverParticion, AvanzarCompactacion,
             EnviarUltimo, AgregarIdCola, SinMasMensajes
    <3>2. QED
      BY <3>1 DEF TerminarCompactacion
  <2>2. indexCompactar \in Nat
    BY ConfigAssumption DEF IInv, TypeOK, Bytes
  <2>3. ASSUME NEW p \in particiones
        PROVE  p.pos \in Nat /\ p.pos <= indexCompactar /\ (p.libre => p.pos = indexCompactar)
    <3>1. p.pos \in Nat /\ p.pos <= indexCompactar
      BY <2>1, <2>2, Ultima, CamposParticion DEF IInv, TypeOK
    <3>2. p.libre => ~(p.pos < indexCompactar)
      BY DEF Geometria, Compactadas
    <3>3. QED
      BY <2>2, <3>1, <3>2
  <2>4. \A p, q \in particiones : ~p.libre /\ q.libre => p.pos < q.pos
    <3> SUFFICES ASSUME NEW p \in particiones, NEW q \in particiones, ~p.libre, q.libre
                 PROVE  p.pos < q.pos
      OBVIOUS
    <3>1. p.pos # q.pos
      BY LugarUnico
    <3>2. QED
      BY <2>2, <2>3, <3>1
  <2>5. \A p, q \in particiones : p.libre /\ q.libre => p = q
    BY <2>3, LugarUnico
  <2>6. QED
    BY <2>4, <2>5
<1>2. QED
  BY InvarianteDelCiclo, <1>1, PTL DEF Spec, CompactacionCompleta

\* With ejecutarCicloNormal, whatever its frequency and for every pair of algorithms, the
\* partitions do what a cache may do and nothing else (l.543-569): the safety half of
\* ImplementaCache.  Merges, splits and compactions are stutters.
THEOREM ImplementaCacheSinFallas ==
  ASSUME \A c \in Configuraciones : c.FRECUENCIA_COMPACTACION # -1
  PROVE  Spec => ImplementaCacheSegura
<1>1. Init => FRECUENCIA_COMPACTACION # -1
  BY DEF Init, FRECUENCIA_COMPACTACION
<1>2. [Next]_vars => FRECUENCIA_COMPACTACION' = FRECUENCIA_COMPACTACION
  BY DEF FRECUENCIA_COMPACTACION, vars, Next, Ciclo, SinMasMensajes, CachearMensaje, NoCachear,
         AlmacenarNormal, AlmacenarAlternativo, AlmacenarFinal, EliminarParticion, Consolidar,
         AvanzarConsolidacion, TerminarConsolidacion, CompactarMemoria, MoverParticion,
         AvanzarCompactacion, TerminarCompactacion, EnviarUltimo, AgregarIdCola
<1> DEFINE Normal == FRECUENCIA_COMPACTACION # -1
<1>3. Normal /\ [Next]_vars => Normal'
  BY <1>2
<1>4. IInv /\ Identidad /\ Unicas /\ Normal /\ IInv' /\ [Next]_vars
        => [Abs!NextCache]_(Abs!varsCache)
  BY PasoCache
<1>5. Init => Normal
  BY <1>1
<1> HIDE DEF Normal
<1>6. Spec => []IInv /\ []Identidad
  BY InvarianteDelCiclo, PTL
<1>7. Spec => []Normal
  BY <1>3, <1>5, PTL DEF Spec
<1>8. []IInv /\ []Identidad /\ Unicas /\ [][Next]_vars => []Unicas
  BY PasoUnicas, PTL
<1>9. QED
  BY <1>4, <1>6, <1>7, <1>8, InicioCache, PTL DEF Spec, ImplementaCacheSegura
==============================================================================
