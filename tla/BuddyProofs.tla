----------------------------- MODULE BuddyProofs -----------------------------
(****************************************************************************)
(* Proofs about Buddy for every power of two as size of the memory and of   *)
(* the smallest partition, every pair of algorithms and every message size: *)
(* the types, the tiling of the memory, the integrity of the cached bytes   *)
(* and the size of the occupied partitions.                                 *)
(*                                                                          *)
(* None of the last three is inductive alone.  A store keeps the bytes of   *)
(* the others only if the partition it fills is free and holds the message, *)
(* which the search establishes and every halving keeps (PorPartir); that   *)
(* halving never goes below the minimum is a fact about powers of two       *)
(* (AlMenosElDoble), and that a merge leaves a power of two follows from    *)
(* the tiling: the sum of two equal powers fits in the memory.              *)
(****************************************************************************)
EXTENDS BuddyCache, Lemas, TLAPS

\* While a message is being cached it is a real one that fits.
MensajeValido ==
  pc # "libre" => mensaje.id \in Nat /\ mensaje.tam \in 1..TAMANO_MEMORIA

\* The partition being halved is free, holds the message and is not below the minimum.
PorPartir ==
  pc = "partir" => \A p \in particiones :
    p.pos = index => p.libre /\ mensaje.tam <= p.tam /\ TAMANO_MINIMO_PARTICION <= p.tam

\* The inductive invariant.
IInv == /\ TypeOK
        /\ MensajeValido
        /\ PorPartir
        /\ Particionado
        /\ ContenidoIntegro
        /\ TamanoJusto

------------------------------------------------------------------------------
(* Powers of two. *)

LEMMA PotenciasNaturales ==
  /\ TAMANO_MEMORIA \in Nat
  /\ \A n \in Potencias : n \in Nat /\ n >= 1 /\ n <= TAMANO_MEMORIA
  /\ TAMANO_MINIMO_PARTICION \in Potencias
<1>1. Potencias \subseteq 1..TAMANO_MEMORIA /\ TAMANO_MEMORIA \in Nat
  BY BuddyAssumption
<1>2. QED
  BY <1>1, BuddyAssumption

\* A power of two above another is at least its double: halve both until the lower is 1.
LEMMA AlMenosElDoble ==
  ASSUME NEW m \in Potencias, NEW n \in Potencias, m < n
  PROVE  m <= n \div 2
<1>0. Potencias \subseteq Nat
  BY BuddyAssumption
<1> DEFINE T == {k \in Potencias : \E l \in Potencias : l < k /\ k < 2 * l}
<1>1. T = {}
  <2> SUFFICES ASSUME T # {}
               PROVE  FALSE
    OBVIOUS
  <2>1. T \subseteq Nat
    BY <1>0
  <2>2. PICK k \in T : \A j \in T : k <= j
    <3> HIDE DEF T
    <3>1. QED
      BY <2>1, Minimo
  <2>3. PICK l \in Potencias : l < k /\ k < 2 * l
    OBVIOUS
  <2>4. k \in Nat /\ l \in Nat /\ k > 1 /\ l > 1
    BY <2>3, BuddyAssumption
  <2>5. k % 2 = 0 /\ l % 2 = 0 /\ k \div 2 \in Potencias /\ l \div 2 \in Potencias
    BY <2>3, <2>4, BuddyAssumption
  <2>6. l \div 2 < k \div 2 /\ k \div 2 < 2 * (l \div 2) /\ k \div 2 < k
    BY <2>3, <2>4, <2>5
  <2>7. k \div 2 \in T
    BY <2>5, <2>6
  <2>8. QED
    BY <2>2, <2>4, <2>6, <2>7
<1>2. ~(n < 2 * m)
  BY <1>1
<1>3. m \in Nat /\ n \in Nat /\ n % 2 = 0
  BY BuddyAssumption
<1>4. QED
  BY <1>2, <1>3

\* What halving a partition gives.
LEMMA Mitades ==
  ASSUME NEW n \in Potencias, n > 1
  PROVE  /\ n \in Nat /\ n <= TAMANO_MEMORIA
         /\ n \div 2 \in Potencias /\ n \div 2 \in Nat \ {0} /\ n \div 2 + n \div 2 = n
BY BuddyAssumption

------------------------------------------------------------------------------
(* The geometry of the memory. *)

Tila(P) ==
  /\ \A p \in P : p.pos + p.tam <= TAMANO_MEMORIA
  /\ \A p, q \in P : p # q => p.pos + p.tam <= q.pos \/ q.pos + q.tam <= p.pos
  /\ \A b \in Bytes : \E p \in P : p.pos <= b /\ b < p.pos + p.tam

LEMMA Tipos ==
  ASSUME NEW p \in Particion
  PROVE  /\ p.pos \in Nat /\ p.tam \in Nat /\ p.tam >= 1 /\ p.tam \in Potencias
         /\ p.pos \in Bytes /\ p.libre \in BOOLEAN
<1>1. /\ p.pos \in Bytes /\ p.tam \in Potencias /\ p.libre \in BOOLEAN
  BY DEF Particion
<1>2. QED
  BY <1>1, PotenciasNaturales DEF Bytes

\* A set of partitions that tiles the memory still does when those inside [x, y) are
\* replaced by others that tile [x, y).
LEMMA Retila ==
  ASSUME NEW P, NEW O, NEW N, NEW x \in Nat, NEW y \in Nat,
         P \subseteq Particion, N \subseteq Particion, O \subseteq P, y <= TAMANO_MEMORIA,
         Tila(P),
         \A o \in O : x <= o.pos /\ o.pos + o.tam <= y,
         \A r \in P \ O : r.pos + r.tam <= x \/ y <= r.pos,
         \A n \in N : x <= n.pos /\ n.pos + n.tam <= y,
         \A n, m \in N : n # m => n.pos + n.tam <= m.pos \/ m.pos + m.tam <= n.pos,
         \A b \in Bytes : x <= b /\ b < y => \E n \in N : n.pos <= b /\ b < n.pos + n.tam
  PROVE  Tila((P \ O) \cup N)
<1> DEFINE Q == (P \ O) \cup N
<1>a. TAMANO_MEMORIA \in Nat
  BY BuddyAssumption
<1>0. \A p \in Q : p \in Particion /\ p.pos \in Nat /\ p.tam \in Nat
  BY Tipos
<1>1. \A p \in Q : p.pos + p.tam <= TAMANO_MEMORIA
  BY <1>a, <1>0 DEF Tila
<1>2. \A p, q \in Q : p # q => p.pos + p.tam <= q.pos \/ q.pos + q.tam <= p.pos
  <2> SUFFICES ASSUME NEW p \in Q, NEW q \in Q, p # q
               PROVE  p.pos + p.tam <= q.pos \/ q.pos + q.tam <= p.pos
    OBVIOUS
  <2>0. /\ p.pos \in Nat /\ p.tam \in Nat
        /\ q.pos \in Nat /\ q.tam \in Nat
    BY <1>0
  <2>1. CASE p \in P \ O /\ q \in P \ O
    BY <2>1 DEF Tila
  <2>2. CASE p \in P \ O /\ q \in N
    <3>1. (p.pos + p.tam <= x \/ y <= p.pos) /\ x <= q.pos /\ q.pos + q.tam <= y
      BY <2>2
    <3>2. QED
      BY <2>0, <3>1
  <2>3. CASE p \in N /\ q \in P \ O
    <3>1. (q.pos + q.tam <= x \/ y <= q.pos) /\ x <= p.pos /\ p.pos + p.tam <= y
      BY <2>3
    <3>2. QED
      BY <2>0, <3>1
  <2>4. CASE p \in N /\ q \in N
    BY <2>4
  <2>5. QED
    BY <2>1, <2>2, <2>3, <2>4
<1>3. \A b \in Bytes : \E p \in Q : p.pos <= b /\ b < p.pos + p.tam
  <2> SUFFICES ASSUME NEW b \in Bytes
               PROVE  \E p \in Q : p.pos <= b /\ b < p.pos + p.tam
    OBVIOUS
  <2>a. b \in Nat
    BY DEF Bytes
  <2>1. CASE x <= b /\ b < y
    BY <2>1
  <2>2. CASE ~(x <= b /\ b < y)
    <3>1. PICK p \in P : p.pos <= b /\ b < p.pos + p.tam
      BY DEF Tila
    <3>2. p.pos \in Nat /\ p.tam \in Nat
      BY Tipos
    <3>3. p \notin O
      BY <2>a, <2>2, <3>1, <3>2
    <3>4. QED
      BY <3>1, <3>3
  <2>3. QED
    BY <2>1, <2>2
<1>4. QED
  BY <1>1, <1>2, <1>3 DEF Tila

\* No two partitions start at the same place.
LEMMA UnaPorPosicion ==
  ASSUME particiones \subseteq Particion, Particionado,
         NEW p \in particiones, NEW q \in particiones, p.pos = q.pos
  PROVE  p = q
<1>1. /\ p.pos \in Nat /\ p.tam \in Nat /\ p.tam >= 1
      /\ q.pos \in Nat /\ q.tam \in Nat /\ q.tam >= 1
  BY Tipos
<1>2. p # q => p.pos + p.tam <= q.pos \/ q.pos + q.tam <= p.pos
  BY DEF Particionado
<1>3. QED
  BY <1>1, <1>2

\* In a tiled memory the next partition of the list starts where this one ends.
LEMMA SiguienteContigua ==
  ASSUME particiones \subseteq Particion, Particionado,
         NEW p \in particiones, NEW q \in Siguiente(p.pos)
  PROVE  q \in particiones /\ q # p /\ q.pos = p.pos + p.tam
<1>a. TAMANO_MEMORIA \in Nat
  BY BuddyAssumption
<1>b. \A r \in particiones : r.pos \in Nat /\ r.tam \in Nat /\ r.tam >= 1 /\ r.pos < TAMANO_MEMORIA
  BY <1>a, Tipos DEF Bytes
<1>1. q \in particiones /\ q.pos > p.pos /\ q # p
  BY <1>b DEF Siguiente
<1>2. p.pos + p.tam <= q.pos
  BY <1>1, <1>b DEF Particionado
<1>3. p.pos + p.tam \in Bytes
  BY <1>1, <1>2, <1>a, <1>b DEF Bytes
<1>4. PICK r \in particiones : r.pos <= p.pos + p.tam /\ p.pos + p.tam < r.pos + r.tam
  BY <1>3 DEF Particionado
<1>5. r # p
  BY <1>4, <1>b
<1>6. p.pos + p.tam <= r.pos \/ r.pos + r.tam <= p.pos
  BY <1>5 DEF Particionado
<1>7. r.pos = p.pos + p.tam
  BY <1>4, <1>6, <1>b
<1>8. q.pos <= r.pos
  BY <1>7, <1>b DEF Siguiente
<1>9. QED
  BY <1>1, <1>2, <1>7, <1>8, <1>b

------------------------------------------------------------------------------
(* What each operation on the partitions preserves. *)

\* The variables that only a typing is known of after a step on the partitions.
TipoMemoria ==
  /\ particiones \subseteq Particion
  /\ memoria \in [Bytes -> (Nat \cup {NoId}) \X Nat]
  /\ colaMensajes \in Seq(Nat)
  /\ CONTADORLRUBUDDY \in Nat

MemoriaInv == TipoMemoria /\ Particionado /\ ContenidoIntegro /\ TamanoJusto

\* Free partitions O that lie in [x, y) give way to others, N, that cover the same bytes.
CambianLibres(O, N, x, y) ==
  /\ x \in Nat /\ y \in Nat /\ y <= TAMANO_MEMORIA
  /\ O \subseteq particiones /\ N \subseteq Particion
  /\ \A n \in N : n.libre
  /\ \A o \in O : x <= o.pos /\ o.pos + o.tam <= y
  /\ \A r \in particiones \ O : r.pos + r.tam <= x \/ y <= r.pos
  /\ \A n \in N : x <= n.pos /\ n.pos + n.tam <= y
  /\ \A n, m \in N : n # m => n.pos + n.tam <= m.pos \/ m.pos + m.tam <= n.pos
  /\ \A b \in Bytes : x <= b /\ b < y => \E n \in N : n.pos <= b /\ b < n.pos + n.tam
  /\ particiones' = (particiones \ O) \cup N

\* Such a replacement touches no message.
LEMMA LibresPorLibres ==
  ASSUME IInv, NEW O, NEW N, NEW x, NEW y, CambianLibres(O, N, x, y),
         UNCHANGED <<memoria, colaMensajes, CONTADORLRUBUDDY>>
  PROVE  MemoriaInv'
<1>1. particiones \subseteq Particion /\ Tila(particiones)
  BY DEF IInv, TypeOK, Particionado, Tila
<1>2. Tila((particiones \ O) \cup N)
  BY <1>1, Retila DEF CambianLibres
<1>0. particiones' = (particiones \ O) \cup N /\ N \subseteq Particion /\ \A n \in N : n.libre
  BY DEF CambianLibres
<1>3. Particionado'
  BY <1>0, <1>2 DEF Particionado, Tila
<1>4. TipoMemoria'
  BY <1>0, <1>1 DEF TipoMemoria, IInv, TypeOK
<1>5. Ocupadas' \subseteq Ocupadas
  BY <1>0 DEF Ocupadas
<1>6. ContenidoIntegro' /\ TamanoJusto'
  BY <1>5 DEF ContenidoIntegro, TamanoJusto, IInv
<1>7. QED
  BY <1>3, <1>4, <1>6 DEF MemoriaInv

\* Splitting: the two halves cover the bytes of the whole.
LEMMA PartirPreserva ==
  ASSUME IInv, pc = "partir", NEW p \in particiones, p.pos = index, Partible(p),
         particiones' = (particiones \ {p}) \cup {Mitad(p), BuddyDe(p)},
         UNCHANGED <<memoria, colaMensajes, CONTADORLRUBUDDY, mensaje, index, pc>>
  PROVE  MemoriaInv' /\ PorPartir'
<1> DEFINE h == p.tam \div 2
           x == p.pos
           y == p.pos + p.tam
<1>1. particiones \subseteq Particion /\ Particionado /\ TAMANO_MEMORIA \in Nat
  BY BuddyAssumption DEF IInv, TypeOK
<1>2. p \in Particion /\ p.pos \in Nat /\ p.tam \in Potencias
  BY <1>1, Tipos
<1>3. TAMANO_MINIMO_PARTICION \in Potencias /\ TAMANO_MINIMO_PARTICION \in Nat \ {0}
  BY PotenciasNaturales
<1>4. /\ p.tam \in Nat /\ p.tam > TAMANO_MINIMO_PARTICION /\ mensaje.tam <= h
      /\ p.tam > 1
  <2>1. p.tam \in Nat
    BY <1>2, PotenciasNaturales
  <2>2. QED
    BY <1>3, <2>1 DEF Partible
<1>5. h \in Potencias /\ h \in Nat /\ h > 0 /\ h + h = p.tam /\ p.tam <= TAMANO_MEMORIA
  BY <1>2, <1>4, Mitades
<1>6. TAMANO_MINIMO_PARTICION <= h
  BY <1>2, <1>3, <1>4, AlMenosElDoble
<1>7. p.libre /\ mensaje.tam \in Nat
  BY DEF IInv, PorPartir, TypeOK
<1>8. p.pos + p.tam <= TAMANO_MEMORIA
  BY <1>1 DEF Particionado
<1>9. /\ Mitad(p) \in Particion /\ Mitad(p).libre /\ Mitad(p).pos = x /\ Mitad(p).tam = h
  BY <1>2, <1>5, <1>7 DEF Mitad, Particion
<1>10. x + h \in Bytes
  BY <1>1, <1>2, <1>5, <1>8 DEF Bytes
<1>11. /\ BuddyDe(p) \in Particion /\ BuddyDe(p).libre
       /\ BuddyDe(p).pos = x + h /\ BuddyDe(p).tam = h
  BY <1>5, <1>10 DEF BuddyDe, Particion, NoId
<1>12. \A r \in particiones \ {p} : r.pos + r.tam <= x \/ y <= r.pos
  BY <1>1 DEF Particionado
<1> DEFINE N == {Mitad(p), BuddyDe(p)}
<1>13. /\ x \in Nat /\ y \in Nat /\ y <= TAMANO_MEMORIA /\ y = x + h + h
  BY <1>2, <1>4, <1>5, <1>8
<1>14. \A n \in N : n \in Particion /\ n.libre /\ x <= n.pos /\ n.pos + n.tam <= y
  BY <1>9, <1>11, <1>13, <1>5
<1>15. \A n, m \in N : n # m => n.pos + n.tam <= m.pos \/ m.pos + m.tam <= n.pos
  BY <1>9, <1>11, <1>13, <1>5
<1>16. ASSUME NEW b \in Bytes, x <= b, b < y
       PROVE  \E n \in N : n.pos <= b /\ b < n.pos + n.tam
  <2>1. b \in Nat
    BY DEF Bytes
  <2>2. CASE b < x + h
    BY <1>9, <1>16, <2>2
  <2>3. CASE x + h <= b
    BY <1>11, <1>13, <1>16, <1>5, <2>1, <2>3
  <2>4. QED
    BY <2>1, <2>2, <2>3, <1>5, <1>13
<1>17. MemoriaInv'
  <2>1. \A o \in {p} : x <= o.pos /\ o.pos + o.tam <= y
    BY <1>2, <1>4
  <2>2. {p} \subseteq particiones /\ N \subseteq Particion /\ \A n \in N : n.libre
    BY <1>14
  <2>3. particiones' = (particiones \ {p}) \cup N
    OBVIOUS
  <2>4. /\ \A n \in N : x <= n.pos /\ n.pos + n.tam <= y
        /\ \A b \in Bytes : x <= b /\ b < y => \E n \in N : n.pos <= b /\ b < n.pos + n.tam
    BY <1>14, <1>16
  <2> HIDE DEF N, x, y, h
  <2>5. CambianLibres({p}, N, x, y)
    BY <1>12, <1>13, <1>15, <2>1, <2>2, <2>3, <2>4 DEF CambianLibres
  <2>6. QED
    BY <2>5, LibresPorLibres
<1>18. PorPartir'
  <2> SUFFICES ASSUME NEW r \in particiones', r.pos = index
               PROVE  r.libre /\ mensaje.tam <= r.tam /\ TAMANO_MINIMO_PARTICION <= r.tam
    BY DEF PorPartir
  <2>1. CASE r \in N
    <3>1. r.tam = h /\ r.libre
      BY <1>9, <1>11, <2>1
    <3>2. QED
      BY <1>4, <1>6, <3>1
  <2>2. CASE r \notin N
    <3>1. r \in particiones /\ r # p
      BY <2>2
    <3>2. QED
      BY <1>1, <3>1, UnaPorPosicion
  <2>3. QED
    BY <2>1, <2>2
<1>19. QED
  BY <1>17, <1>18

\* Merging two equal free neighbours covers the same bytes, and the sum of two equal
\* powers that fits in the memory is a power.
LEMMA UnirPreserva ==
  ASSUME IInv, NEW p \in particiones, NEW q \in Siguiente(p.pos), Unibles(p, q),
         particiones' = (particiones \ {p, q}) \cup {[p EXCEPT !.tam = p.tam + q.tam]},
         UNCHANGED <<memoria, colaMensajes, CONTADORLRUBUDDY>>
  PROVE  MemoriaInv'
<1> DEFINE u == [p EXCEPT !.tam = p.tam + q.tam]
           x == p.pos
           y == p.pos + p.tam + q.tam
<1>1. particiones \subseteq Particion /\ Particionado /\ TAMANO_MEMORIA \in Nat
  BY BuddyAssumption DEF IInv, TypeOK
<1>2. q \in particiones /\ q # p /\ q.pos = p.pos + p.tam
  BY <1>1, SiguienteContigua
<1>3. /\ p \in Particion /\ p.pos \in Nat /\ p.tam \in Nat /\ p.tam \in Potencias
      /\ q.pos \in Nat /\ q.tam \in Nat
  BY <1>1, <1>2, Tipos
<1>4. x \in Nat /\ y \in Nat /\ y <= TAMANO_MEMORIA
  BY <1>1, <1>2, <1>3 DEF Particionado
<1>5. p.tam = q.tam /\ p.libre
  BY DEF Unibles
<1>6. 2 * p.tam \in Potencias
  <2>1. 2 * p.tam <= TAMANO_MEMORIA
    BY <1>1, <1>3, <1>4, <1>5
  <2>2. QED
    BY <1>3, <2>1, BuddyAssumption
<1>7. p.tam + q.tam = 2 * p.tam
  BY <1>3, <1>5
<1>8. u \in Particion /\ u.libre /\ u.pos = x /\ u.tam = p.tam + q.tam /\ u.pos + u.tam = y
  BY <1>3, <1>5, <1>6, <1>7 DEF Particion
<1>9. \A r \in particiones \ {p, q} : r.pos + r.tam <= x \/ y <= r.pos
  <2> SUFFICES ASSUME NEW r \in particiones \ {p, q}
               PROVE  r.pos + r.tam <= x \/ y <= r.pos
    OBVIOUS
  <2>1. r.pos + r.tam <= p.pos \/ p.pos + p.tam <= r.pos
    BY <1>1 DEF Particionado
  <2>2. r.pos + r.tam <= q.pos \/ q.pos + q.tam <= r.pos
    BY <1>1, <1>2 DEF Particionado
  <2>3. r.pos \in Nat /\ r.tam \in Nat /\ r.tam >= 1
    BY <1>1, Tipos
  <2>4. QED
    BY <1>2, <1>3, <2>1, <2>2, <2>3
<1>10. \A o \in {p, q} : x <= o.pos /\ o.pos + o.tam <= y
  BY <1>2, <1>3
<1>11. {p, q} \subseteq particiones /\ {u} \subseteq Particion
  BY <1>2, <1>8
<1>12. /\ \A n \in {u} : n.libre /\ x <= n.pos /\ n.pos + n.tam <= y
       /\ \A n, m \in {u} : n # m => n.pos + n.tam <= m.pos \/ m.pos + m.tam <= n.pos
       /\ \A b \in Bytes : x <= b /\ b < y => \E n \in {u} : n.pos <= b /\ b < n.pos + n.tam
  BY <1>3, <1>4, <1>8
<1>13. particiones' = (particiones \ {p, q}) \cup {u}
  OBVIOUS
<1> HIDE DEF u, x, y
<1>14. CambianLibres({p, q}, {u}, x, y)
  BY <1>4, <1>9, <1>10, <1>11, <1>12, <1>13 DEF CambianLibres
<1>15. QED
  BY <1>14, LibresPorLibres

\* Storing writes inside the partition the halving arrived at, which is free.
LEMMA AlmacenarPreserva ==
  ASSUME IInv, pc = "partir", NEW p \in particiones, p.pos = index, ~Partible(p),
         particiones' = (particiones \ {p}) \cup {Cargada(p)}, memoria' = Copiar(p.pos),
         colaMensajes' \in Seq(Nat), CONTADORLRUBUDDY' = CONTADORLRUBUDDY + 1
  PROVE  MemoriaInv'
<1> DEFINE t == mensaje.tam
           c == Cargada(p)
<1>1. particiones \subseteq Particion /\ Particionado /\ TAMANO_MEMORIA \in Nat
  BY PotenciasNaturales DEF IInv, TypeOK
<1>2. /\ p \in Particion /\ p.pos \in Nat /\ p.tam \in Nat /\ p.tam \in Potencias
      /\ p.pos \in Bytes
  BY <1>1, Tipos
<1>3. p.libre /\ t <= p.tam /\ TAMANO_MINIMO_PARTICION <= p.tam
  BY DEF IInv, PorPartir
<1>4. t \in 1..TAMANO_MEMORIA /\ mensaje.id \in Nat /\ CONTADORLRUBUDDY \in Nat
  BY DEF IInv, TypeOK, MensajeValido
<1>5. p.pos + p.tam <= TAMANO_MEMORIA
  BY <1>1 DEF Particionado
<1>6. /\ c \in Particion /\ ~c.libre /\ c.pos = p.pos /\ c.tam = p.tam
      /\ c.tamMsg = t /\ c.id = mensaje.id
  BY <1>2, <1>4 DEF Cargada, Particion, NoId
<1>7. \A r \in particiones \ {p} : r.pos + r.tam <= p.pos \/ p.pos + p.tam <= r.pos
  BY <1>1 DEF Particionado
<1>8. Tila((particiones \ {p}) \cup {c})
  <2> DEFINE x == p.pos
             y == p.pos + p.tam
  <2>1. x \in Nat /\ y \in Nat /\ y <= TAMANO_MEMORIA
    BY <1>2, <1>5
  <2>2. \A n \in {c} : x <= n.pos /\ n.pos + n.tam <= y
    BY <1>2, <1>6
  <2>3. \A b \in Bytes : x <= b /\ b < y => \E n \in {c} : n.pos <= b /\ b < n.pos + n.tam
    BY <1>6
  <2>4. \A o \in {p} : x <= o.pos /\ o.pos + o.tam <= y
    BY <1>2
  <2>5. \A n, m \in {c} : n # m => n.pos + n.tam <= m.pos \/ m.pos + m.tam <= n.pos
    OBVIOUS
  <2>6. {p} \subseteq particiones /\ {c} \subseteq Particion /\ Tila(particiones)
    BY <1>1, <1>6 DEF Particionado, Tila
  <2>7. \A r \in particiones \ {p} : r.pos + r.tam <= x \/ y <= r.pos
    BY <1>7
  <2> HIDE DEF c, x, y
  <2>8. QED
    BY <1>1, <2>1, <2>2, <2>3, <2>4, <2>5, <2>6, <2>7, Retila
<1>9. Particionado'
  BY <1>8 DEF Particionado, Tila
<1>10. TipoMemoria'
  <2>1. ASSUME NEW b \in Bytes, p.pos <= b, b < p.pos + t
        PROVE  <<mensaje.id, b - p.pos>> \in (Nat \cup {NoId}) \X Nat
    BY <1>2, <1>4, <2>1 DEF Bytes
  <2>2. \A b \in Bytes : memoria[b] \in (Nat \cup {NoId}) \X Nat
    BY DEF IInv, TypeOK
  <2>3. memoria' \in [Bytes -> (Nat \cup {NoId}) \X Nat]
    BY <2>1, <2>2 DEF Copiar
  <2>4. particiones' \subseteq Particion /\ CONTADORLRUBUDDY' \in Nat
    BY <1>1, <1>4, <1>6
  <2>5. QED
    BY <2>3, <2>4 DEF TipoMemoria
<1>11. ContenidoIntegro'
  <2> SUFFICES ASSUME NEW r \in particiones', ~r.libre
               PROVE  /\ r.tamMsg \in 1..r.tam
                      /\ \A k \in 0 .. r.tamMsg - 1 : memoria'[r.pos + k] = <<r.id, k>>
    BY DEF ContenidoIntegro, Ocupadas
  <2>1. CASE r = c
    <3>1. ASSUME NEW k \in 0 .. t - 1
          PROVE  memoria'[p.pos + k] = <<mensaje.id, k>>
      <4>1. /\ p.pos + k \in Bytes /\ p.pos <= p.pos + k /\ p.pos + k < p.pos + t
            /\ (p.pos + k) - p.pos = k
        BY <1>1, <1>2, <1>3, <1>4, <1>5 DEF Bytes
      <4>2. QED
        BY <4>1 DEF Copiar
    <3>2. QED
      BY <1>2, <1>3, <1>4, <1>6, <2>1, <3>1
  <2>2. CASE r # c
    <3>1. r \in particiones /\ r # p /\ r \in Ocupadas
      BY <2>2 DEF Ocupadas
    <3>2. /\ r.tamMsg \in 1..r.tam
          /\ \A k \in 0 .. r.tamMsg - 1 : memoria[r.pos + k] = <<r.id, k>>
      BY <3>1 DEF IInv, ContenidoIntegro
    <3>3. r.pos + r.tam <= p.pos \/ p.pos + p.tam <= r.pos
      BY <1>7, <3>1
    <3>4. r.pos \in Nat /\ r.tam \in Nat /\ r.pos + r.tam <= TAMANO_MEMORIA
      BY <1>1, <3>1, Tipos DEF Particionado
    <3>5. ASSUME NEW k \in 0 .. r.tamMsg - 1
          PROVE  memoria'[r.pos + k] = memoria[r.pos + k]
      <4>1. r.pos + k \in Bytes
        BY <1>1, <3>2, <3>4 DEF Bytes
      <4>2. ~(p.pos <= r.pos + k /\ r.pos + k < p.pos + t)
        BY <1>2, <1>3, <1>4, <3>2, <3>3, <3>4
      <4>3. QED
        BY <4>1, <4>2 DEF Copiar
    <3>6. QED
      BY <3>2, <3>5
  <2>3. QED
    BY <2>1, <2>2
<1>12. TamanoJusto'
  <2>1. \/ c.tam = TAMANO_MINIMO_PARTICION
        \/ c.tam > TAMANO_MINIMO_PARTICION /\ c.tam \div 2 < c.tamMsg
    <3>1. TAMANO_MINIMO_PARTICION \in Nat /\ p.tam \div 2 \in Int
      BY <1>2, PotenciasNaturales
    <3>2. QED
      BY <1>2, <1>3, <1>4, <1>6, <3>1 DEF Partible
  <2>2. \A r \in Ocupadas' : r = c \/ r \in Ocupadas
    BY DEF Ocupadas
  <2> HIDE DEF c
  <2>3. QED
    BY <2>1, <2>2 DEF TamanoJusto, IInv
<1>13. QED
  BY <1>9, <1>10, <1>11, <1>12 DEF MemoriaInv

\* Replacing each partition by one with the same place, size and message, freed or not,
\* changes nothing of what is kept.
LEMMA CambiarPreserva ==
  ASSUME IInv, NEW f, particiones' = {f[p] : p \in particiones},
         \A p \in particiones :
           /\ f[p] \in Particion /\ f[p].pos = p.pos /\ f[p].tam = p.tam
           /\ f[p].tamMsg = p.tamMsg /\ f[p].id = p.id
           /\ ~f[p].libre => ~p.libre,
         memoria' = memoria, colaMensajes' \in Seq(Nat), CONTADORLRUBUDDY' \in Nat
  PROVE  MemoriaInv'
<1>1. ASSUME NEW r \in particiones'
      PROVE  \E p \in particiones : r = f[p]
  OBVIOUS
<1>2. Particionado
  BY DEF IInv
<1>3. TipoMemoria'
  BY DEF TipoMemoria, IInv, TypeOK
<1>4. Particionado'
  <2>1. \A r \in particiones' : r.pos + r.tam <= TAMANO_MEMORIA
    BY <1>2 DEF Particionado
  <2>2. ASSUME NEW r \in particiones', NEW s \in particiones', r # s
        PROVE  r.pos + r.tam <= s.pos \/ s.pos + s.tam <= r.pos
    <3>1. PICK p \in particiones : r = f[p]
      BY <1>1
    <3>2. PICK q \in particiones : s = f[q]
      BY <1>1
    <3>3. p # q
      BY <2>2, <3>1, <3>2
    <3>4. QED
      BY <1>2, <3>1, <3>2, <3>3 DEF Particionado
  <2>3. ASSUME NEW b \in Bytes
        PROVE  \E r \in particiones' : r.pos <= b /\ b < r.pos + r.tam
    <3>1. PICK p \in particiones : p.pos <= b /\ b < p.pos + p.tam
      BY <1>2 DEF Particionado
    <3>2. f[p] \in particiones'
      OBVIOUS
    <3>3. QED
      BY <3>1, <3>2
  <2>4. QED
    BY <2>1, <2>2, <2>3 DEF Particionado
<1>5. ASSUME NEW r \in Ocupadas'
      PROVE  \E p \in Ocupadas : /\ r.pos = p.pos /\ r.tam = p.tam
                                 /\ r.tamMsg = p.tamMsg /\ r.id = p.id
  BY <1>1 DEF Ocupadas
<1>6. ContenidoIntegro'
  <2> SUFFICES ASSUME NEW r \in Ocupadas'
               PROVE  /\ r.tamMsg \in 1..r.tam
                      /\ \A k \in 0 .. r.tamMsg - 1 : memoria'[r.pos + k] = <<r.id, k>>
    BY DEF ContenidoIntegro
  <2>1. PICK p \in Ocupadas : /\ r.pos = p.pos /\ r.tam = p.tam
                              /\ r.tamMsg = p.tamMsg /\ r.id = p.id
    BY <1>5
  <2>2. QED
    BY <2>1 DEF ContenidoIntegro, IInv
<1>7. TamanoJusto'
  BY <1>5 DEF TamanoJusto, IInv
<1>8. QED
  BY <1>3, <1>4, <1>6, <1>7 DEF MemoriaInv

LEMMA EliminarPreserva ==
  ASSUME IInv, EliminarParticionBuddy
  PROVE  MemoriaInv' /\ queue' \subseteq Nat
<1>1. PICK id \in 0 .. MaxMensajes - 1 :
        /\ Victima(id)
        /\ particiones' = {CambiarALibre(p, id) : p \in particiones}
        /\ queue' = IF \E p \in particiones : p.id = id THEN queue \ {id} ELSE queue
  BY DEF EliminarParticionBuddy
<1> DEFINE f == [p \in particiones |-> CambiarALibre(p, id)]
<1>2. particiones' = {f[p] : p \in particiones}
  BY <1>1
<1>3. \A p \in particiones : p \in Particion
  BY DEF IInv, TypeOK
<1>4. \A p \in particiones :
        /\ f[p] \in Particion /\ f[p].pos = p.pos /\ f[p].tam = p.tam
        /\ f[p].tamMsg = p.tamMsg /\ f[p].id = p.id
        /\ ~f[p].libre => ~p.libre
  BY <1>3 DEF CambiarALibre, Particion
<1>5. memoria' = memoria /\ CONTADORLRUBUDDY' \in Nat
  BY DEF EliminarParticionBuddy, IInv, TypeOK
<1>6. colaMensajes' \in Seq(Nat)
  <2>1. colaMensajes \in Seq(Nat)
    BY DEF IInv, TypeOK
  <2>2. \/ colaMensajes # <<>> /\ colaMensajes' = Tail(colaMensajes)
        \/ colaMensajes' = colaMensajes
    BY <1>1 DEF Victima
  <2>3. QED
    BY <2>1, <2>2
<1>7. queue' \subseteq Nat
  BY <1>1 DEF IInv, TypeOK
<1> HIDE DEF f
<1>8. QED
  BY <1>2, <1>4, <1>5, <1>6, <1>7, CambiarPreserva

LEMMA EnviarPreserva ==
  ASSUME IInv, EnviarUltimo
  PROVE  MemoriaInv'
<1>1. PICK o \in Ocupadas :
        particiones' = (particiones \ {o}) \cup {[o EXCEPT !.lru = CONTADORLRUBUDDY + 1]}
  BY DEF EnviarUltimo
<1> DEFINE m == [o EXCEPT !.lru = CONTADORLRUBUDDY + 1]
           f == [p \in particiones |-> IF p = o THEN m ELSE p]
<1>2. o \in particiones
  BY DEF Ocupadas
<1>3. \A p \in particiones : p \in Particion
  BY DEF IInv, TypeOK
<1>4. CONTADORLRUBUDDY \in Nat
  BY DEF IInv, TypeOK
<1>5. /\ m \in Particion /\ m.pos = o.pos /\ m.tam = o.tam
      /\ m.tamMsg = o.tamMsg /\ m.id = o.id /\ m.libre = o.libre
  BY <1>2, <1>3, <1>4 DEF Particion
<1>6. particiones' = (particiones \ {o}) \cup {m}
  BY <1>1
<1> HIDE DEF m
<1>7. particiones' = {f[p] : p \in particiones}
  BY <1>2, <1>6
<1>8. \A p \in particiones :
        /\ f[p] \in Particion /\ f[p].pos = p.pos /\ f[p].tam = p.tam
        /\ f[p].tamMsg = p.tamMsg /\ f[p].id = p.id
        /\ ~f[p].libre => ~p.libre
  BY <1>3, <1>5
<1>9. memoria' = memoria /\ CONTADORLRUBUDDY' \in Nat /\ colaMensajes' \in Seq(Nat)
  BY <1>4 DEF EnviarUltimo, IInv, TypeOK
<1> HIDE DEF f
<1>10. QED
  BY <1>7, <1>8, <1>9, CambiarPreserva

\* Steps that leave the partitions, the bytes, the FIFO queue and the LRU counter alone.
LEMMA SinCambioPreserva ==
  ASSUME IInv, UNCHANGED <<particiones, memoria, colaMensajes, CONTADORLRUBUDDY>>
  PROVE  MemoriaInv'
BY DEF IInv, TypeOK, MemoriaInv, TipoMemoria, Particionado, ContenidoIntegro, TamanoJusto,
       Ocupadas

------------------------------------------------------------------------------
(* The control variables. *)

Control ==
  /\ config \in Configuraciones
  /\ queue \subseteq Nat
  /\ porEncolar \subseteq Nat
  /\ ID_INICIAL \in 0..MaxMensajes
  /\ mensaje \in [id : Nat \cup {NoId}, tam : 0..TAMANO_MEMORIA]
  /\ index \in 0..TAMANO_MEMORIA
  /\ pc \in {"libre", "buscar", "partir", "consolidar"}
  /\ MensajeValido

\* The inductive invariant, taken apart before a step and put together after it.
LEMMA PartesDeIInv == /\ IInv => Control
                      /\ MemoriaInv' /\ Control' /\ PorPartir' => IInv'
BY DEF IInv, TypeOK, MemoriaInv, TipoMemoria, Control

LEMMA InicioIInv == Init => IInv
<1> SUFFICES ASSUME Init PROVE IInv
  OBVIOUS
<1> DEFINE p0 == [pos |-> 0, tam |-> TAMANO_MEMORIA, libre |-> TRUE,
                  id |-> NoId, tamMsg |-> -1, lru |-> -1]
<1>1. particiones = {p0} /\ TAMANO_MEMORIA \in Nat /\ TAMANO_MEMORIA >= 1
  BY PotenciasNaturales, BuddyAssumption DEF Init
<1>2. p0 \in Particion
  BY <1>1, BuddyAssumption DEF Particion, Bytes, NoId
<1>3. /\ memoria \in [Bytes -> (Nat \cup {NoId}) \X Nat] /\ colaMensajes \in Seq(Nat)
      /\ CONTADORLRUBUDDY \in Nat /\ queue \subseteq Nat /\ porEncolar \subseteq Nat
  BY DEF Init, Basura, NoId
<1>4. /\ ID_INICIAL \in 0..MaxMensajes /\ index \in 0..TAMANO_MEMORIA
      /\ mensaje \in [id : Nat \cup {NoId}, tam : 0..TAMANO_MEMORIA]
      /\ config \in Configuraciones /\ pc = "libre"
  <2>1. MaxMensajes \in Nat
    BY BuddyAssumption
  <2>2. QED
    BY <1>1, <2>1 DEF Init, NoMensaje, NoId
<1>5. TypeOK /\ MensajeValido /\ PorPartir
  BY <1>1, <1>2, <1>3, <1>4 DEF TypeOK, MensajeValido, PorPartir
<1>6. ContenidoIntegro /\ TamanoJusto
  BY <1>1 DEF ContenidoIntegro, TamanoJusto, Ocupadas
<1>7. Particionado
  BY <1>1 DEF Particionado, Bytes
<1>8. QED
  BY <1>5, <1>6, <1>7 DEF IInv

\* Where the cursor goes there is a partition, or the end of the memory.
LEMMA CursorEnMemoria ==
  ASSUME IInv, NEW x, NEW q \in Siguiente(x)
  PROVE  /\ q \in particiones /\ q.pos \in 0..TAMANO_MEMORIA
         /\ Posterior(q.pos) \subseteq 0..TAMANO_MEMORIA
<1>1. TAMANO_MEMORIA \in Nat /\ \A p \in particiones : p.pos \in Bytes
  BY PotenciasNaturales DEF IInv, TypeOK, Particion
<1>2. Bytes \subseteq 0..TAMANO_MEMORIA /\ TAMANO_MEMORIA \in 0..TAMANO_MEMORIA
  BY <1>1 DEF Bytes
<1>3. QED
  BY <1>1, <1>2 DEF Siguiente, Posterior

\* Every step of the Broker preserves the inductive invariant.
LEMMA PasoIInv == IInv /\ [Next]_vars => IInv'
<1> SUFFICES ASSUME IInv, [Next]_vars
             PROVE  IInv'
  OBVIOUS
<1>0. Control
  BY PartesDeIInv
<1>c. 0 \in 0..TAMANO_MEMORIA
  BY PotenciasNaturales
<1>1. ASSUME NEW t \in TamanosMensaje, CachearMensajeBuddy(t)
      PROVE  IInv'
  <2>1. MemoriaInv'
    BY <1>1, SinCambioPreserva DEF CachearMensajeBuddy
  <2>2. t \in 1..TAMANO_MEMORIA
    BY <1>1, BuddyAssumption, PotenciasNaturales DEF CachearMensajeBuddy
  <2>3. ID_INICIAL \in Nat /\ ID_INICIAL' \in 0..MaxMensajes
    BY <1>0, <1>1, BuddyAssumption DEF Control, CachearMensajeBuddy
  <2>4. mensaje' = [id |-> ID_INICIAL, tam |-> t] /\ pc' = "buscar"
    BY <1>1 DEF CachearMensajeBuddy
  <2>5. Control' /\ PorPartir'
    BY <1>0, <1>1, <2>2, <2>3, <2>4 DEF CachearMensajeBuddy, Control, MensajeValido, PorPartir
  <2>6. QED
    BY <2>1, <2>5, PartesDeIInv
<1>2. ASSUME NEW t \in TamanosMensaje, NoCachear(t)
      PROVE  IInv'
  <2>1. MemoriaInv'
    BY <1>2, SinCambioPreserva DEF NoCachear
  <2>2. ID_INICIAL \in Nat /\ ID_INICIAL' \in 0..MaxMensajes
    BY <1>0, <1>2, BuddyAssumption DEF Control, NoCachear
  <2>3. Control' /\ PorPartir'
    BY <1>0, <1>2, <2>2 DEF NoCachear, Control, MensajeValido, PorPartir
  <2>4. QED
    BY <2>1, <2>3, PartesDeIInv
<1>3. ASSUME Buscar
      PROVE  IInv'
  <2>1. MemoriaInv'
    BY <1>3, SinCambioPreserva DEF Buscar
  <2>2. PICK p \in Elegibles(mensaje.tam) : index' = p.pos
    BY <1>3 DEF Buscar
  <2>3. /\ p \in particiones /\ p.libre
        /\ mensaje.tam <= p.tam /\ TAMANO_MINIMO_PARTICION <= p.tam
    BY DEF Elegibles, PrimeraLibre, MejorLibre, Candidatas
  <2>4. particiones \subseteq Particion /\ Particionado
    BY DEF IInv, TypeOK
  <2>5. PorPartir'
    <3> SUFFICES ASSUME NEW r \in particiones', r.pos = index'
                 PROVE  /\ r.libre /\ mensaje'.tam <= r.tam
                        /\ TAMANO_MINIMO_PARTICION <= r.tam
      BY DEF PorPartir
    <3>1. r \in particiones /\ mensaje' = mensaje /\ r.pos = p.pos
      BY <1>3, <2>2 DEF Buscar
    <3>2. r = p
      BY <2>3, <2>4, <3>1, UnaPorPosicion
    <3>3. QED
      BY <2>3, <3>1, <3>2
  <2>6. index' \in 0..TAMANO_MEMORIA
    BY <2>2, <2>3, <2>4, Tipos, PotenciasNaturales DEF Bytes
  <2>7. Control'
    BY <1>0, <1>3, <2>6 DEF Buscar, Control, MensajeValido
  <2>8. QED
    BY <2>1, <2>5, <2>7, PartesDeIInv
<1>4. ASSUME Partir
      PROVE  IInv'
  <2>1. PICK p \in particiones :
          /\ p.pos = index /\ Partible(p)
          /\ particiones' = (particiones \ {p}) \cup {Mitad(p), BuddyDe(p)}
    BY <1>4 DEF Partir
  <2>2. pc = "partir" /\ UNCHANGED <<memoria, colaMensajes, CONTADORLRUBUDDY, mensaje, index, pc>>
    BY <1>4 DEF Partir
  <2>3. MemoriaInv' /\ PorPartir'
    BY <2>1, <2>2, PartirPreserva
  <2>4. Control'
    BY <1>0, <1>4 DEF Partir, Control, MensajeValido
  <2>5. QED
    BY <2>3, <2>4, PartesDeIInv
<1>5. ASSUME Almacenar
      PROVE  IInv'
  <2>1. PICK p \in particiones :
          /\ p.pos = index /\ ~Partible(p)
          /\ particiones' = (particiones \ {p}) \cup {Cargada(p)}
          /\ memoria' = Copiar(p.pos)
    BY <1>5 DEF Almacenar
  <2>2. mensaje.id \in Nat /\ colaMensajes \in Seq(Nat)
    BY <1>5 DEF Almacenar, IInv, TypeOK, MensajeValido
  <2>3. /\ pc = "partir" /\ colaMensajes' \in Seq(Nat)
        /\ CONTADORLRUBUDDY' = CONTADORLRUBUDDY + 1
    BY <1>5, <2>2 DEF Almacenar
  <2>4. MemoriaInv'
    BY <2>1, <2>3, AlmacenarPreserva
  <2>5. mensaje' \in [id : Nat \cup {NoId}, tam : 0..TAMANO_MEMORIA]
    BY <1>5, <1>c DEF Almacenar, NoMensaje
  <2>6. Control' /\ PorPartir'
    BY <1>0, <1>5, <2>2, <2>5 DEF Almacenar, Control, MensajeValido, PorPartir
  <2>7. QED
    BY <2>4, <2>6, PartesDeIInv
<1>6. ASSUME EliminarParticionBuddy
      PROVE  IInv'
  <2>1. MemoriaInv' /\ queue' \subseteq Nat
    BY <1>6, EliminarPreserva
  <2>2. Control' /\ PorPartir'
    BY <1>0, <1>6, <1>c, <2>1 DEF EliminarParticionBuddy, Control, MensajeValido, PorPartir
  <2>3. QED
    BY <2>1, <2>2, PartesDeIInv
<1>7. ASSUME Unir
      PROVE  IInv'
  <2>1. PICK p \in particiones, q \in Siguiente(index) :
          /\ p.pos = index /\ Unibles(p, q)
          /\ particiones' = (particiones \ {p, q}) \cup {[p EXCEPT !.tam = p.tam + q.tam]}
    BY <1>7 DEF Unir
  <2>2. UNCHANGED <<memoria, colaMensajes, CONTADORLRUBUDDY>>
    BY <1>7 DEF Unir
  <2>3. MemoriaInv'
    BY <2>1, <2>2, UnirPreserva
  <2>4. Control' /\ PorPartir'
    BY <1>0, <1>7 DEF Unir, Control, MensajeValido, PorPartir
  <2>5. QED
    BY <2>3, <2>4, PartesDeIInv
<1>8. ASSUME Avanzar
      PROVE  IInv'
  <2>1. MemoriaInv'
    BY <1>8, SinCambioPreserva DEF Avanzar
  <2>2. PICK q \in Siguiente(index) : index' \in Posterior(q.pos) \/ index' = q.pos
    BY <1>8 DEF Avanzar
  <2>3. index' \in 0..TAMANO_MEMORIA
    BY <2>2, CursorEnMemoria
  <2>4. Control' /\ PorPartir'
    BY <1>0, <1>8, <2>3 DEF Avanzar, Control, MensajeValido, PorPartir
  <2>5. QED
    BY <2>1, <2>4, PartesDeIInv
<1>9. ASSUME TerminarConsolidacion
      PROVE  IInv'
  <2>1. MemoriaInv'
    BY <1>9, SinCambioPreserva DEF TerminarConsolidacion
  <2>2. Control' /\ PorPartir'
    BY <1>0, <1>9, <1>c DEF TerminarConsolidacion, Control, MensajeValido, PorPartir
  <2>3. QED
    BY <2>1, <2>2, PartesDeIInv
<1>10. ASSUME EnviarUltimo
       PROVE  IInv'
  <2>1. Control' /\ PorPartir'
    BY <1>0, <1>10 DEF EnviarUltimo, Control, MensajeValido, PorPartir
  <2>2. QED
    BY <1>10, <2>1, EnviarPreserva, PartesDeIInv
<1>11. ASSUME NEW id \in porEncolar, AgregarIdCola(id)
       PROVE  IInv'
  <2>1. MemoriaInv'
    BY <1>11, SinCambioPreserva DEF AgregarIdCola
  <2>2. Control' /\ PorPartir'
    BY <1>0, <1>11 DEF AgregarIdCola, Control, MensajeValido, PorPartir, IInv
  <2>3. QED
    BY <2>1, <2>2, PartesDeIInv
<1>12. CASE UNCHANGED vars
  <2>1. MemoriaInv'
    BY <1>12, SinCambioPreserva DEF vars
  <2>2. Control' /\ PorPartir'
    BY <1>0, <1>12 DEF vars, Control, MensajeValido, PorPartir, IInv
  <2>3. QED
    BY <2>1, <2>2, PartesDeIInv
<1>13. QED
  BY <1>1, <1>2, <1>3, <1>4, <1>5, <1>6, <1>7, <1>8, <1>9, <1>10, <1>11, <1>12
  DEF Next, Ciclo, SinMasMensajes

------------------------------------------------------------------------------
(* The theorems. *)

\* The inductive invariant holds in every reachable state of the buddy memory.
THEOREM Invariante == Spec => []IInv
<1>1. IInv /\ [][Next]_vars => []IInv
  BY PasoIInv, PTL
<1>2. QED
  BY InicioIInv, <1>1, PTL DEF Spec

\* Every partition keeps a power of two as its size, merges of partitions that are not
\* buddies included, and the cursor of the merge never leaves the list by more than one
\* (BuddySystem.c:431-464).
THEOREM TiposCorrectos == Spec => []TypeOK
<1>1. IInv => TypeOK
  BY DEF IInv
<1>2. QED
  BY Invariante, <1>1, PTL

\* For every configuration the partitions tile the memory through splits and merges
\* (BuddySystem.c:131-134, 431-464).
THEOREM MemoriaParticionada == Spec => []Particionado
<1>1. IInv => Particionado
  BY DEF IInv
<1>2. QED
  BY Invariante, <1>1, PTL

\* For every configuration a cached message keeps its bytes: no store writes past the
\* partition it was given nor into one that holds another message (BuddySystem.c:113-157).
THEOREM MensajesIntegros == Spec => []ContenidoIntegro
<1>1. IInv => ContenidoIntegro
  BY DEF IInv
<1>2. QED
  BY Invariante, <1>1, PTL

\* For every power of two as the minimum, an occupied partition is the smallest that the
\* buddy system can give its message (BuddySystem.c:131-134, 266-269).
THEOREM ParticionesJustas == Spec => []TamanoJusto
<1>1. IInv => TamanoJusto
  BY DEF IInv
<1>2. QED
  BY Invariante, <1>1, PTL

------------------------------------------------------------------------------
(****************************************************************************)
(* The buddy system implements the abstract cache, for every power of two   *)
(* as size of the memory and of the smallest partition and every pair of    *)
(* algorithms: each of its steps is one of CacheMensajes or changes nothing *)
(* there.  BuddyProofs gives the bytes of a cached message; what has to be  *)
(* added is who the messages are (Identidad): an eviction frees the         *)
(* partitions with an id, which must be a single message, and the FIFO      *)
(* queue must name the oldest one.                                          *)
(****************************************************************************)


\* Each cached message has an id of its own, below that of the one being cached, and the
\* FIFO queue has all of them in order.
Identidad ==
  /\ \A p \in Ocupadas : p.id \in Nat /\ p.id < ID_INICIAL
  /\ \A p, q \in Ocupadas : p.id = q.id => p = q
  /\ pc # "libre" => /\ mensaje.id < ID_INICIAL
                     /\ \A p \in Ocupadas : p.id < mensaje.id
  /\ pc = "libre" => mensaje = NoMensaje
  /\ ALGORITMO_REEMPLAZO = "FIFO" =>
       Elementos(colaMensajes) = {p.id : p \in Ocupadas} /\ Creciente(colaMensajes)

------------------------------------------------------------------------------
(* What becomes of the occupied partitions. *)

\* Steps that replace free partitions by free ones.
LEMMA MismasOcupadas ==
  ASSUME NEW O, NEW N, \A o \in O : o.libre, \A n \in N : n.libre,
         particiones' = (particiones \ O) \cup N
  PROVE  Ocupadas' = Ocupadas
BY DEF Ocupadas

LEMMA AlmacenarOcupadas ==
  ASSUME NEW p \in particiones, p.libre, particiones' = (particiones \ {p}) \cup {Cargada(p)}
  PROVE  Ocupadas' = Ocupadas \cup {Cargada(p)}
<1>1. ~Cargada(p).libre
  BY DEF Cargada
<1>2. QED
  BY <1>1 DEF Ocupadas

LEMMA EliminarOcupadas ==
  ASSUME IInv, NEW id, particiones' = {CambiarALibre(p, id) : p \in particiones}
  PROVE  Ocupadas' = {p \in Ocupadas : p.id # id}
<1>1. particiones \subseteq Particion
  BY DEF IInv, TypeOK
<1>2. \A p \in particiones :
        /\ p.id # id => CambiarALibre(p, id) = p
        /\ p.id = id => CambiarALibre(p, id).libre
  BY <1>1 DEF CambiarALibre, Particion
<1>3. QED
  BY <1>2 DEF Ocupadas

LEMMA EnviarOcupadas ==
  ASSUME NEW p \in Ocupadas, NEW x,
         particiones' = (particiones \ {p}) \cup {[p EXCEPT !.lru = x]}, IInv
  PROVE  Ocupadas' = (Ocupadas \ {p}) \cup {[p EXCEPT !.lru = x]}
<1>1. p \in Particion /\ ~p.libre
  BY DEF IInv, TypeOK, Ocupadas
<1>2. ~[p EXCEPT !.lru = x].libre
  BY <1>1 DEF Particion
<1>3. QED
  BY <1>1, <1>2 DEF Ocupadas

------------------------------------------------------------------------------
(* The invariant. *)

LEMMA InicioIdentidad == Init => Identidad
<1> SUFFICES ASSUME Init
             PROVE  Identidad
  OBVIOUS
<1>1. Ocupadas = {}
  BY DEF Init, Ocupadas
<1>2. Elementos(<<>>) = {} /\ Creciente(<<>>)
  BY DEF Elementos, Creciente
<1>3. colaMensajes = <<>> /\ pc = "libre" /\ mensaje = NoMensaje
  BY DEF Init
<1>4. QED
  BY <1>1, <1>2, <1>3 DEF Identidad

LEMMA AlmacenarIdentidad ==
  ASSUME IInv, Identidad, Almacenar
  PROVE  Identidad'
<1>1. PICK p \in particiones :
        /\ p.pos = index
        /\ particiones' = (particiones \ {p}) \cup {Cargada(p)}
  BY DEF Almacenar
<1>2. /\ pc = "partir" /\ pc' = "libre" /\ mensaje' = NoMensaje
      /\ ID_INICIAL' = ID_INICIAL /\ config' = config
      /\ colaMensajes' = IF ALGORITMO_REEMPLAZO = "FIFO"
                         THEN Append(colaMensajes, mensaje.id) ELSE colaMensajes
  BY DEF Almacenar
<1>3. p.libre
  BY <1>1, <1>2 DEF IInv, PorPartir
<1>4. Ocupadas' = Ocupadas \cup {Cargada(p)}
  BY <1>1, <1>3, AlmacenarOcupadas
<1>5. mensaje.id \in Nat /\ colaMensajes \in Seq(Nat)
  BY <1>2 DEF IInv, TypeOK, MensajeValido
<1>6. Cargada(p).id = mensaje.id
  BY DEF Cargada
<1>7. mensaje.id < ID_INICIAL /\ \A q \in Ocupadas : q.id \in Nat /\ q.id < mensaje.id
  BY <1>2 DEF Identidad
<1>8. /\ \A q \in Ocupadas' : q.id \in Nat /\ q.id < ID_INICIAL'
      /\ \A q, r \in Ocupadas' : q.id = r.id => q = r
  <2>1. \A q \in Ocupadas : q.id # mensaje.id
    BY <1>5, <1>7
  <2>2. QED
    BY <1>2, <1>4, <1>5, <1>6, <1>7, <2>1 DEF Identidad
<1>9. ASSUME ALGORITMO_REEMPLAZO' = "FIFO"
      PROVE  /\ Elementos(colaMensajes') = {q.id : q \in Ocupadas'}
             /\ Creciente(colaMensajes')
  <2>1. ALGORITMO_REEMPLAZO = "FIFO" /\ colaMensajes' = Append(colaMensajes, mensaje.id)
    BY <1>2, <1>9 DEF ALGORITMO_REEMPLAZO
  <2>2. Elementos(colaMensajes) = {q.id : q \in Ocupadas} /\ Creciente(colaMensajes)
    BY <2>1 DEF Identidad
  <2>3. \A y \in Elementos(colaMensajes) : y < mensaje.id
    BY <1>7, <2>2
  <2>4. /\ Elementos(colaMensajes') = Elementos(colaMensajes) \cup {mensaje.id}
        /\ Creciente(colaMensajes')
    BY <1>5, <2>1, <2>2, <2>3, AgregarElemento
  <2>5. QED
    BY <1>4, <1>6, <2>2, <2>4
<1>10. QED
  BY <1>2, <1>8, <1>9 DEF Identidad

\* The message that an eviction gives up: the only one with its id, and the right one.
LEMMA VictimaUnica ==
  ASSUME IInv, Identidad, NEW id, Victima(id)
  PROVE  \E p \in Ocupadas : /\ p.id = id
                             /\ {q \in Ocupadas : q.id # id} = Ocupadas \ {p}
                             /\ \A q \in Ocupadas : IF ALGORITMO_REEMPLAZO = "FIFO"
                                                    THEN p.id <= q.id ELSE p.lru <= q.lru
<1>1. ASSUME NEW p \in Ocupadas, p.id = id
      PROVE  {q \in Ocupadas : q.id # id} = Ocupadas \ {p}
  BY <1>1 DEF Identidad
<1>2. CASE ALGORITMO_REEMPLAZO = "FIFO"
  <2>1. /\ colaMensajes \in Seq(Nat) /\ colaMensajes # <<>> /\ id = Head(colaMensajes)
    BY <1>2 DEF Victima, IInv, TypeOK
  <2>2. Elementos(colaMensajes) = {q.id : q \in Ocupadas} /\ Creciente(colaMensajes)
    BY <1>2 DEF Identidad
  <2>3. id \in Elementos(colaMensajes)
    BY <2>1, QuitarPrimero
  <2>4. PICK p \in Ocupadas : p.id = id
    BY <2>2, <2>3
  <2>5. \A y \in Elementos(colaMensajes) : id <= y
    <3> SUFFICES ASSUME NEW i \in 1..Len(colaMensajes)
                 PROVE  id <= colaMensajes[i]
      BY DEF Elementos
    <3>1. /\ Len(colaMensajes) \in Nat /\ id = colaMensajes[1] /\ colaMensajes[i] \in Nat
          /\ 1 \in 1..Len(colaMensajes) /\ id \in Nat
      BY <2>1
    <3>2. i = 1 \/ 1 < i
      BY <3>1
    <3>3. QED
      BY <2>2, <3>1, <3>2 DEF Creciente
  <2>6. QED
    BY <1>1, <1>2, <2>2, <2>4, <2>5
<1>3. CASE ALGORITMO_REEMPLAZO # "FIFO"
  <2>1. PICK p \in MenosUsadas : id = p.id
    BY <1>3 DEF Victima
  <2>2. p \in Ocupadas /\ \A q \in Ocupadas : p.lru <= q.lru
    BY DEF MenosUsadas
  <2>3. QED
    BY <1>1, <1>3, <2>1, <2>2
<1>4. QED
  BY <1>2, <1>3

LEMMA EliminarIdentidad ==
  ASSUME IInv, Identidad, EliminarParticionBuddy
  PROVE  Identidad'
<1>1. PICK id \in 0 .. MaxMensajes - 1 :
        /\ Victima(id)
        /\ particiones' = {CambiarALibre(p, id) : p \in particiones}
  BY DEF EliminarParticionBuddy
<1>2. /\ pc = "buscar" /\ pc' = "consolidar" /\ mensaje' = mensaje
      /\ ID_INICIAL' = ID_INICIAL /\ config' = config
  BY DEF EliminarParticionBuddy
<1>3. Ocupadas' = {p \in Ocupadas : p.id # id}
  BY <1>1, EliminarOcupadas
<1>4. ASSUME ALGORITMO_REEMPLAZO' = "FIFO"
      PROVE  /\ Elementos(colaMensajes') = {q.id : q \in Ocupadas'}
             /\ Creciente(colaMensajes')
  <2>1. ALGORITMO_REEMPLAZO = "FIFO"
    BY <1>2, <1>4 DEF ALGORITMO_REEMPLAZO
  <2>2. /\ colaMensajes \in Seq(Nat) /\ colaMensajes # <<>> /\ id = Head(colaMensajes)
        /\ colaMensajes' = Tail(colaMensajes)
    BY <1>1, <2>1 DEF Victima, IInv, TypeOK
  <2>3. Elementos(colaMensajes) = {q.id : q \in Ocupadas} /\ Creciente(colaMensajes)
    BY <2>1 DEF Identidad
  <2>4. /\ Elementos(colaMensajes') = Elementos(colaMensajes) \ {id}
        /\ Creciente(colaMensajes')
    BY <2>2, <2>3, QuitarPrimero
  <2>5. QED
    BY <1>3, <2>3, <2>4
<1>5. QED
  BY <1>2, <1>3, <1>4 DEF Identidad

LEMMA EnviarIdentidad ==
  ASSUME IInv, Identidad, EnviarUltimo
  PROVE  Identidad'
<1>1. PICK p \in Ocupadas :
        particiones' = (particiones \ {p}) \cup {[p EXCEPT !.lru = CONTADORLRUBUDDY + 1]}
  BY DEF EnviarUltimo
<1> DEFINE n == [p EXCEPT !.lru = CONTADORLRUBUDDY + 1]
<1>2. Ocupadas' = (Ocupadas \ {p}) \cup {n}
  BY <1>1, EnviarOcupadas
<1>3. n.id = p.id
  BY DEF IInv, TypeOK, Ocupadas, Particion
<1> HIDE DEF n
<1>4. /\ pc' = pc /\ mensaje' = mensaje /\ ID_INICIAL' = ID_INICIAL /\ config' = config
      /\ colaMensajes' = colaMensajes
  BY DEF EnviarUltimo
<1>5. {q.id : q \in Ocupadas'} = {q.id : q \in Ocupadas}
  BY <1>2, <1>3
<1>6. QED
  BY <1>2, <1>3, <1>4, <1>5 DEF Identidad, ALGORITMO_REEMPLAZO

\* Any step of the others leaves the occupied partitions and the queue alone.
Ajeno ==
  /\ Ocupadas' = Ocupadas
  /\ UNCHANGED <<config, memoria, colaMensajes, CONTADORLRUBUDDY, ID_INICIAL, mensaje>>

LEMMA UnirAjeno ==
  ASSUME IInv, Unir
  PROVE  Ajeno /\ pc' = pc
<1>1. PICK p \in particiones, q \in Siguiente(index) :
        /\ Unibles(p, q)
        /\ particiones' = (particiones \ {p, q}) \cup {[p EXCEPT !.tam = p.tam + q.tam]}
  BY DEF Unir
<1>2. p.libre /\ q.libre /\ p \in Particion
  BY <1>1 DEF Unibles, IInv, TypeOK
<1>3. [p EXCEPT !.tam = p.tam + q.tam].libre
  BY <1>2 DEF Particion
<1>4. Ocupadas' = Ocupadas
  BY <1>1, <1>2, <1>3 DEF Ocupadas
<1>5. QED
  BY <1>4 DEF Ajeno, Unir

LEMMA PartirAjeno ==
  ASSUME IInv, Partir
  PROVE  Ajeno /\ pc' = pc
<1>1. PICK p \in particiones :
        /\ p.pos = index
        /\ particiones' = (particiones \ {p}) \cup {Mitad(p), BuddyDe(p)}
  BY DEF Partir
<1>2. p.libre /\ p \in Particion
  BY <1>1 DEF Partir, IInv, TypeOK, PorPartir
<1>3. Mitad(p).libre /\ BuddyDe(p).libre
  BY <1>2 DEF Mitad, BuddyDe, Particion
<1>4. Ocupadas' = Ocupadas
  BY <1>1, <1>2, <1>3 DEF Ocupadas
<1>5. QED
  BY <1>4 DEF Ajeno, Partir

\* The other steps of the cycle and of the handlers that list ids.
LEMMA RestoAjeno ==
  ASSUME \/ Buscar \/ Avanzar \/ TerminarConsolidacion
         \/ \E id \in porEncolar : AgregarIdCola(id)
         \/ UNCHANGED vars
  PROVE  Ajeno /\ (pc' = "libre" <=> pc = "libre")
BY DEF Buscar, Avanzar, TerminarConsolidacion, AgregarIdCola, vars, Ajeno, Ocupadas

LEMMA AjenoIdentidad ==
  ASSUME Identidad, Ajeno, pc' = "libre" <=> pc = "libre"
  PROVE  Identidad'
BY DEF Identidad, Ajeno, ALGORITMO_REEMPLAZO

LEMMA PasoIdentidad == IInv /\ Identidad /\ [Next]_vars => Identidad'
<1> SUFFICES ASSUME IInv, Identidad, [Next]_vars
             PROVE  Identidad'
  OBVIOUS
<1>0. ID_INICIAL \in Nat
  BY BuddyAssumption DEF IInv, TypeOK
<1>1. ASSUME NEW t \in TamanosMensaje, CachearMensajeBuddy(t)
      PROVE  Identidad'
  <2>1. /\ Ocupadas' = Ocupadas /\ colaMensajes' = colaMensajes /\ config' = config
        /\ ID_INICIAL' = ID_INICIAL + 1 /\ pc' = "buscar" /\ mensaje'.id = ID_INICIAL
    BY <1>1 DEF CachearMensajeBuddy, Ocupadas
  <2>2. QED
    BY <1>0, <2>1 DEF Identidad, ALGORITMO_REEMPLAZO
<1>2. ASSUME NEW t \in TamanosMensaje, NoCachear(t)
      PROVE  Identidad'
  <2>1. /\ Ocupadas' = Ocupadas /\ colaMensajes' = colaMensajes /\ config' = config
        /\ ID_INICIAL' = ID_INICIAL + 1 /\ pc' = "libre" /\ mensaje' = mensaje /\ pc = "libre"
    BY <1>2 DEF NoCachear, Ocupadas
  <2>2. QED
    BY <1>0, <2>1 DEF Identidad, ALGORITMO_REEMPLAZO
<1>3. CASE Unir \/ Partir
  BY <1>3, UnirAjeno, PartirAjeno, AjenoIdentidad
<1>4. CASE \/ Buscar \/ Avanzar \/ TerminarConsolidacion
           \/ \E id \in porEncolar : AgregarIdCola(id)
           \/ UNCHANGED vars
  BY <1>4, RestoAjeno, AjenoIdentidad
<1>5. QED
  BY <1>1, <1>2, <1>3, <1>4, AlmacenarIdentidad, EliminarIdentidad, EnviarIdentidad
  DEF Next, Ciclo, SinMasMensajes

------------------------------------------------------------------------------
(* The refinement. *)

\* What is read in memory for an occupied partition is what was published.
Registro(p) == [id |-> p.id, tam |-> p.tamMsg, marca |-> p.lru,
                bytes |-> Abs!Contenido(p.id, p.tamMsg)]

LEMMA Registros == IInv => MensajesEnMemoria = {Registro(p) : p \in Ocupadas}
<1> SUFFICES ASSUME IInv
             PROVE  MensajesEnMemoria = {Registro(p) : p \in Ocupadas}
  OBVIOUS
<1>1. ASSUME NEW p \in Ocupadas
      PROVE  [k \in 0 .. p.tamMsg - 1 |-> memoria[p.pos + k]] = Abs!Contenido(p.id, p.tamMsg)
  BY DEF IInv, ContenidoIntegro, Abs!Contenido
<1>2. QED
  BY <1>1 DEF MensajesEnMemoria, Registro

LEMMA RegistrosDespues == IInv' => MensajesEnMemoria' = {Registro(p) : p \in Ocupadas'}
<1>1. (IInv => MensajesEnMemoria = {Registro(p) : p \in Ocupadas})'
  BY Registros, PTL
<1>2. QED
  BY <1>1 DEF Registro

\* A message that has been given a partition fits beside the others: their bytes are
\* values that memory holds outside that partition.
LEMMA CabeEnMemoria ==
  ASSUME IInv, pc = "partir", NEW p \in particiones, p.pos = index
  PROVE  Abs!Ocupado + mensaje.tam <= TAMANO_MEMORIA
<1> DEFINE F == p.pos .. p.pos + mensaje.tam - 1
           T == Bytes \ F
           f == [b \in T |-> memoria[b]]
           R == {memoria[b] : b \in T}
           U == UNION {Abs!Range(m.bytes) : m \in MensajesEnMemoria}
<1>1. /\ particiones \subseteq Particion /\ Particionado /\ TAMANO_MEMORIA \in Nat
      /\ mensaje.tam \in 1..TAMANO_MEMORIA /\ p.libre /\ mensaje.tam <= p.tam
  BY PotenciasNaturales DEF IInv, TypeOK, MensajeValido, PorPartir
<1>2. p.pos \in Nat /\ p.tam \in Nat /\ p.pos + p.tam <= TAMANO_MEMORIA
  BY <1>1, Tipos DEF Particionado
<1>3. F \subseteq Bytes
  BY <1>1, <1>2 DEF Bytes
<1>4. IsFiniteSet(Bytes) /\ Cardinality(Bytes) = TAMANO_MEMORIA
  BY <1>1, FS_Interval DEF Bytes
<1>5. IsFiniteSet(F) /\ Cardinality(F) = mensaje.tam
  <2>1. /\ p.pos \in Int /\ p.pos + mensaje.tam - 1 \in Int
        /\ ~(p.pos > p.pos + mensaje.tam - 1)
        /\ (p.pos + mensaje.tam - 1) - p.pos + 1 = mensaje.tam
    BY <1>1, <1>2
  <2>2. QED
    BY <2>1, FS_Interval
<1>6. IsFiniteSet(T) /\ Cardinality(T) = TAMANO_MEMORIA - mensaje.tam
  <2>1. Bytes \cap F = F
    BY <1>3
  <2> HIDE DEF F
  <2>2. IsFiniteSet(T) /\ Cardinality(T) = Cardinality(Bytes) - Cardinality(Bytes \cap F)
    BY <1>4, FS_Difference
  <2>3. QED
    BY <1>4, <1>5, <2>1, <2>2
<1>7. f \in Surjection(T, R)
  BY DEF Surjection
<1>8. IsFiniteSet(R) /\ Cardinality(R) <= TAMANO_MEMORIA - mensaje.tam
  <2> HIDE DEF f, T, R
  <2>1. QED
    BY <1>6, <1>7, FS_Surjection
<1>9. U \subseteq R
  <2> SUFFICES ASSUME NEW m \in MensajesEnMemoria, NEW v \in Abs!Range(m.bytes)
               PROVE  v \in R
    OBVIOUS
  <2>1. PICK q \in Ocupadas : m.bytes = [k \in 0 .. q.tamMsg - 1 |-> memoria[q.pos + k]]
    <3>1. PICK q \in Ocupadas :
            m = [id |-> q.id, tam |-> q.tamMsg, marca |-> q.lru,
                 bytes |-> [k \in 0 .. q.tamMsg - 1 |-> memoria[q.pos + k]]]
      BY DEF MensajesEnMemoria
    <3>2. QED
      BY <3>1
  <2>2. PICK k \in 0 .. q.tamMsg - 1 : v = memoria[q.pos + k]
    BY <2>1 DEF Abs!Range
  <2>3. q \in particiones /\ q # p /\ q.tamMsg \in 1..q.tam
    BY <1>1 DEF Ocupadas, IInv, ContenidoIntegro
  <2>4. /\ q.pos \in Nat /\ q.tam \in Nat /\ q.pos + q.tam <= TAMANO_MEMORIA
        /\ q.pos + q.tam <= p.pos \/ p.pos + p.tam <= q.pos
    BY <1>1, <2>3, Tipos DEF Particionado
  <2>5. q.pos + k \in Bytes
    BY <1>1, <2>3, <2>4 DEF Bytes
  <2>6. q.pos + k \notin F
    BY <1>1, <1>2, <2>3, <2>4
  <2>7. QED
    BY <2>2, <2>5, <2>6
<1>10. Abs!Ocupado <= Cardinality(R) /\ Abs!Ocupado \in Nat
  <2>1. IsFiniteSet(U) /\ Cardinality(U) <= Cardinality(R)
    BY <1>8, <1>9, FS_Subset
  <2>2. Cardinality(U) \in Nat
    BY <2>1, FS_CardinalityType
  <2> HIDE DEF R
  <2>3. Abs!Ocupado = Cardinality(U)
    BY DEF Abs!Ocupado, Abs!Cardinality, Cardinality
  <2>4. QED
    BY <2>1, <2>2, <2>3
<1>11. Cardinality(R) \in Nat
  BY <1>8, FS_CardinalityType
<1>12. QED
  <2> HIDE DEF R
  <2>1. QED
    BY <1>1, <1>8, <1>10, <1>11

LEMMA AlmacenarGuarda ==
  ASSUME IInv, Identidad, IInv', Almacenar
  PROVE  Abs!Guardar /\ UNCHANGED ALGORITMO_REEMPLAZO
<1>1. PICK p \in particiones :
        /\ p.pos = index
        /\ particiones' = (particiones \ {p}) \cup {Cargada(p)}
  BY DEF Almacenar
<1>2. /\ pc = "partir" /\ mensaje' = NoMensaje /\ ID_INICIAL' = ID_INICIAL
      /\ config' = config /\ CONTADORLRUBUDDY' = CONTADORLRUBUDDY + 1
  BY DEF Almacenar
<1>3. p.libre /\ mensaje.id \in Nat
  BY <1>1, <1>2 DEF IInv, PorPartir, MensajeValido
<1>4. Ocupadas' = Ocupadas \cup {Cargada(p)}
  BY <1>1, <1>3, AlmacenarOcupadas
<1>5. MensajesEnMemoria' = MensajesEnMemoria \cup {Registro(Cargada(p))}
  BY <1>4, Registros, RegistrosDespues
<1>6. Registro(Cargada(p)) = [id |-> mensaje.id, tam |-> mensaje.tam,
                              marca |-> CONTADORLRUBUDDY',
                              bytes |-> Abs!Contenido(mensaje.id, mensaje.tam)]
  BY <1>2 DEF Registro, Cargada
<1>7. mensaje # Abs!Ninguno
  BY <1>3 DEF Abs!Ninguno
<1>8. Abs!Ocupado + mensaje.tam <= TAMANO_MEMORIA
  BY <1>1, <1>2, CabeEnMemoria
<1>9. QED
  BY <1>2, <1>5, <1>6, <1>7, <1>8
  DEF Abs!Guardar, Abs!Ninguno, NoMensaje, NoId, ALGORITMO_REEMPLAZO

LEMMA EliminarDesaloja ==
  ASSUME IInv, Identidad, IInv', EliminarParticionBuddy
  PROVE  Abs!Desalojar /\ UNCHANGED ALGORITMO_REEMPLAZO
<1>1. PICK id \in 0 .. MaxMensajes - 1 :
        /\ Victima(id)
        /\ particiones' = {CambiarALibre(p, id) : p \in particiones}
  BY DEF EliminarParticionBuddy
<1>2. /\ pc = "buscar" /\ mensaje' = mensaje /\ ID_INICIAL' = ID_INICIAL
      /\ config' = config /\ CONTADORLRUBUDDY' = CONTADORLRUBUDDY
  BY DEF EliminarParticionBuddy
<1>3. PICK p \in Ocupadas : /\ p.id = id
                            /\ {q \in Ocupadas : q.id # id} = Ocupadas \ {p}
                            /\ \A q \in Ocupadas : IF ALGORITMO_REEMPLAZO = "FIFO"
                                                   THEN p.id <= q.id ELSE p.lru <= q.lru
  BY <1>1, VictimaUnica
<1>4. Ocupadas' = Ocupadas \ {p}
  BY <1>1, <1>3, EliminarOcupadas
<1>5. \A q \in Ocupadas : /\ Registro(q).id = q.id /\ Registro(q).marca = q.lru
                          /\ Registro(q) = Registro(p) => q = p
  BY DEF Registro, Identidad
<1>6. MensajesEnMemoria = {Registro(q) : q \in Ocupadas}
  BY Registros
<1>7. MensajesEnMemoria' = MensajesEnMemoria \ {Registro(p)}
  BY <1>4, <1>5, <1>6, RegistrosDespues
<1>8. Registro(p) \in MensajesEnMemoria /\ Abs!EsVictima(Registro(p))
  BY <1>3, <1>5, <1>6 DEF Abs!EsVictima
<1>9. mensaje # Abs!Ninguno
  BY <1>2 DEF IInv, MensajeValido, Abs!Ninguno
<1>10. QED
  BY <1>2, <1>7, <1>8, <1>9 DEF Abs!Desalojar, ALGORITMO_REEMPLAZO

LEMMA EnviarUsa ==
  ASSUME IInv, Identidad, IInv', EnviarUltimo
  PROVE  Abs!Usar /\ UNCHANGED ALGORITMO_REEMPLAZO
<1>1. PICK p \in Ocupadas :
        particiones' = (particiones \ {p}) \cup {[p EXCEPT !.lru = CONTADORLRUBUDDY + 1]}
  BY DEF EnviarUltimo
<1>2. /\ pc = "libre" /\ mensaje' = mensaje /\ ID_INICIAL' = ID_INICIAL
      /\ config' = config /\ CONTADORLRUBUDDY' = CONTADORLRUBUDDY + 1
  BY DEF EnviarUltimo
<1> DEFINE n == [p EXCEPT !.lru = CONTADORLRUBUDDY + 1]
<1>3. Ocupadas' = (Ocupadas \ {p}) \cup {n}
  BY <1>1, EnviarOcupadas
<1>4. Registro(n) = [Registro(p) EXCEPT !.marca = CONTADORLRUBUDDY']
  <2>1. p \in Particion
    BY DEF IInv, TypeOK, Ocupadas
  <2>2. n.id = p.id /\ n.tamMsg = p.tamMsg /\ n.lru = CONTADORLRUBUDDY'
    BY <1>2, <2>1 DEF Particion
  <2>3. QED
    BY <2>2 DEF Registro
<1> HIDE DEF n
<1>5. \A q \in Ocupadas : Registro(q) = Registro(p) => q = p
  BY DEF Registro, Identidad
<1>6. MensajesEnMemoria = {Registro(q) : q \in Ocupadas}
  BY Registros
<1>7. MensajesEnMemoria' = (MensajesEnMemoria \ {Registro(p)}) \cup {Registro(n)}
  BY <1>3, <1>5, <1>6, RegistrosDespues
<1>8. mensaje = Abs!Ninguno
  BY <1>2 DEF Identidad, Abs!Ninguno, NoMensaje, NoId
<1>9. QED
  BY <1>2, <1>4, <1>6, <1>7, <1>8 DEF Abs!Usar, ALGORITMO_REEMPLAZO

LEMMA AjenoNada ==
  ASSUME Ajeno
  PROVE  UNCHANGED Abs!varsCache
BY DEF Ajeno, MensajesEnMemoria, ALGORITMO_REEMPLAZO, Abs!varsCache

\* Every step of the buddy system is a step of the abstract cache, or none.
LEMMA PasoCache ==
  IInv /\ Identidad /\ IInv' /\ [Next]_vars => [Abs!NextCache]_(Abs!varsCache)
<1> SUFFICES ASSUME IInv, Identidad, IInv', [Next]_vars
             PROVE  [Abs!NextCache]_(Abs!varsCache)
  OBVIOUS
<1>1. ASSUME NEW t \in TamanosMensaje, CachearMensajeBuddy(t)
      PROVE  Abs!Pedir(t) /\ UNCHANGED ALGORITMO_REEMPLAZO
  <2>1. mensaje = Abs!Ninguno
    BY <1>1 DEF CachearMensajeBuddy, Identidad, Abs!Ninguno, NoMensaje, NoId
  <2>2. QED
    BY <1>1, <2>1
    DEF CachearMensajeBuddy, MensajesEnMemoria, Ocupadas, Abs!Pedir, ALGORITMO_REEMPLAZO
<1>2. ASSUME NEW t \in TamanosMensaje, NoCachear(t)
      PROVE  Abs!Rechazar(t) /\ UNCHANGED ALGORITMO_REEMPLAZO
  BY <1>2 DEF NoCachear, MensajesEnMemoria, Ocupadas, Abs!Rechazar, ALGORITMO_REEMPLAZO
<1>3. CASE Unir \/ Partir
  BY <1>3, UnirAjeno, PartirAjeno, AjenoNada
<1>4. CASE \/ Buscar \/ Avanzar \/ TerminarConsolidacion
           \/ \E id \in porEncolar : AgregarIdCola(id)
           \/ UNCHANGED vars
  BY <1>4, RestoAjeno, AjenoNada
<1>5. QED
  BY <1>1, <1>2, <1>3, <1>4, AlmacenarGuarda, EliminarDesaloja, EnviarUsa
  DEF Next, Ciclo, SinMasMensajes, Abs!NextCache

LEMMA InicioCache == Init => Abs!InitCache
<1> SUFFICES ASSUME Init
             PROVE  Abs!InitCache
  OBVIOUS
<1>1. Ocupadas = {}
  BY DEF Init, Ocupadas
<1>2. MensajesEnMemoria = {}
  BY <1>1 DEF MensajesEnMemoria
<1>3. ALGORITMO_REEMPLAZO \in {"FIFO", "LRU"}
  BY BuddyAssumption DEF Init, ALGORITMO_REEMPLAZO
<1>4. QED
  BY <1>2, <1>3 DEF Init, Abs!InitCache, Abs!Ninguno, NoMensaje, NoId

\* For every configuration of powers of two, the buddy system does what a cache may do and
\* nothing else: it keeps the bytes that were published, gives up one message at a time, the
\* one the algorithm says, and only while another waits (BuddySystem.c:28-44, 382-429).
THEOREM ImplementaCache == Spec => ImplementaCacheSegura
<1>1. Identidad /\ []IInv /\ [][Next]_vars => []Identidad
  BY PasoIdentidad, PTL
<1>2. Spec => []IInv /\ []Identidad
  BY Invariante, InicioIdentidad, <1>1, PTL DEF Spec
<1>3. []IInv /\ []Identidad /\ [][Next]_vars => [][Abs!NextCache]_(Abs!varsCache)
  BY PasoCache, PTL
<1>4. QED
  BY <1>2, <1>3, InicioCache, PTL DEF Spec, ImplementaCacheSegura
==============================================================================
