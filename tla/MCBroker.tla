------------------------------- MODULE MCBroker -------------------------------
(* Instances of Broker for TLC.  A message or a subscriber is a record that says what it   *)
(* is for; a publisher is a thread of a GameCard, Team or GameBoy, which sends on a        *)
(* connection of its own and waits there for the confirmation.                             *)
EXTENDS Broker

ColaDeRegistro(x) == x.cola
CorrelativoDeRegistro(m) == m.correlativo
PublicadorDeRegistro(m) == m.publicador

Mensaje(cola, correlativo, publicador, n) ==
  [cola |-> cola, correlativo |-> correlativo, publicador |-> publicador, n |-> n]
Suscriptor(cola, pid) == [cola |-> cola, pid |-> pid]

\* Answers to NEW messages: three of one thread of a GameCard, the first of them twice.
Respuesta(n, correlativo, quien) == Mensaje("APPEARED", correlativo, quien, n)
TresRespuestas ==
  {Respuesta(1, 10, "gamecard"), Respuesta(2, 11, "gamecard"), Respuesta(3, 10, "gamecard")}
UnTeam == {Suscriptor("APPEARED", 1)}

\* Answers of a GameCard and of a GameBoy at a time.
RespuestasDeDos == {Respuesta(1, 10, "gamecard"), Respuesta(2, 11, "gameboy")}

\* Requests of a GameBoy and of a Team; the two subscriptions of a GameCard and one more.
NewYCatch == {Mensaje("NEW", 0, "gameboy", 1), Mensaje("CATCH", 0, "team", 2)}
DosGameCards == {Suscriptor("NEW", 1), Suscriptor("CATCH", 1), Suscriptor("NEW", 2)}

\* One NEW and one subscriber.
UnNew == {Mensaje("NEW", 0, "gameboy", 1)}
UnGameCard == {Suscriptor("NEW", 1)}
==============================================================================
