SPECIFICATION FairSpec
CONSTANTS
  Cola <- ColaDeRegistro
  Correlativo <- CorrelativoDeRegistro
  Publicador <- PublicadorDeRegistro
  Nadie = Nadie
  Mensajes <- RespuestasDeDos
  Suscriptores <- UnTeam
  CapacidadCache = 2
  ALGORITMO_MEMORIA = "PARTICIONES"
  Sockets = {s1, s2}
  MaxConexiones = 2
  Largos = {}
INVARIANTS TypeOK
PROPERTY LlegaASuscriptos
CHECK_DEADLOCK FALSE
