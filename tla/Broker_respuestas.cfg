SPECIFICATION FairSpec
CONSTANTS
  Cola <- ColaDeRegistro
  Correlativo <- CorrelativoDeRegistro
  Publicador <- PublicadorDeRegistro
  Nadie = Nadie
  Mensajes <- TresRespuestas
  Suscriptores <- UnTeam
  CapacidadCache = 2
  ALGORITMO_MEMORIA = "PARTICIONES"
  Sockets = {s1, s2}
  MaxConexiones = 2
  Largos = {}
INVARIANTS NoCae ConfirmadoListado RespuestaUnica
PROPERTY RespuestaLlega
CHECK_DEADLOCK FALSE
