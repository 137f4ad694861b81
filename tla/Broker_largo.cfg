SPECIFICATION Spec
CONSTANTS
  Cola <- ColaDeRegistro
  Correlativo <- CorrelativoDeRegistro
  Publicador <- PublicadorDeRegistro
  Nadie = Nadie
  Mensajes <- UnNew
  Suscriptores <- UnGameCard
  CapacidadCache = 1
  ALGORITMO_MEMORIA = "PARTICIONES"
  Sockets = {s1}
  MaxConexiones = 1
  Largos <- UnNew
INVARIANT LargoNoCae
CHECK_DEADLOCK FALSE
