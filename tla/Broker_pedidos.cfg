SPECIFICATION FairSpec
CONSTANTS
  Cola <- ColaDeRegistro
  Correlativo <- CorrelativoDeRegistro
  Publicador <- PublicadorDeRegistro
  Nadie = Nadie
  Mensajes <- NewYCatch
  Suscriptores <- DosGameCards
  CapacidadCache = 1
  ALGORITMO_MEMORIA = "BS"
  Sockets = {s1, s2}
  MaxConexiones = 2
  Largos = {}
INVARIANTS AckImplicaRecibido
PROPERTIES SeConfirma
CHECK_DEADLOCK FALSE
