SPECIFICATION FairSpec
CONSTANTS
  pikachu = pikachu
  onix = onix
  mew = mew
  Archivos = {pikachu, onix, mew}
  Posiciones = {1, 2, 3}
  Hilos <- MCHilos
  DelBroker <- MCDelBroker
  BLOCKS = 6
  LINEAS_POR_BLOQUE = 1
  BLOQUES_POR_LINEA <- MCBloquesPorLinea
  Casos <- MCCasos
INVARIANTS TypeOK BloqueDeUnSolo BloqueDelDisco  AbiertoConDueno SegfaultExplicado
PROPERTIES Terminan
CHECK_DEADLOCK FALSE
