SPECIFICATION Spec
CONSTANTS
  TAMANO_MEMORIA = 8
  TAMANO_MINIMO_PARTICION = 2
  Configuraciones <- AmbosCiclos
  TamanosMensaje <- Tamanos
  MaxMensajes = 4
  MaxEnvios = 1
INVARIANTS TypeOK Particionado ContenidoIntegro SinLibresContiguas HayVictima MueveOcupadas AlcanzablePorSuscriptores
PROPERTIES CompactacionCompleta
\* With -1, storing the message a second time may find no room: the program ends there.
CHECK_DEADLOCK FALSE
