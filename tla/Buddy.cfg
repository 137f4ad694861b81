SPECIFICATION Spec
CONSTANTS
  TAMANO_MEMORIA = 8
  TAMANO_MINIMO_PARTICION = 1
  Configuraciones <- DosConfiguraciones
  Potencias <- Potencias8
  TamanosMensaje <- Tamanos8
  MaxMensajes = 4
  MaxEnvios = 1
INVARIANTS TypeOK Particionado ContenidoIntegro TamanoJusto
PROPERTIES ImplementaCacheSegura
\* An eviction that finds nothing to evict ends the program.
CHECK_DEADLOCK FALSE
