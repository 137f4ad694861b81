SPECIFICATION FairSpec
CONSTANTS
  TAMANO_MEMORIA = 8
  TAMANO_MINIMO_PARTICION = 2
  Configuraciones <- CicloNormal
  TamanosMensaje <- TamanosConLargo
  MaxMensajes = 4
  MaxEnvios = 1
PROPERTIES ImplementaCache
