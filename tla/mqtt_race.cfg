SPECIFICATION WorkerSpec
PROPERTY DisconnectEndsTheSession
CHECK_DEADLOCK FALSE
