SPECIFICATION Spec
PROPERTIES
    SocketsLive
    ServicesLive
CHECK_DEADLOCK FALSE
