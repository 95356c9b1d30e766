SPECIFICATION ConnectionSpec
INVARIANT Handshake
PROPERTIES NoReturn
