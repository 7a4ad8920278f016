SPECIFICATION Spec
CONSTANTS
    Connections = {c1}
    Limit = 1
    MaxBody = 1
    EndpointCodes = {"provider_error"}
    Watched = {}
    None = None
PROPERTY DisconnectLineIsNull
