CONSTANTS
    Handlers = {h1, h2}
    MaxDay = 2
    MaxEvents = 2
SPECIFICATION AutoSpec
PROPERTIES
    OlderDayIgnored
CHECK_DEADLOCK FALSE
