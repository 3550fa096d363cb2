CONSTANTS
    BUFFER_COUNT = 2
    Holder = {h1, h2, h3}
    None = None

SPECIFICATION Spec
PROPERTY EmptyPoolWaits
