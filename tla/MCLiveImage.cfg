CONSTANTS
    a = a
    b = b
    phone = phone
    door = door
    NoUID = NoUID
    NoThread = NoThread
    Cameras = {a, b}
    Layouts <- MCLayouts
    Handlers = {phone}
    Prewarmers = {door}
    Channels = {1, 2}
    Primary = 2
    MaxMoves = 1
    MaxRings = 2
SPECIFICATION Spec
INVARIANTS
    TypeOK
    RestartRestoresCatalog
    RightCamera
    OnlyRingsExtendFrames
