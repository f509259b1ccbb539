\* Every payload; the id and the name are arbitrary. The builders reserve so
\* little that most messages make them grow, several times.
SPECIFICATION Spec
CONSTANTS
    Messages <- MCMessages
    Id = 7
    InitialSize = 32
    Position <- MCPosition
    Look <- MCLook
    Name <- MCName
    Origins <- MCOrigins
    Directions <- MCDirections
    Others <- MCOthers
    Radius = 2
    HalfHeight = 4
    MaxRange = 12
INVARIANTS
    TypeOK
    RoundTrip
    Relayed
    HitIsFirst
