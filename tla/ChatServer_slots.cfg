SPECIFICATION Spec
CONSTANTS
    Conns = {c1, c2, c3}
    ShortConns = {c3}
    Slow = {c2}
    OneLine = {c1}
    TwoLines = {}
    MaxLines <- Lines
    NoConn = NoConn
    Listener = Listener
    MaxClients = 2
    Texts = {Connected}
    Connected = Connected
    Newline = Newline
INVARIANTS
    CountHonest
    NamesFit
    SameConversation
    OrderlyLeave
PROPERTY RoomSpec
