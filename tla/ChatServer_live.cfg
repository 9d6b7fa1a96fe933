SPECIFICATION Endless
CONSTANTS
    Conns = {c1, c2}
    ShortConns = {}
    Slow = {}
    OneLine = {c2}
    TwoLines = {c1}
    MaxLines <- Lines
    NoConn = NoConn
    Listener = Listener
    MaxClients = 2
    Texts = {hi, Connected}
    Connected = Connected
    Newline = Newline
INVARIANT StreamKept
PROPERTIES
    EveryoneServed
    SlotsGivenBack
