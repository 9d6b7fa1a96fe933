SPECIFICATION Spec
CONSTANTS
    Conns = {c1, c2}
    ShortConns = {}
    Slow = {}
    OneLine = {c1, c2}
    TwoLines = {}
    MaxLines <- Lines
    NoConn = NoConn
    Listener = Listener
    MaxClients = 2
    Texts = {Connected}
    Connected = Connected
    Newline = Newline
INVARIANT ServerSurvives
