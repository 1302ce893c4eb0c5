CONSTANTS
 Callers = {p1, p2, p3}
 NoStream = NoStream
 Length = 3
 Chunk = 2
 Queue = 1
 Sessions = {s1, s2}
 NoSession = NoSession
 RawQueue = 1
 FrameQueue = 1
 Capacity = 1
 MaxFrames = 1
 MaxStops = 1
 Clients = {client}
 Sinks = {sink, listener}
 Listener = listener
 MaxSent = 1
SPECIFICATION Spec
INVARIANT AcceptedIsNotLost
PROPERTIES EverythingStops
CHECK_DEADLOCK FALSE
