CONSTANTS
 MaxSteps = 2
 MaxTools = 2
 MaxChunks = 1
 MaxLate = 1
 Models = {m1}
 Evictors = {e1, e2}
 Unregistered = Unregistered
 MaxUsers = 3
 Ids = {m}
 Ops = {a, b}
 None = None
 Indices = {1, 2}
 MaxEvents = 4
 Urls = {u1, u2, u3}
 MaxResults = 2
 MaxRedirects = 2
 MaxAddresses = 2
 NoUrl = NoUrl
 Requests = {r1, r2}
 Tools = {t1, t2}
 Outputs = {out1, out2}
 Errors = {err}
 Screens = {screen1, screen2}
 ToolThreshold = 3
 ObsThreshold = 3
 MaxHistory = 4
 Prompts = {q1, q2}
 MaxPrompts = 2
 Window = 4
 Cooldown = 2
 Timeout = 2
 Workers = 2
SPECIFICATION ServicesSpec
INVARIANTS NothingLeftBehind ForgottenIsNotRecalled AnswerIsWhatWasMeant
 WhatWasFoundIsAnswered EverythingIsTakenDown ModelOnlyUnderLease
 LoopsAreFound
PROPERTIES BusyIsSpared RequestsEnd
CHECK_DEADLOCK FALSE
