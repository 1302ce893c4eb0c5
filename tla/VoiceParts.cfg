CONSTANTS
 Size = 3
 MaxConcurrent = 2
 Onset = 2
 PreRoll = 2
 Silence = 2
 Shortest = 4
 Longest = 7
 Sustained = 2
 Burst = 2
 MaxPoll = 4
 MaxFrames = 9
 Turns = {t1, t2}
 MaxBargeIns = 1
 NoOne = NoOne
 Callers = {c1, c2}
 None = None
 MaxHeard = 2
 Window = 2
 MaxText = 6
 MinSentence = 3
 MinClause = 2
 MinClauseWords = 1
 FirstWords = 2
 ShortSentence = 1
 SlowTools = {"files.read_file"}
 MaxHistory = 1
 MaxBackground = 1
 MaxSamples = 2
 Threshold = 1
 MaxTurns = 2
 MaxCalls = 2
SPECIFICATION Spec
INVARIANTS UtterancesAreWhole NeverLeftBusy CompletedUndisturbed WholeModelsOneAtATime
PROPERTIES SpokenWhole TurnsKeepTheirContext StreamImplementsOrderedStream StreamTasksEnd
CHECK_DEADLOCK FALSE
