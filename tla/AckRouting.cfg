\* Keys that the server draws; the two executions of a cancel share one.
SPECIFICATION AckSpec
CONSTANTS
    NoCall = NoCall
    cancel1 = cancel1
    cancel2 = cancel2
    prompt = prompt
    chatA = chatA
    chatB = chatB
    CancelKey = CancelKey
    PromptKey = PromptKey
    Calls = {cancel1, cancel2, prompt}
    Keys = {CancelKey, PromptKey}
    KeyOf <- MCKeyOf
    Serial = {CancelKey, PromptKey}
    MaxConns = 2
CHECK_DEADLOCK FALSE
INVARIANTS
    DeliveryIsKnown
    LiveConnectionIsCurrent
