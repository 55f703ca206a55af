\* Two chats answer the requests that their agents both numbered the same.
SPECIFICATION AckSpec
CONSTANTS
    NoCall = NoCall
    cancel1 = cancel1
    cancel2 = cancel2
    prompt = prompt
    chatA = chatA
    chatB = chatB
    CancelKey = CancelKey
    PromptKey = PromptKey
    Calls = {chatA, chatB}
    Keys = {CancelKey}
    KeyOf <- CollidingKeyOf
    Serial = {}
    MaxConns = 1
CHECK_DEADLOCK FALSE
INVARIANTS
    OkMeansTaken
