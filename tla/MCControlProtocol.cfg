CONSTANTS
    Request = {r1, r2}
    Inbound = {h1}
    MaxWire = 1
    Schedulers = {"current_thread", "multi_thread"}
SPECIFICATION Spec
INVARIANTS TablesAgree NoAnswerLost CloseSettles
PROPERTIES CancelSilences HandlersAnswer
