SPECIFICATION Spec
CONSTANTS
    Kinds = {"blank", "separator", "titled", "comment", "directive", "name", "variable", "request", "query", "header", "text", "bodyFile", "pre", "preOpen", "post", "postOpen", "close", "handler", "redirect", "spaced"}
    MaxLines = 4
INVARIANTS
    WrittenIsReadBack
CHECK_DEADLOCK FALSE
