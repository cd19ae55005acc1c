\* Every reply subject in a documented format is parsed.
CONSTANTS
    None = None
    Replies <- PlainReplies
SPECIFICATION Spec
INVARIANT WellFormedIsParsed
\* jetstream_message_info returns: every behaviour ends after one parse.
CHECK_DEADLOCK FALSE
