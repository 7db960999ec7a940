SPECIFICATION Spec
CONSTANTS
    MaxItems = 3
\* All three fail: exchange them to see the others.
INVARIANT OneCredential
\* INVARIANT ReadsBackAsPlanned
\* INVARIANT NothingIsLostSilently
CHECK_DEADLOCK FALSE
