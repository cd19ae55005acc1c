CONSTANTS
    Cap = 5
    f1 = f1
    f2 = f2
    Frames <- MCFrames
    Chunks <- MCChunks
    Zero = Zero
    None = None

SPECIFICATION Spec

INVARIANT TypeOK

PROPERTY ImplementsReconnectBuffer
