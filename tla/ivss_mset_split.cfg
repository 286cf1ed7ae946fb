\* Correct dealer 1; process 4 plays along in every EQUAL but sends nothing
\* under the MSET uuid.  Every EQUAL is A-Cast
\* and eventually delivered, in any order, and nothing is flagged.
CONSTANTS
    N = 4
    T = 1
    Byz = {4}
    Dealer = 1
    EqPairs <- MCAllPairs
    Flags <- MCNoFlags
    ByzMsetTypes = {}
    CliqueSearch = TRUE
SPECIFICATION Spec
PROPERTY SharingTermination
CHECK_DEADLOCK FALSE
