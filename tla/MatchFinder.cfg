SPECIFICATION Spec
CONSTANTS
    w_size = 16
    max_match = 5
    ktoo_far = 5
    hash_bits = 3
    byte = 2
    lit_bufsize = 5
    Texts <- MCTexts
    Settings <- MCSettings
    NewWindows <- MCNewWindows
    BitXor <- MCXor
    Amounts = {10, 40}
    Flushes = {"none", "sync", "full"}
INVARIANTS
    ChainsHoldTheStrings
    LongestFound
    SymbolsAreText
