SPECIFICATION Spec

CONSTANTS
    WordMod = 1024
    Messages <- MCMessages
    Plains <- MCPlains

INVARIANTS
    MessagePadded
    KnownDigests
    CodeSpells
    BufferFits
    DecodesBack

CHECK_DEADLOCK FALSE
