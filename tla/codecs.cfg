SPECIFICATION Spec
CONSTANTS
    NULL = NULL
    Commands <- SomeCommands
    Documents <- SomeDocuments
    Bursts <- SomeBursts
    CrcBits = 16
    CrcPoly = 40961
    WordBytes = 2
    LengthBytes = 2
    MaxAddPayload = 16
    Crc32 <- Crc
    CrcDigits = 4
    LogRecord <- Record
    Encoded <- Dump
    Decoded <- Parsed
INVARIANTS DocumentSurvives CommandSurvivesLog LogReadsAsPieces FramesReassembled DamageDetected
CHECK_DEADLOCK FALSE
