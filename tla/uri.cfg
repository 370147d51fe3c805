CONSTANTS
    MaxLen = 9
    MaxNumber = 99999999
    ByteBits = 2
    V4Bytes = 2
    V6Bytes = 2
    MaxHost = 5
SPECIFICATION NetSpec
CHECK_DEADLOCK FALSE
INVARIANTS FieldsExact  AddressExact
