SPECIFICATION TransportSpec
CONSTANT MaxMsgs = 2
INVARIANTS InOrder EndsOnce LiveStays
PROPERTIES PollAnswered GoneNoticed FarewellTold
CHECK_DEADLOCK FALSE
