\* two letters from one router to another that listens
SPECIFICATION FairSpec
CONSTANTS
    MaxSends <- MCMaxSends
    MaxEvents = 2
    MaxPipes = 3
INVARIANTS TypeOK AtMostOnce ReplyAddressIsTheSenders
PROPERTIES LettersAreSettled AnswersAreSettled
CHECK_DEADLOCK FALSE
