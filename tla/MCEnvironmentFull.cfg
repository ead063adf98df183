SPECIFICATION Spec
CONSTANTS
  EnvSize = 13
  Chars <- MCChars
  Names <- MCNames
  Values <- MCValues
  Ethaddr <- MCEthaddr
  EthValue <- MCEthValue
  Console <- MCConsole
  Baudrate <- MCBaudrate
  Serverip <- MCServerip
  Ipaddr <- MCIpaddr
  Bootfile <- MCBootfile
  Answers <- MCAnswers
  Default <- MCDefault
  MaxSets = 2
  MaxSaves = 1
PROPERTY SaveSurvives
CHECK_DEADLOCK FALSE
