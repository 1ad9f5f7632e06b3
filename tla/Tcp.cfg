CONSTANTS
    Modulus = 32
    Iss <- MCIss
    ClientIss = 30
    MaxRetries = 1
    Servers <- EchoAndHttp
SPECIFICATION Spec
INVARIANTS DeliveredInOrder RequestsIntact
CHECK_DEADLOCK FALSE
