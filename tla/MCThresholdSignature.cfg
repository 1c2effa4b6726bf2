SPECIFICATION Spec
CONSTANTS
    Nil = Nil
    Refused = Refused
    k1 = k1
    k2 = k2
    P = 2029
    YBits = 11
    L = 257
    Digits = 4
    d = 35
    SqrtM1 = 992
    Base <- MCBase
    Configs <- MCConfigs
    Hashes = {5, 40009}
    Coefficients <- MCCoefficients
    Secrets = {30000}
    Digests = {7, 2000}
    WordBits = 9
INVARIANTS
    TypeOK
    ConfigurationIsSound
    SignersAreDealers
    SignatureIsPlain
    SignatureVerifies
    FewShardsFitEveryKey
