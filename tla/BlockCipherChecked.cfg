\* AES-256 in CBC mode on published and on awkward inputs.
SPECIFICATION Spec
CONSTANT SBOX <- SboxTable
CONSTANT Hmac <- MCHmac
CONSTANT Jobs <- MCJobs
CONSTANT ShortHmac = 77
INVARIANT TypeOK
INVARIANT Retraces
INVARIANT DecodesToText
INVARIANT MatchesStandard
