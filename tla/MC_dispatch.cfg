SPECIFICATION Spec
CONSTANTS
    Alphabet <- MCAlphabet
    MaxLen = 4
    ServicePrefixes <- MCServicePrefixes
    Paths <- MCPaths
    Noop = Noop
INVARIANT TypeOK UrlHelpersCorrect DispatchMostSpecific
