SPECIFICATION Spec
CONSTANTS
    Claims <- MCClaims
    Interfaces <- MCInterfaces
    NoClaim = NoClaim
    NoText = NoText
    MaxPublished = 3
PROPERTY
    SecondClaimIgnored
