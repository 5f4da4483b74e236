CONSTANTS
    Markets <- MCMarkets
    FirstAssets <- MCFirstAssets
    LaterAssets <- MCLaterAssets
    Expected <- MCExpected
    Foreign <- MCForeign
    MaxCrashes = 1
SPECIFICATION Spec
INVARIANTS
    SealedBeforeUse
    OpenIsPriced
    HandoverIsWhole
    UpgradeIsWhole
PROPERTIES
    AdminsRemain
    EventuallyDeployed
    EnabledIsPriced
